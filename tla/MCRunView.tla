------------------------------ MODULE MCRunView  ------------------------------
EXTENDS RunView

CONSTANTS T1, T2, I1, I2
OneTool == {T1}
TwoInputs == {I1, I2}
Interchangeable == [TwoInputs -> TwoInputs]
===============================================================================
