------------------------------ MODULE MCSettings ------------------------------
EXTENDS Settings

CONSTANTS Painter, Writer, High, C1, C2, Picture
TwoModels == {Painter, Writer}
TwoThinkings == {Default, High}
TwoChats == {C1, C2}
OnePicture == {Picture}
OnlyPainter == {Painter}
OnlyPainterThinks == [m \in TwoModels |-> IF m = Painter THEN {Default, High} ELSE {Default}]
===============================================================================
