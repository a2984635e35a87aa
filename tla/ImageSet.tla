------------------------------- MODULE ImageSet -------------------------------
(***************************************************************************)
(* Images attached to a message: /image inspects and keeps them, and the   *)
(* send opens and checks all of them before it reads the first, while the  *)
(* files may change at any time: rewritten in place, replaced by another   *)
(* file, or removed.  A handle keeps the file it was opened on.            *)
(***************************************************************************)
EXTENDS Naturals, Sequences, Functions

CONSTANTS Paths,       \* image files
          MaxImages, MaxBytes, MaxTotal,  \* MAX_IMAGE_ATTACHMENTS, _BYTES, MAX_TOTAL_IMAGE_BYTES
          MaxChanges,  \* bound: changes of files from outside
          MaxSends     \* bound: messages

VARIABLES disk,     \* at: the file a path names, 0 for none; content of each file; the number of
                    \* changes; touched: files rewritten in place since they were last opened
          pending,  \* pendingImages: the path, type and size of each as inspected
          gate,     \* what is going on: idle, detecting, opening, verifying or typing; the images of the
                    \* message; the handles, each with its file and verified size; the data read
          sent      \* what the last message had, and how many there were
images == <<disk, pending, gate, sent>>

Contents == [type : {"png", "gif", "none"}, size : 0..(MaxBytes + 1)]
Image(type, size) == [type |-> type, size |-> size]
Idle == [pc |-> "idle", path |-> "none", size |-> 0, submitted |-> <<>>, opened |-> <<>>, read |-> <<>>]
ImagesInit ==
    /\ \E first \in [Paths -> {Image("png", 1), Image("gif", MaxBytes)}] :
          disk = [at |-> [p \in Paths |-> 1], changes |-> 0, touched |-> {},
                  content |-> [f \in Paths \X {1, 2} |-> first[f[1]]]]
    /\ pending = <<>> /\ gate = Idle /\ sent = [n |-> 0, urls |-> <<>>]

Exists(p) == disk.at[p] # 0
File(p) == <<p, disk.at[p]>>
Now(p) == disk.content[File(p)]
Total(list) ==
    LET sum[i \in 0..Len(list)] == IF i = 0 THEN 0 ELSE sum[i - 1] + list[i].size
    IN  sum[Len(list)]
\* validateImageAttachmentSet
ValidSet(s) == Len(s) <= MaxImages /\ Total(s) <= MaxTotal

(***************************************************************************)
(* Files change.  Replacing one gives the path to a file that has not been *)
(* there; every path has one such file.                                    *)
(***************************************************************************)
Change(d) == disk' = [d EXCEPT !.changes = @ + 1] /\ UNCHANGED <<pending, gate, sent>>
Rewrite(p, c) ==
    /\ disk.changes < MaxChanges /\ Exists(p)
    /\ Change([disk EXCEPT !.content[File(p)] = c, !.touched = @ \cup {File(p)}])
Replace(p, c) ==
    /\ disk.changes < MaxChanges /\ disk.at[p] = 1
    /\ Change([disk EXCEPT !.at[p] = 2, !.content[<<p, 2>>] = c])
Unlink(p) ==
    /\ disk.changes < MaxChanges /\ Exists(p)
    /\ Change([disk EXCEPT !.at[p] = 0])

(***************************************************************************)
(* /image: the size comes from the path, the type from the file opened     *)
(* afterwards.                                                             *)
(***************************************************************************)
InspectImage(p) ==
    /\ gate.pc = "idle" /\ sent.n < MaxSends
    /\ Exists(p) /\ Now(p).size \in 1..MaxBytes
    /\ gate' = [Idle EXCEPT !.pc = "detecting", !.path = p, !.size = Now(p).size]
    /\ UNCHANGED <<disk, pending, sent>>
Without(list, p) ==
    LET kept[i \in 0..Len(list)] ==
            IF i = 0 THEN <<>>
            ELSE IF list[i].path = p THEN kept[i - 1]
            ELSE Append(kept[i - 1], list[i])
    IN  kept[Len(list)]
DetectImage ==
    /\ gate.pc = "detecting" /\ gate' = Idle /\ UNCHANGED <<disk, sent>>
    /\ LET p == gate.path
           next == Append(Without(pending, p), [path |-> p, type |-> Now(p).type, size |-> gate.size])
       IN  pending' = IF Exists(p) /\ Now(p).type # "none" /\ ValidSet(next) THEN next ELSE pending
ClearImages ==
    /\ gate.pc = "idle" /\ pending # <<>>
    /\ pending' = <<>> /\ UNCHANGED <<disk, gate, sent>>

(***************************************************************************)
(* The message: imageAttachmentDataUrls.                                   *)
(***************************************************************************)
Submit ==
    /\ gate.pc = "idle" /\ pending # <<>> /\ sent.n < MaxSends
    /\ gate' = [Idle EXCEPT !.pc = "opening", !.submitted = pending]
    /\ pending' = <<>> /\ sent' = [n |-> sent.n + 1, urls |-> <<>>] /\ UNCHANGED disk
\* Every handle is closed, and the images go back to the line.
Fail == gate' = Idle /\ pending' = gate.submitted /\ UNCHANGED sent

NextImage == gate.submitted[Len(gate.opened) + 1]
Open ==
    /\ gate.pc = "opening" /\ Len(gate.opened) < Len(gate.submitted)
    /\ IF Exists(NextImage.path)
       THEN /\ gate' = [gate EXCEPT !.pc = "verifying",
                                    !.opened = Append(@, [file |-> File(NextImage.path), size |-> 0])]
            /\ disk' = [disk EXCEPT !.touched = @ \ {File(NextImage.path)}]
            /\ UNCHANGED <<pending, sent>>
       ELSE Fail /\ UNCHANGED disk
\* verifyOpenAttachment: the size, then the first bytes; then the sum so far.
Last == Len(gate.opened)
Verify ==
    /\ gate.pc = "verifying" /\ UNCHANGED disk
    /\ LET size == disk.content[gate.opened[Last].file].size
       IN  IF size \in 1..MaxBytes
           THEN /\ gate' = [gate EXCEPT !.pc = "typing", !.opened[Last].size = size]
                /\ UNCHANGED <<pending, sent>>
           ELSE Fail
ReadType ==
    /\ gate.pc = "typing" /\ UNCHANGED disk
    /\ IF /\ disk.content[gate.opened[Last].file].type = gate.submitted[Last].type
          /\ Total(gate.opened) <= MaxTotal
       THEN gate' = [gate EXCEPT !.pc = "opening"] /\ UNCHANGED <<pending, sent>>
       ELSE Fail
\* MUTANT: the data is as long as the file was.
SameLengthAlways(entry, c) == TRUE
SameLength(entry, c) == c.size = entry.size
Read ==
    /\ gate.pc = "opening" /\ Len(gate.opened) = Len(gate.submitted)
    /\ Len(gate.read) < Len(gate.opened) /\ UNCHANGED disk
    /\ LET i == Len(gate.read) + 1
           c == disk.content[gate.opened[i].file]
       IN  IF SameLength(gate.opened[i], c)
           THEN /\ gate' = [gate EXCEPT !.read = Append(@,
                      [type |-> gate.submitted[i].type, size |-> c.size, is |-> c.type,
                       file |-> gate.opened[i].file])]
                /\ UNCHANGED <<pending, sent>>
           ELSE Fail
Send ==
    /\ gate.pc = "opening" /\ gate.read # <<>> /\ Len(gate.read) = Len(gate.submitted)
    /\ gate' = Idle /\ sent' = [sent EXCEPT !.urls = gate.read] /\ UNCHANGED <<disk, pending>>

ImagesNext ==
    \/ \E p \in Paths : \/ InspectImage(p) \/ Unlink(p)
                        \/ \E c \in Contents : Rewrite(p, c) \/ Replace(p, c)
    \/ DetectImage \/ ClearImages \/ Submit \/ Open \/ Verify \/ ReadType \/ Read \/ Send
ImagesSpec == ImagesInit /\ [][ImagesNext]_images
-----------------------------------------------------------------------------
(* Properties *)

\* Whatever happens to the files meanwhile, a message has no more and no larger images than
\* allowed, alone and together, each of the type it was attached as - unless its file was
\* rewritten in place, to the size it had when that was looked up, after the message opened it.
\* (imageAttachmentDataUrls, verifyOpenAttachment)
ImagesSentAreAllowed ==
    /\ Len(sent.urls) <= MaxImages /\ Total(sent.urls) <= MaxTotal
    /\ \A url \in Range(sent.urls) :
          /\ url.size \in 1..MaxBytes
          /\ url.is = url.type \/ url.file \in disk.touched
===============================================================================
