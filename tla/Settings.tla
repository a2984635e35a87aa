------------------------------- MODULE Settings -------------------------------
(***************************************************************************)
(* What the dashboard keeps in step with the open chat: the active model   *)
(* and its thinking, in the configuration, on disk and in every chat; the  *)
(* metadata of the model the dashboard holds; the approval mode in force;  *)
(* and the images waiting for the next message.  A handler of a command    *)
(* is one action: the input line is not read again before it has ended.    *)
(* Only the metadata asked for at the start arrives in between.            *)
(***************************************************************************)
EXTENDS Naturals

CONSTANTS Models, Thinkings, Chats, Images,
          Default,  \* DEFAULT_REASONING_SETTING, which every model takes
          Unknown,       \* no metadata
          None           \* no preferences, no chat file, nothing asked for
CONSTANTS TakesImages,   \* the models whose inputModalities name images
          Allows,        \* [Models -> SUBSET Thinkings]: what validateReasoningSetting lets through
          MaxCommands,   \* bound: commands and messages
          MaxFailures    \* bound: writes that fail

VARIABLES config,    \* mainModel, reasoningByModel, approvalMode
          disk,      \* the configuration file, and the preferences in the file of each chat
          chat,      \* the open session: its id and preferences
          info,      \* currentModelInfo
          asked,     \* startupModel, while its metadata is on the way
          mode,      \* approvals.mode
          images,    \* pendingImages and submittedImages
          phase,     \* where the dashboard is
          ghost      \* agreed: allow-all was agreed to in this process; used: the settings last in
                     \* effect in each chat; unchecked: models whose thinking was set without
                     \* metadata; broken: a write of this process failed; known: the images were
                     \* checked against metadata; sent: the message went out; commands,
                     \* failures: bounds
vars == <<config, disk, chat, info, asked, mode, images, phase, ghost>>

Modes == {"ask", "allow-all"}   \* the other modes behave like ask here
Prefs == [model : Models, thinking : Thinkings]

ASSUME SettingsAssumption ==
    /\ Models # {} /\ Unknown \notin Models /\ None \notin Models \cup Chats \cup Prefs
    /\ Allows \in [Models -> SUBSET Thinkings] /\ \A m \in Models : Default \in Allows[m]

PrefsOf(c) == [model |-> c.model, thinking |-> c.thinking[c.model]]
\* setPreferences, and the preferences of an opened chat put into the configuration.
Set(id, c) == [id |-> id, prefs |-> PrefsOf(c)]
Take(c, p) ==
    IF p = None THEN c
    ELSE [c EXCEPT !.model = p.model, !.thinking[p.model] = p.thinking]
Save(d, c) == [d EXCEPT !.chats[c.id] = c.prefs]
SaveConfig(d, c) == [d EXCEPT !.config = c]

Exists(id) == disk.chats[id] # None
\* A new chat gets an id no file has; it has no preferences and no file yet.
Fresh == {id \in Chats : ~Exists(id) /\ id # chat.id}
\* loadModelSnapshot: the metadata, or none when the request fails.
Snapshot(m) == {m, Unknown}

Using(g, id, c) == [g EXCEPT !.used[id] = PrefsOf(c)]
\* A write that fails throws out of its handler: the rest of the handler is skipped.
Failing(g) == [g EXCEPT !.broken = TRUE, !.failures = @ + 1]
Command(g) == [g EXCEPT !.commands = @ + 1]
MayCommand == phase = "input" /\ ghost.commands < MaxCommands
MayFail == ghost.failures < MaxFailures

Init ==
    /\ config = [model |-> CHOOSE m \in Models : TRUE, thinking |-> [m \in Models |-> Default],
                 mode |-> "ask"]
    /\ disk = [config |-> config, chats |-> [id \in Chats |-> None]]
    /\ chat = [id |-> None, prefs |-> None]
    /\ info = Unknown /\ asked = None /\ mode = "ask"
    /\ images = [pending |-> {}, submitted |-> {}]
    /\ phase = "off"
    /\ ghost = [agreed |-> FALSE, used |-> [id \in Chats |-> None], unchecked |-> {},
                broken |-> FALSE, known |-> FALSE, sent |-> FALSE, commands |-> 0, failures |-> 0]

(***************************************************************************)
(* The start, and the end.                                                 *)
(***************************************************************************)
\* main, with the options --model and --approval, for the chat it opens or creates.
Start(id, model, option) ==
    LET stored == [disk.config EXCEPT !.model = IF model = None THEN @ ELSE model,
                                      !.mode = IF option = None THEN @ ELSE option]
        c == IF model = None THEN Take(stored, disk.chats[id]) ELSE stored IN
    /\ phase = "off" /\ ghost.commands < MaxCommands
    /\ config' = c /\ chat' = Set(id, c) /\ mode' = c.mode
    /\ info' = Unknown /\ asked' = None /\ images' = [pending |-> {}, submitted |-> {}]
    /\ phase' = "choose"
    /\ ghost' = [Using(Command(ghost), id, c) EXCEPT !.agreed = FALSE, !.broken = FALSE]
    /\ UNCHANGED disk

\* The chat chooser of the start is skipped, or closed without a choice.
AsksModel(c) == asked' = c.model /\ phase' = IF mode = "allow-all" THEN "confirm" ELSE "input"
StayInChat ==
    /\ phase = "choose"
    /\ AsksModel(config)
    /\ UNCHANGED <<config, disk, chat, info, mode, images, ghost>>

\* MUTANT: the answer is not looked at.
KeepAllowAllAnyway(yes) ==
    /\ phase = "confirm"
    /\ phase' = "input"
    /\ ghost' = [ghost EXCEPT !.agreed = yes]
    /\ UNCHANGED <<config, disk, chat, info, asked, images, mode>>
\* The stored allow-all is used only after a yes; the stored setting stays.
KeepAllowAll(yes) ==
    /\ phase = "confirm"
    /\ phase' = "input"
    /\ mode' = IF yes THEN mode ELSE "ask"
    /\ ghost' = [ghost EXCEPT !.agreed = yes]
    /\ UNCHANGED <<config, disk, chat, info, asked, images>>

\* The metadata asked for at the start arrives, at any time; of another model it is dropped.
StartupInfoArrives(found) ==
    /\ asked # None /\ phase # "off"
    /\ asked' = None
    /\ info' = IF config.model = asked THEN found ELSE info
    /\ UNCHANGED <<config, disk, chat, mode, images, phase, ghost>>

\* The end of the program saves the open chat.
Exit ==
    /\ phase = "input"
    /\ phase' = "off" /\ asked' = None
    /\ disk' = Save(disk, chat)
    /\ UNCHANGED <<config, chat, info, mode, images, ghost>>

(***************************************************************************)
(* Writing.  lost names the writes of a handler that did not happen: one   *)
(* that failed, and after it those that would have come later.             *)
(***************************************************************************)
Losses == {{}} \cup IF MayFail THEN SUBSET {"chat", "config"} ELSE {}
ConfigFirst == {lost \in Losses : "config" \in lost => "chat" \in lost}
ChatFirst == {lost \in Losses : "chat" \in lost => "config" \in lost}
Write(d, lost, s, c) ==
    [config |-> IF "config" \in lost THEN d.config ELSE c,
     chats |-> IF "chat" \in lost THEN d.chats ELSE [d.chats EXCEPT ![s.id] = s.prefs]]
Noting(lost, g) == IF lost = {} THEN g ELSE Failing(g)

(***************************************************************************)
(* Models and thinking.                                                    *)
(***************************************************************************)
\* selectModel and the dashboard's model picker: the model, its preferences in the chat,
\* both written; the metadata follows only when nothing failed.
ChangeModel(m, lost, found) ==
    LET c == [config EXCEPT !.model = m] IN
    /\ MayCommand
    /\ config' = c
    /\ disk' = Write(disk, lost, chat', c)
    /\ info' = IF lost = {} THEN found ELSE info
    /\ ghost' = Noting(lost, Using(Command(ghost), chat.id, c))
    /\ UNCHANGED <<asked, mode, images, phase>>
PickModel(m) ==
    \E lost \in ConfigFirst :
        /\ chat' = IF "config" \in lost THEN chat ELSE Set(chat.id, [config EXCEPT !.model = m])
        /\ ChangeModel(m, lost, m)
\* MUTANT: the chat is not told, and written as it was.
ModelCommandForgetsChat(m) ==
    \E found \in Snapshot(m) :
        /\ chat' = chat
        /\ ChangeModel(m, {}, found)
ModelCommand(m) ==
    \E lost \in Losses, found \in Snapshot(m) :
        /\ chat' = Set(chat.id, [config EXCEPT !.model = m])
        /\ ChangeModel(m, lost, found)

\* /think: what the metadata in hand lets through; without metadata everything.
SetThinking(t, metadata, lost) ==
    LET c == [config EXCEPT !.thinking[config.model] = t] IN
    /\ t \in IF metadata = Unknown THEN Thinkings ELSE Allows[metadata]
    /\ config' = c /\ chat' = Set(chat.id, c)
    /\ disk' = Write(disk, lost, Set(chat.id, c), c)
    /\ ghost' = [Noting(lost, Using(Command(ghost), chat.id, c)) EXCEPT
                    !.unchecked = IF metadata = Unknown THEN @ \cup {c.model} ELSE @]
    /\ UNCHANGED <<asked, mode, images, phase>>
\* The picker uses the metadata in hand, and asks only when there is none.
PickThinking(t) ==
    /\ MayCommand
    /\ \E found \in IF info = Unknown THEN Snapshot(config.model) ELSE {info}, lost \in Losses :
           info' = found /\ SetThinking(t, found, lost)
\* The command asks every time.
ThinkCommand(t) ==
    /\ MayCommand
    /\ \E found \in Snapshot(config.model), lost \in Losses :
           SetThinking(t, found, lost) /\ UNCHANGED info

(***************************************************************************)
(* Approval modes.                                                         *)
(***************************************************************************)
\* The picker and /approval <mode>: allow-all only after a yes.
ChangeApproval(m, yes) ==
    /\ MayCommand
    /\ m = "allow-all" => yes
    /\ mode' = m
    /\ config' = [config EXCEPT !.mode = m]
    /\ \E lost \in {{}} \cup IF MayFail THEN {{"config"}} ELSE {} :
           /\ disk' = IF lost = {} THEN SaveConfig(disk, config') ELSE disk
           /\ ghost' = [Noting(lost, Command(ghost)) EXCEPT !.agreed = @ \/ m = "allow-all"]
    /\ UNCHANGED <<chat, info, asked, images, phase>>

(***************************************************************************)
(* Chats.                                                                  *)
(***************************************************************************)
\* What the open chat leaves behind, and what a chat brings with it.
Left == Save(disk, Set(chat.id, config))
Entered(d, id) == Take(config, d.chats[id])

\* The swap of pickDashboardChat, after the open chat was saved: the new one is saved,
\* then the configuration.
Swap(g, id, lost) ==
    LET c == Entered(Left, id) IN
    /\ config' = c /\ chat' = Set(id, c)
    /\ disk' = Write(Left, lost, Set(id, c), c)
    /\ ghost' = Noting(lost, Using(g, id, c))
Choosable == {id \in Chats : Exists(id) /\ id # chat.id} \cup Fresh

\* The chooser of the start; a failing write ends the program.
ChooseChatAtStart(id) ==
    /\ phase = "choose" /\ id \in Choosable
    /\ \E lost \in ChatFirst :
           /\ Swap(ghost, id, lost)
           /\ IF lost = {} THEN AsksModel(config') ELSE phase' = "off" /\ asked' = None
    /\ UNCHANGED <<info, mode, images>>
\* /chats: the images stay attached.
PickChat(id) ==
    /\ MayCommand /\ id \in Choosable
    /\ \E lost \in ChatFirst :
           /\ Swap(Command(ghost), id, lost)
           /\ IF lost = {} THEN info' \in Snapshot(config'.model) ELSE UNCHANGED info
    /\ UNCHANGED <<asked, mode, images, phase>>

\* replaceSession, for /chat open, new, fork and delete, from the chat files d; then, when
\* nothing failed, the dashboard drops the images and asks for the metadata.
ReplaceSession(d, id) ==
    \E lost \in Losses :
        /\ config' = Entered(d, id) /\ chat' = Set(id, config')
        /\ disk' = Write(d, lost, Set(id, config'), config')
        /\ ghost' = Noting(lost, Using(Command(ghost), id, config'))
        /\ IF lost = {} THEN /\ info' \in Snapshot(config'.model)
                             /\ images' = [images EXCEPT !.pending = {}]
                        ELSE UNCHANGED <<info, images>>
        /\ UNCHANGED <<asked, mode, phase>>
\* The open chat is saved first when another one is opened.
ChatOpen(id) ==
    /\ MayCommand /\ Exists(id)
    /\ ReplaceSession(IF id = chat.id THEN disk ELSE Left, id)
ChatNew(id) == MayCommand /\ id \in Fresh /\ ReplaceSession(Left, id)
\* The fork has the preferences of the chat it comes from, and is saved before the swap.
ChatFork(id) ==
    /\ MayCommand /\ id \in Fresh
    /\ ReplaceSession([Left EXCEPT !.chats[id] = PrefsOf(config)], id)
\* Deleting the open chat starts a new one, and replaceSession saves the deleted one again.
ChatDelete(id) ==
    /\ MayCommand /\ Exists(id)
    /\ IF id = chat.id
       THEN \E new \in Fresh : ReplaceSession(Left, new)
       ELSE /\ disk' = [disk EXCEPT !.chats[id] = None]
            /\ ghost' = [Command(ghost) EXCEPT !.used[id] = None]
            /\ UNCHANGED <<config, chat, info, asked, mode, images, phase>>
\* The very first write of a change of chats fails: nothing else happens.
LeavingFails ==
    /\ phase = "input" /\ ghost.commands < MaxCommands /\ MayFail
    /\ chat' = Set(chat.id, config)
    /\ ghost' = Failing(Command(ghost))
    /\ UNCHANGED <<config, disk, info, asked, mode, images, phase>>

(***************************************************************************)
(* Images and messages.                                                    *)
(***************************************************************************)
Attach(i) ==
    /\ MayCommand
    /\ images' = [images EXCEPT !.pending = @ \cup {i}]
    /\ ghost' = Command(ghost)
    /\ UNCHANGED <<config, disk, chat, info, asked, mode, phase>>
ClearImages ==
    /\ MayCommand /\ images.pending # {}
    /\ images' = [images EXCEPT !.pending = {}]
    /\ ghost' = Command(ghost)
    /\ UNCHANGED <<config, disk, chat, info, asked, mode, phase>>
\* With images, the metadata decides whether the message goes out at all.
Takes(metadata) == metadata = Unknown \/ metadata \in TakesImages
Submit ==
    /\ MayCommand
    /\ \E found \in IF images.pending # {} /\ info = Unknown THEN Snapshot(config.model)
                    ELSE {info} :
           /\ info' = found
           /\ IF images.pending # {} /\ ~Takes(found)
              THEN /\ ghost' = Command(ghost)
                   /\ UNCHANGED <<images, phase>>
              ELSE /\ phase' = "run"
                   /\ images' = [pending |-> {}, submitted |-> images.pending]
                   /\ ghost' = [Command(ghost) EXCEPT !.known = found # Unknown, !.sent = FALSE]
    /\ UNCHANGED <<config, disk, chat, asked, mode>>
RunSucceeds ==
    /\ phase = "run" /\ phase' = "input"
    /\ images' = [images EXCEPT !.submitted = {}]
    /\ ghost' = [ghost EXCEPT !.sent = TRUE]
    /\ UNCHANGED <<config, disk, chat, info, asked, mode>>
\* The images come back, in front of those attached meanwhile.
RunFails ==
    /\ phase = "run" /\ phase' = "input"
    /\ images' = [pending |-> images.submitted \cup images.pending, submitted |-> {}]
    /\ UNCHANGED <<config, disk, chat, info, asked, mode, ghost>>

Next ==
    \/ \E id \in Chats, m \in Models \cup {None}, o \in Modes \cup {None} : Start(id, m, o)
    \/ StayInChat
    \/ \E yes \in BOOLEAN : KeepAllowAll(yes)
    \/ \E found \in Snapshot(asked) : StartupInfoArrives(found)
    \/ Exit
    \/ \E m \in Models : PickModel(m) \/ ModelCommand(m)
    \/ \E t \in Thinkings : PickThinking(t) \/ ThinkCommand(t)
    \/ \E m \in Modes, yes \in BOOLEAN : ChangeApproval(m, yes)
    \/ \E id \in Chats : ChooseChatAtStart(id) \/ PickChat(id) \/ ChatOpen(id) \/ ChatNew(id)
                         \/ ChatFork(id) \/ ChatDelete(id)
    \/ LeavingFails
    \/ \E i \in Images : Attach(i)
    \/ ClearImages \/ Submit \/ RunSucceeds \/ RunFails
Spec == Init /\ [][Next]_vars
-----------------------------------------------------------------------------
(* Properties *)

\* allow-all is in force only after the user agreed to it in this process, whatever the
\* configuration, an option or an earlier process say.  (runDashboard, approvalCommand)
AllowAllOnlyByYes == phase \in {"input", "run"} /\ mode = "allow-all" => ghost.agreed

\* A message with images goes only to a model that takes images, unless its metadata was not
\* to be had or a write of this process failed.  (runDashboard, loadModelSnapshot)
ImagesOnlyToModelsThatTakeThem ==
    phase = "run" /\ images.submitted # {} /\ ghost.known /\ ~ghost.broken =>
        config.model \in TakesImages

\* A chat that is opened again finds the model and the thinking that were last in effect in
\* it, however it was left, unless a write failed.  (replaceSession, pickDashboardChat)
ChatsKeepTheirSettings ==
    ghost.failures = 0 =>
        \A id \in Chats \ {chat.id} : ghost.used[id] # None => disk.chats[id] = ghost.used[id]

\* The thinking in effect is one the model lets through, unless it was set while there was no
\* metadata of the model, however model, chat and start are mixed, unless a write failed.
\* (validateReasoningSetting, setReasoningSetting)
ThinkingFitsModel ==
    ghost.failures = 0 =>
        \A m \in Models \ ghost.unchecked : config.thinking[m] \in Allows[m]

\* Nothing runs under settings its model does not take or the user did not agree to.
SettingsFit == AllowAllOnlyByYes /\ ImagesOnlyToModelsThatTakeThem /\ ThinkingFitsModel
===============================================================================
