---------------------------- MODULE DashboardProofs ---------------------------
(* Proofs about the dashboard's two sides: Settings, what a process keeps in step    *)
(* with the disk, the agent and the next request, and TerminalInput, what is typed.  *)
(* Each has one inductive invariant, from which the properties its run checks follow. *)
EXTENDS Settings, TerminalInput, FiniteSetTheorems, SequenceTheorems, TLAPS


-----------------------------------------------------------------------------
(* Settings: the invariant *)

ConfigRec == [model : Models, thinking : [Models -> Thinkings], mode : Modes]
MaybePrefs == Prefs \cup {None}
DiskRec == [config : ConfigRec, chats : [Chats -> MaybePrefs]]
ChatRec == [id : Chats \cup {None}, prefs : MaybePrefs]
ImagesRec == [pending : SUBSET Images, submitted : SUBSET Images]
GhostRec == [agreed : BOOLEAN, used : [Chats -> MaybePrefs], unchecked : SUBSET Models,
             broken : BOOLEAN, known : BOOLEAN, sent : BOOLEAN, commands : Nat, failures : Nat]
Phases == {"off", "choose", "confirm", "input", "run"}
ITypes ==
    /\ config \in ConfigRec /\ disk \in DiskRec /\ chat \in ChatRec
    /\ images \in ImagesRec /\ ghost \in GhostRec /\ phase \in Phases
    /\ phase # "off" => chat.id \in Chats
    /\ asked \in Models \cup {None}

\* The metadata in hand is of the model in use, unless a write failed.
IInfo ==
    /\ ghost.broken \/ info \in {Unknown, config.model}
    /\ phase = "choose" => info = Unknown /\ asked = None
    /\ ghost.broken => ghost.failures # 0

\* Every thinking that is set anywhere is one its model lets through.
ConfigFits(c, unchecked) == \A m \in Models \ unchecked : c.thinking[m] \in Allows[m]
PrefsFit(p, unchecked) == p # None => p.model \in unchecked \/ p.thinking \in Allows[p.model]
IFits ==
    ghost.failures = 0 =>
        /\ ConfigFits(config, ghost.unchecked) /\ ConfigFits(disk.config, ghost.unchecked)
        /\ \A id \in Chats : PrefsFit(disk.chats[id], ghost.unchecked)

\* The open chat knows the settings in effect, and its file once the program has ended.
IKept ==
    ghost.failures = 0 =>
        /\ phase # "off" => chat.prefs = PrefsOf(config)
        /\ chat.id \in Chats => ghost.used[chat.id] = chat.prefs
        /\ chat.id \in Chats /\ phase = "off" => disk.chats[chat.id] = chat.prefs
        /\ \A id \in Chats \ {chat.id} : ghost.used[id] # None => disk.chats[id] = ghost.used[id]

ISettings == /\ ITypes /\ IInfo /\ IFits /\ IKept
             /\ AllowAllOnlyByYes /\ ImagesOnlyToModelsThatTakeThem

-----------------------------------------------------------------------------
(* What the operators of the model do *)

LEMMA PrefsOfConfig ==
    \A c \in ConfigRec : /\ PrefsOf(c) \in Prefs /\ PrefsOf(c) # None
                         /\ PrefsOf(c).model = c.model /\ PrefsOf(c).thinking = c.thinking[c.model]
BY SettingsAssumption DEF ConfigRec, PrefsOf, Prefs

LEMMA SetIs ==
    ASSUME NEW c \in ConfigRec, NEW id \in Chats
    PROVE  /\ Set(id, c) \in ChatRec /\ Set(id, c).id = id /\ Set(id, c).prefs = PrefsOf(c)
BY PrefsOfConfig DEF Set, ChatRec, MaybePrefs

\* A configuration with another model, thinking or mode.
LEMMA ConfigWith ==
    ASSUME NEW c \in ConfigRec
    PROVE  /\ \A m \in Models : /\ [c EXCEPT !.model = m] \in ConfigRec
                                /\ [c EXCEPT !.model = m].model = m
                                /\ [c EXCEPT !.model = m].thinking = c.thinking
                                /\ [c EXCEPT !.model = m].mode = c.mode
           /\ \A m \in Modes : /\ [c EXCEPT !.mode = m] \in ConfigRec
                               /\ [c EXCEPT !.mode = m].model = c.model
                               /\ [c EXCEPT !.mode = m].thinking = c.thinking
                               /\ [c EXCEPT !.mode = m].mode = m
           /\ \A t \in Thinkings, m \in Models :
                  /\ [c EXCEPT !.thinking[m] = t] \in ConfigRec
                  /\ [c EXCEPT !.thinking[m] = t].model = c.model
                  /\ [c EXCEPT !.thinking[m] = t].thinking = [c.thinking EXCEPT ![m] = t]
                  /\ [c EXCEPT !.thinking[m] = t].mode = c.mode
BY DEF ConfigRec

LEMMA TakeIs ==
    ASSUME NEW c \in ConfigRec, NEW p \in MaybePrefs
    PROVE  /\ Take(c, p) \in ConfigRec /\ Take(c, p).mode = c.mode
           /\ p # None => PrefsOf(Take(c, p)) = p
           /\ \A unchecked : ConfigFits(c, unchecked) /\ PrefsFit(p, unchecked)
                                => ConfigFits(Take(c, p), unchecked)
<1>1. CASE p = None
  BY <1>1 DEF Take
<1>2. CASE p # None
  <2>1. p \in Prefs /\ p.model \in Models /\ p.thinking \in Thinkings
        /\ p = [model |-> p.model, thinking |-> p.thinking]
    BY <1>2 DEF MaybePrefs, Prefs
  <2>. DEFINE d == Take(c, p)
  <2>. DEFINE e == [c EXCEPT !.model = p.model]
  <2>2. d = [e EXCEPT !.thinking[p.model] = p.thinking]
    BY <1>2 DEF Take
  <2>3. /\ d \in ConfigRec /\ d.model = p.model /\ d.mode = c.mode
        /\ d.thinking = [c.thinking EXCEPT ![p.model] = p.thinking]
    <3>1. e \in ConfigRec /\ e.model = p.model /\ e.thinking = c.thinking /\ e.mode = c.mode
      BY <2>1, ConfigWith
    <3>. HIDE DEF e
    <3>. QED BY <2>1, <2>2, <3>1, ConfigWith
  <2>. HIDE DEF d
  <2>4. /\ d.thinking[p.model] = p.thinking
        /\ \A m \in Models : m # p.model => d.thinking[m] = c.thinking[m]
    BY <2>1, <2>3 DEF ConfigRec
  <2>5. PrefsOf(d) = p
    BY <2>1, <2>3, <2>4 DEF PrefsOf
  <2>6. \A unchecked : ConfigFits(c, unchecked) /\ PrefsFit(p, unchecked)
                           => ConfigFits(d, unchecked)
    BY <1>2, <2>1, <2>4 DEF ConfigFits, PrefsFit
  <2>. QED BY <2>3, <2>5, <2>6 DEF d
<1>. QED BY <1>1, <1>2

\* The fields of a history.
SameHistory(g, h) ==
    /\ h.agreed = g.agreed /\ h.used = g.used /\ h.unchecked = g.unchecked
    /\ h.broken = g.broken /\ h.known = g.known /\ h.failures = g.failures

LEMMA CommandIs ==
    ASSUME NEW g \in GhostRec
    PROVE  Command(g) \in GhostRec /\ SameHistory(g, Command(g))
<1>. DEFINE n == g.commands + 1
<1>1. n \in Nat
  BY DEF GhostRec
<1>2. Command(g) = [g EXCEPT !.commands = n]
  BY DEF Command
<1>. HIDE DEF n
<1>3. [g EXCEPT !.commands = n] \in GhostRec
  BY <1>1 DEF GhostRec
<1>4. SameHistory(g, [g EXCEPT !.commands = n])
  BY DEF GhostRec, SameHistory
<1>. QED BY <1>2, <1>3, <1>4

LEMMA UsingIs ==
    ASSUME NEW g \in GhostRec, NEW id \in Chats, NEW c \in ConfigRec
    PROVE  /\ Using(g, id, c) \in GhostRec
           /\ Using(g, id, c).used = [g.used EXCEPT ![id] = PrefsOf(c)]
           /\ Using(g, id, c).agreed = g.agreed /\ Using(g, id, c).unchecked = g.unchecked
           /\ Using(g, id, c).broken = g.broken /\ Using(g, id, c).known = g.known
           /\ Using(g, id, c).failures = g.failures
<1>. DEFINE u == [g.used EXCEPT ![id] = PrefsOf(c)]
<1>1. u \in [Chats -> MaybePrefs]
  BY PrefsOfConfig DEF GhostRec, MaybePrefs
<1>2. Using(g, id, c) = [g EXCEPT !.used = u]
  BY DEF Using, GhostRec
<1>. HIDE DEF u
<1>3. [g EXCEPT !.used = u] \in GhostRec
  BY <1>1 DEF GhostRec
<1>4. [g EXCEPT !.used = u].used = u
  BY DEF GhostRec
<1>5. /\ [g EXCEPT !.used = u].agreed = g.agreed /\ [g EXCEPT !.used = u].unchecked = g.unchecked
      /\ [g EXCEPT !.used = u].broken = g.broken /\ [g EXCEPT !.used = u].known = g.known
      /\ [g EXCEPT !.used = u].failures = g.failures
  BY DEF GhostRec
<1>. QED BY <1>2, <1>3, <1>4, <1>5 DEF u

LEMMA FailingIs ==
    ASSUME NEW g \in GhostRec
    PROVE  /\ Failing(g) \in GhostRec /\ Failing(g).broken /\ Failing(g).failures # 0
           /\ Failing(g).agreed = g.agreed /\ Failing(g).known = g.known
           /\ Failing(g).used = g.used /\ Failing(g).unchecked = g.unchecked
<1>. DEFINE n == g.failures + 1
<1>1. n \in Nat /\ n # 0
  BY DEF GhostRec
<1>2. Failing(g) = [g EXCEPT !.broken = TRUE, !.failures = n]
  BY DEF Failing
<1>. HIDE DEF n
<1>3. [g EXCEPT !.broken = TRUE, !.failures = n] \in GhostRec
  BY <1>1 DEF GhostRec
<1>4. [g EXCEPT !.broken = TRUE, !.failures = n].broken
  BY DEF GhostRec
<1>5. [g EXCEPT !.broken = TRUE, !.failures = n].failures = n
  BY DEF GhostRec
<1>6. /\ [g EXCEPT !.broken = TRUE, !.failures = n].agreed = g.agreed
      /\ [g EXCEPT !.broken = TRUE, !.failures = n].known = g.known
      /\ [g EXCEPT !.broken = TRUE, !.failures = n].used = g.used
      /\ [g EXCEPT !.broken = TRUE, !.failures = n].unchecked = g.unchecked
  BY DEF GhostRec
<1>. QED BY <1>1, <1>2, <1>3, <1>4, <1>5, <1>6

LEMMA NotingIs ==
    ASSUME NEW g \in GhostRec, NEW lost
    PROVE  /\ Noting(lost, g) \in GhostRec
           /\ Noting(lost, g).agreed = g.agreed /\ Noting(lost, g).known = g.known
           /\ Noting(lost, g).used = g.used /\ Noting(lost, g).unchecked = g.unchecked
           /\ lost = {} => Noting(lost, g) = g
           /\ lost # {} => Noting(lost, g).broken /\ Noting(lost, g).failures # 0
BY FailingIs DEF Noting

LEMMA WriteIs ==
    ASSUME NEW d \in DiskRec, NEW lost, NEW s \in ChatRec, s.id \in Chats, NEW c \in ConfigRec
    PROVE  /\ Write(d, lost, s, c) \in DiskRec
           /\ lost = {} => /\ Write(d, lost, s, c).config = c
                           /\ Write(d, lost, s, c).chats = [d.chats EXCEPT ![s.id] = s.prefs]
BY DEF Write, DiskRec, ChatRec

LEMMA SaveIs ==
    ASSUME NEW d \in DiskRec, NEW s \in ChatRec, s.id \in Chats
    PROVE  /\ Save(d, s) \in DiskRec /\ Save(d, s).config = d.config
           /\ Save(d, s).chats = [d.chats EXCEPT ![s.id] = s.prefs]
BY DEF Save, DiskRec, ChatRec

-----------------------------------------------------------------------------
(* Kinds of steps *)

\* A step that leaves settings, files and chat as they are.
LEMMA SettingsStay ==
    ASSUME ISettings, UNCHANGED <<config, disk, chat>>, phase # "off", phase' # "off",
           ghost'.used = ghost.used, ghost'.unchecked = ghost.unchecked,
           ghost'.failures = ghost.failures
    PROVE  IFits' /\ IKept'
<1>1. IFits'
  BY DEF ISettings, IFits
<1>2. IKept'
  BY DEF ISettings, IKept
<1>. QED BY <1>1, <1>2

\* A step with a write that fails.
LEMMA FailedStep ==
    ASSUME ISettings, ITypes', ghost'.broken, ghost'.failures # 0, phase' # "choose",
           AllowAllOnlyByYes'
    PROVE  ISettings'
BY DEF ISettings, IInfo, IFits, IKept, ImagesOnlyToModelsThatTakeThem

\* More exceptions, fewer models that have to fit.
LEMMA FitsMore ==
    ASSUME NEW u, NEW w, u \subseteq w
    PROVE  /\ \A c : ConfigFits(c, u) => ConfigFits(c, w)
           /\ \A p : PrefsFit(p, u) => PrefsFit(p, w)
BY DEF ConfigFits, PrefsFit

LEMMA PrefsOfFit ==
    ASSUME NEW c \in ConfigRec, NEW u, ConfigFits(c, u)
    PROVE  PrefsFit(PrefsOf(c), u)
BY PrefsOfConfig DEF ConfigFits, PrefsFit, ConfigRec

\* A step after which the settings c are in effect in chat id.
LEMMA SettingsEnter ==
    ASSUME ISettings, NEW id \in Chats, NEW c \in ConfigRec,
           config' = c, chat' = Set(id, c), phase' # "off",
           ghost'.used = [ghost.used EXCEPT ![id] = PrefsOf(c)],
           ghost.unchecked \subseteq ghost'.unchecked,
           ghost'.failures = 0 => ghost.failures = 0,
           ghost'.failures = 0 =>
               /\ ConfigFits(c, ghost'.unchecked) /\ disk'.config \in {c, disk.config}
               /\ \A k \in Chats : disk'.chats[k] \in {disk.chats[k], PrefsOf(config), PrefsOf(c)}
               /\ \A k \in Chats \ {id} : ghost.used[k] # None => disk'.chats[k] = ghost.used[k]
    PROVE  IFits' /\ IKept'
<1>. SUFFICES ASSUME ghost'.failures = 0 PROVE IFits' /\ IKept'
  BY DEF IFits, IKept
<1>1. /\ ConfigFits(config, ghost.unchecked) /\ ConfigFits(disk.config, ghost.unchecked)
      /\ \A k \in Chats : PrefsFit(disk.chats[k], ghost.unchecked)
  BY DEF ISettings, IFits
<1>2. /\ ConfigFits(config, ghost'.unchecked) /\ ConfigFits(disk.config, ghost'.unchecked)
      /\ \A k \in Chats : PrefsFit(disk.chats[k], ghost'.unchecked)
  BY <1>1, FitsMore
<1>3. PrefsFit(PrefsOf(config), ghost'.unchecked) /\ PrefsFit(PrefsOf(c), ghost'.unchecked)
  BY <1>2, PrefsOfFit DEF ISettings, ITypes
<1>4. IFits'
  <2>1. ConfigFits(disk'.config, ghost'.unchecked)
    BY <1>2
  <2>2. \A k \in Chats : PrefsFit(disk'.chats[k], ghost'.unchecked)
    BY <1>2, <1>3
  <2>. QED BY <2>1, <2>2 DEF IFits, ConfigFits, PrefsFit
<1>5. chat'.id = id /\ chat'.prefs = PrefsOf(c)
  BY SetIs
<1>6. ghost'.used[id] = PrefsOf(c) /\ \A k \in Chats \ {id} : ghost'.used[k] = ghost.used[k]
  BY DEF ISettings, ITypes, GhostRec
<1>7. IKept'
  BY <1>5, <1>6 DEF IKept, PrefsOf
<1>. QED BY <1>4, <1>7

\* What the open chat leaves behind.
LEMMA LeftIs ==
    ASSUME ISettings, phase # "off"
    PROVE  /\ Left \in DiskRec /\ Left.config = disk.config
           /\ \A k \in Chats : Left.chats[k] \in {disk.chats[k], PrefsOf(config)}
           /\ ghost.failures = 0 =>
                  \A k \in Chats : ghost.used[k] # None => Left.chats[k] = ghost.used[k]
<1>. DEFINE s == Set(chat.id, config)
<1>1. s \in ChatRec /\ s.id = chat.id /\ s.prefs = PrefsOf(config) /\ chat.id \in Chats
  BY SetIs DEF ISettings, ITypes
<1>. HIDE DEF s
<1>2. Left = Save(disk, s)
  BY DEF Left, s
<1>3. /\ Left \in DiskRec /\ Left.config = disk.config
      /\ Left.chats = [disk.chats EXCEPT ![chat.id] = PrefsOf(config)]
  BY <1>1, <1>2, SaveIs DEF ISettings, ITypes
<1>4. \A k \in Chats : Left.chats[k] = IF k = chat.id THEN PrefsOf(config) ELSE disk.chats[k]
  BY <1>3 DEF ISettings, ITypes, DiskRec
<1>5. ghost.failures = 0 => ghost.used[chat.id] = PrefsOf(config)
  BY <1>1 DEF ISettings, IKept
<1>6. ghost.failures = 0 =>
        \A k \in Chats \ {chat.id} : ghost.used[k] # None => disk.chats[k] = ghost.used[k]
  BY DEF ISettings, IKept
<1>. QED BY <1>3, <1>4, <1>5, <1>6

\* A chat found in the files of its configuration brings settings that fit.
LEMMA EnteredIs ==
    ASSUME ISettings, NEW d \in DiskRec, NEW id \in Chats
    PROVE  /\ Entered(d, id) \in ConfigRec /\ Entered(d, id).mode = config.mode
           /\ ghost.failures = 0 /\ PrefsFit(d.chats[id], ghost.unchecked)
                => ConfigFits(Entered(d, id), ghost.unchecked)
<1>1. d.chats[id] \in MaybePrefs /\ config \in ConfigRec
  BY DEF DiskRec, ISettings, ITypes
<1>2. Entered(d, id) = Take(config, d.chats[id])
  BY DEF Entered
<1>. QED BY <1>1, <1>2, TakeIs DEF ISettings, IFits

-----------------------------------------------------------------------------
(* The start, and the end *)

LEMMA InitSettings == Init => ISettings
<1>. SUFFICES ASSUME Init PROVE ISettings
  OBVIOUS
<1>1. PICK m0 \in Models :
        config = [model |-> m0, thinking |-> [m \in Models |-> Default], mode |-> "ask"]
  <2>1. \E m \in Models : TRUE
    BY SettingsAssumption
  <2>2. (CHOOSE m \in Models : TRUE) \in Models
    BY <2>1, Zenon
  <2>3. config = [model |-> CHOOSE m \in Models : TRUE, thinking |-> [m \in Models |-> Default],
                  mode |-> "ask"]
    BY DEF Init
  <2>. DEFINE m0 == CHOOSE m \in Models : TRUE
  <2>4. m0 \in Models
        /\ config = [model |-> m0, thinking |-> [m \in Models |-> Default], mode |-> "ask"]
    BY <2>2, <2>3
  <2>. HIDE DEF m0
  <2>. QED BY <2>4
<1>2. Default \in Thinkings /\ \A m \in Models : Default \in Allows[m]
  <2>1. \A m \in Models : Default \in Allows[m] /\ Allows[m] \subseteq Thinkings
    BY SettingsAssumption
  <2>2. Models # {}
    BY SettingsAssumption
  <2>. QED BY <2>1, <2>2
<1>3. config \in ConfigRec /\ ConfigFits(config, {})
  BY <1>1, <1>2 DEF ConfigRec, Modes, ConfigFits
<1>4. disk = [config |-> config, chats |-> [id \in Chats |-> None]]
  BY DEF Init
<1>5. disk \in DiskRec /\ disk.config = config /\ \A id \in Chats : disk.chats[id] = None
  BY <1>3, <1>4 DEF DiskRec, MaybePrefs
<1>6. chat = [id |-> None, prefs |-> None] /\ chat \in ChatRec /\ chat.id = None
  BY DEF Init, ChatRec, MaybePrefs
<1>7. /\ ghost \in GhostRec /\ ghost.unchecked = {} /\ ~ghost.broken /\ ghost.failures = 0
      /\ \A id \in Chats : ghost.used[id] = None
  BY DEF Init, GhostRec, MaybePrefs
<1>8. images \in ImagesRec /\ phase = "off" /\ info = Unknown /\ asked = None
  BY DEF Init, ImagesRec
<1>9. ITypes /\ IInfo
  BY <1>3, <1>5, <1>6, <1>7, <1>8 DEF ITypes, IInfo, Phases
<1>10. IFits
  BY <1>3, <1>5, <1>7 DEF IFits, PrefsFit
<1>11. IKept
  BY <1>6, <1>7, <1>8, SettingsAssumption DEF IKept
<1>. QED BY <1>8, <1>9, <1>10, <1>11
         DEF ISettings, AllowAllOnlyByYes, ImagesOnlyToModelsThatTakeThem

LEMMA StartKeeps ==
    ASSUME ISettings, NEW id \in Chats, NEW m \in Models \cup {None}, NEW o \in Modes \cup {None},
           Start(id, m, o)
    PROVE  ISettings'
<1>. DEFINE e == [disk.config EXCEPT !.model = IF m = None THEN @ ELSE m]
            stored == [e EXCEPT !.mode = IF o = None THEN @ ELSE o]
            c == IF m = None THEN Take(stored, disk.chats[id]) ELSE stored
            g == Using(Command(ghost), id, c)
<1>1. /\ disk.config \in ConfigRec /\ disk.chats[id] \in MaybePrefs /\ ghost \in GhostRec
      /\ disk \in DiskRec
  BY DEF ISettings, ITypes, DiskRec
<1>2. stored = [disk.config EXCEPT !.model = IF m = None THEN @ ELSE m,
                                   !.mode = IF o = None THEN @ ELSE o]
  BY <1>1 DEF ConfigRec
<1>3. /\ phase = "off" /\ config' = c /\ chat' = Set(id, c) /\ mode' = c.mode
      /\ info' = Unknown /\ asked' = None /\ images' = [pending |-> {}, submitted |-> {}]
      /\ phase' = "choose" /\ disk' = disk
      /\ ghost' = [g EXCEPT !.agreed = FALSE, !.broken = FALSE]
  BY <1>2 DEF Start
<1>4. e \in ConfigRec /\ e.thinking = disk.config.thinking
  <2>1. CASE m = None
    <3>1. e = disk.config
      BY <1>1, <2>1 DEF ConfigRec
    <3>. QED BY <1>1, <3>1
  <2>2. CASE m \in Models
    <3>1. e = [disk.config EXCEPT !.model = m]
      BY <2>2, SettingsAssumption
    <3>. HIDE DEF e
    <3>. QED BY <1>1, <2>2, <3>1, ConfigWith
  <2>. QED BY <2>1, <2>2
<1>. HIDE DEF e
<1>5. stored \in ConfigRec /\ stored.thinking = disk.config.thinking
  <2>1. CASE o = None
    <3>1. stored = e
      BY <1>4, <2>1 DEF ConfigRec
    <3>. QED BY <1>4, <3>1
  <2>2. CASE o \in Modes /\ o # None
    <3>1. stored = [e EXCEPT !.mode = o]
      BY <2>2
    <3>. HIDE DEF stored
    <3>. QED BY <1>4, <2>2, <3>1, ConfigWith
  <2>. QED BY <2>1, <2>2
<1>. HIDE DEF stored
<1>6. c \in ConfigRec /\ (ghost.failures = 0 => ConfigFits(c, ghost.unchecked))
  <2>1. ghost.failures = 0 => ConfigFits(stored, ghost.unchecked)
    BY <1>5 DEF ISettings, IFits, ConfigFits
  <2>2. ghost.failures = 0 => PrefsFit(disk.chats[id], ghost.unchecked)
    BY DEF ISettings, IFits
  <2>. QED BY <1>1, <1>5, <2>1, <2>2, TakeIs
<1>. HIDE DEF c
<1>7. /\ g \in GhostRec /\ g.used = [ghost.used EXCEPT ![id] = PrefsOf(c)]
      /\ g.unchecked = ghost.unchecked /\ g.failures = ghost.failures
  BY <1>1, <1>6, CommandIs, UsingIs DEF SameHistory
<1>. HIDE DEF g
<1>8. ghost' \in GhostRec /\ ghost'.broken = FALSE
  BY <1>3, <1>7 DEF GhostRec
<1>9. /\ ghost'.used = [ghost.used EXCEPT ![id] = PrefsOf(c)]
      /\ ghost'.unchecked = ghost.unchecked /\ ghost'.failures = ghost.failures
  BY <1>3, <1>7 DEF GhostRec
<1>10. chat' \in ChatRec /\ chat'.id \in Chats
  BY <1>3, <1>6, SetIs
<1>11. ITypes'
  BY <1>1, <1>3, <1>6, <1>8, <1>10 DEF ITypes, ImagesRec, Phases
<1>12. ghost.failures = 0 =>
         \A k \in Chats \ {id} : ghost.used[k] # None => disk.chats[k] = ghost.used[k]
  BY <1>3 DEF ISettings, IKept
<1>13. IFits' /\ IKept'
  BY <1>3, <1>6, <1>9, <1>11, <1>12, SettingsEnter
<1>. QED BY <1>3, <1>8, <1>11, <1>13
         DEF ISettings, IInfo, AllowAllOnlyByYes, ImagesOnlyToModelsThatTakeThem

LEMMA StayKeeps == ISettings /\ StayInChat => ISettings'
<1>. SUFFICES ASSUME ISettings, StayInChat PROVE ISettings'
  OBVIOUS
<1>1. /\ phase = "choose" /\ asked' = config.model
      /\ phase' = IF mode = "allow-all" THEN "confirm" ELSE "input"
      /\ UNCHANGED <<config, disk, chat, info, mode, images, ghost>>
  BY DEF StayInChat, AsksModel
<1>2. IFits' /\ IKept'
  BY <1>1, SettingsStay
<1>3. ITypes'
  BY <1>1 DEF ISettings, ITypes, Phases, ConfigRec
<1>. QED BY <1>1, <1>2, <1>3
         DEF ISettings, IInfo, AllowAllOnlyByYes, ImagesOnlyToModelsThatTakeThem

LEMMA KeepAllowAllKeeps == ASSUME ISettings, NEW yes \in BOOLEAN, KeepAllowAll(yes) PROVE ISettings'
<1>1. /\ phase = "confirm" /\ phase' = "input" /\ mode' = IF yes THEN mode ELSE "ask"
      /\ UNCHANGED <<config, disk, chat, info, asked, images>>
      /\ ghost' = [ghost EXCEPT !.agreed = yes] /\ ghost \in GhostRec
  BY DEF KeepAllowAll, ISettings, ITypes
<1>2. ghost' \in GhostRec /\ ghost'.agreed = yes
  BY <1>1 DEF GhostRec
<1>3. /\ ghost'.used = ghost.used /\ ghost'.unchecked = ghost.unchecked
      /\ ghost'.failures = ghost.failures /\ ghost'.broken = ghost.broken
  BY <1>1 DEF GhostRec
<1>4. IFits' /\ IKept'
  BY <1>1, <1>3, SettingsStay
<1>5. ITypes'
  BY <1>1, <1>2 DEF ISettings, ITypes, Phases
<1>. QED BY <1>1, <1>2, <1>3, <1>4, <1>5
         DEF ISettings, IInfo, AllowAllOnlyByYes, ImagesOnlyToModelsThatTakeThem

LEMMA StartupInfoKeeps ==
    ASSUME ISettings, NEW found \in Snapshot(asked), StartupInfoArrives(found)
    PROVE  ISettings'
<1>1. /\ asked # None /\ phase # "off" /\ asked' = None
      /\ info' = IF config.model = asked THEN found ELSE info
      /\ UNCHANGED <<config, disk, chat, mode, images, phase, ghost>>
  BY DEF StartupInfoArrives
<1>2. IFits' /\ IKept'
  BY <1>1, SettingsStay
<1>3. ITypes'
  BY <1>1 DEF ISettings, ITypes
<1>. QED BY <1>1, <1>2, <1>3
         DEF Snapshot, ISettings, IInfo, AllowAllOnlyByYes, ImagesOnlyToModelsThatTakeThem

LEMMA ExitKeeps == ISettings /\ Exit => ISettings'
<1>. SUFFICES ASSUME ISettings, Exit PROVE ISettings'
  OBVIOUS
<1>1. /\ phase = "input" /\ phase' = "off" /\ asked' = None /\ disk' = Save(disk, chat)
      /\ UNCHANGED <<config, chat, info, mode, images, ghost>>
  BY DEF Exit
<1>2. chat \in ChatRec /\ chat.id \in Chats /\ disk \in DiskRec
  BY <1>1 DEF ISettings, ITypes
<1>3. /\ disk' \in DiskRec /\ disk'.config = disk.config
      /\ disk'.chats = [disk.chats EXCEPT ![chat.id] = chat.prefs]
  BY <1>1, <1>2, SaveIs
<1>4. \A k \in Chats : disk'.chats[k] = IF k = chat.id THEN chat.prefs ELSE disk.chats[k]
  BY <1>2, <1>3 DEF DiskRec
<1>5. ITypes'
  BY <1>1, <1>3 DEF ISettings, ITypes, Phases
<1>6. IFits'
  <2>1. ghost.failures = 0 => PrefsFit(chat.prefs, ghost.unchecked)
    BY <1>1, PrefsOfFit DEF ISettings, ITypes, IFits, IKept
  <2>. QED BY <1>1, <1>3, <1>4, <2>1 DEF ISettings, IFits
<1>7. IKept'
  BY <1>1, <1>4 DEF ISettings, IKept
<1>. QED BY <1>1, <1>5, <1>6, <1>7
         DEF ISettings, IInfo, AllowAllOnlyByYes, ImagesOnlyToModelsThatTakeThem

-----------------------------------------------------------------------------
(* Models, thinking and approval modes *)

\* A command at the input line after which the settings c are in effect in the open chat, or
\* a write failed.
LEMMA CommandKeeps ==
    ASSUME ISettings, phase = "input", UNCHANGED <<asked, images, phase>>,
           (IFits' /\ IKept') \/ ghost'.broken,
           config' \in ConfigRec, disk' \in DiskRec, chat' \in ChatRec, chat'.id = chat.id,
           ghost' \in GhostRec, ghost'.broken \/ info' \in {Unknown, config'.model},
           ghost'.broken => ghost'.failures # 0, mode' = "allow-all" => ghost'.agreed
    PROVE  ISettings'
<1>1. ITypes'
  BY DEF ISettings, ITypes
<1>2. IFits' /\ IKept'
  BY DEF IFits, IKept
<1>. QED BY <1>1, <1>2 DEF ISettings, IInfo, AllowAllOnlyByYes, ImagesOnlyToModelsThatTakeThem

LEMMA ChangeModelKeeps ==
    ASSUME ISettings, NEW m \in Models, NEW lost, NEW found \in Snapshot(m),
           ChangeModel(m, lost, found), chat' \in {chat, Set(chat.id, [config EXCEPT !.model = m])},
           lost = {} => chat' = Set(chat.id, [config EXCEPT !.model = m])
    PROVE  ISettings'
<1>. DEFINE c == [config EXCEPT !.model = m]
            g == Using(Command(ghost), chat.id, c)
<1>1. /\ phase = "input" /\ config' = c /\ disk' = Write(disk, lost, chat', c)
      /\ info' = IF lost = {} THEN found ELSE info
      /\ ghost' = Noting(lost, g)
      /\ UNCHANGED <<asked, mode, images, phase>>
  BY DEF ChangeModel, MayCommand
<1>2. /\ chat.id \in Chats /\ chat \in ChatRec /\ config \in ConfigRec
      /\ ghost \in GhostRec /\ disk \in DiskRec
  BY <1>1 DEF ISettings, ITypes
<1>3. c \in ConfigRec /\ c.model = m /\ c.thinking = config.thinking
  BY <1>2, ConfigWith
<1>4. chat' \in {chat, Set(chat.id, c)} /\ (lost = {} => chat' = Set(chat.id, c))
  OBVIOUS
<1>. HIDE DEF c
<1>5. /\ Set(chat.id, c) \in ChatRec /\ Set(chat.id, c).id = chat.id
      /\ Set(chat.id, c).prefs = PrefsOf(c)
  BY <1>2, <1>3, SetIs
<1>6. chat' \in ChatRec /\ chat'.id = chat.id
  BY <1>2, <1>4, <1>5
<1>7. /\ g \in GhostRec /\ g.used = [ghost.used EXCEPT ![chat.id] = PrefsOf(c)]
      /\ g.unchecked = ghost.unchecked /\ g.failures = ghost.failures
      /\ g.broken = ghost.broken /\ g.agreed = ghost.agreed
  BY <1>2, <1>3, CommandIs, UsingIs DEF SameHistory
<1>. HIDE DEF g
<1>8. /\ ghost' \in GhostRec /\ ghost'.agreed = ghost.agreed
      /\ lost # {} => ghost'.broken /\ ghost'.failures # 0
      /\ lost = {} => ghost' = g
  BY <1>1, <1>7, NotingIs
<1>9. disk' \in DiskRec
  BY <1>1, <1>2, <1>3, <1>6, WriteIs
<1>10. lost = {} => IFits' /\ IKept'
  <2>. SUFFICES ASSUME lost = {} PROVE IFits' /\ IKept'
    OBVIOUS
  <2>1. disk'.config = c /\ disk'.chats = [disk.chats EXCEPT ![chat.id] = PrefsOf(c)]
    <3>. DEFINE s == Set(chat.id, c)
    <3>1. s \in ChatRec /\ s.id = chat.id /\ s.prefs = PrefsOf(c) /\ chat' = s
      BY <1>4, <1>5
    <3>. HIDE DEF s
    <3>. QED BY <1>1, <1>2, <1>3, <3>1, WriteIs, SMTT(20)
  <2>2. \A k \in Chats : disk'.chats[k] = IF k = chat.id THEN PrefsOf(c) ELSE disk.chats[k]
    BY <1>2, <2>1 DEF DiskRec
  <2>3. /\ ghost'.used = [ghost.used EXCEPT ![chat.id] = PrefsOf(c)]
        /\ ghost'.unchecked = ghost.unchecked /\ ghost'.failures = ghost.failures
    BY <1>7, <1>8
  <2>4. ghost.failures = 0 => ConfigFits(c, ghost.unchecked)
    BY <1>3 DEF ISettings, IFits, ConfigFits
  <2>5. ghost.failures = 0 =>
          \A k \in Chats \ {chat.id} : ghost.used[k] # None => disk.chats[k] = ghost.used[k]
    BY DEF ISettings, IKept
  <2>. QED BY <1>1, <1>2, <1>3, <1>4, <2>1, <2>2, <2>3, <2>4, <2>5, SettingsEnter
<1>11. lost = {} => ghost'.broken = ghost.broken /\ info' \in {Unknown, config'.model}
  BY <1>1, <1>3, <1>7, <1>8 DEF Snapshot
<1>12. ghost'.broken => ghost'.failures # 0
  BY <1>7, <1>8 DEF ISettings, IInfo
<1>13. mode' = "allow-all" => ghost'.agreed
  BY <1>1, <1>8 DEF ISettings, AllowAllOnlyByYes
<1>. QED BY <1>1, <1>3, <1>6, <1>8, <1>9, <1>10, <1>11, <1>12, <1>13, CommandKeeps

LEMMA PickModelKeeps == ASSUME ISettings, NEW m \in Models, PickModel(m) PROVE ISettings'
<1>1. PICK lost \in ConfigFirst :
        /\ chat' = IF "config" \in lost THEN chat ELSE Set(chat.id, [config EXCEPT !.model = m])
        /\ ChangeModel(m, lost, m)
  BY DEF PickModel
<1>2. m \in Snapshot(m)
  BY DEF Snapshot
<1>. QED BY <1>1, <1>2, ChangeModelKeeps

LEMMA ModelCommandKeeps == ASSUME ISettings, NEW m \in Models, ModelCommand(m) PROVE ISettings'
<1>1. PICK lost \in Losses, found \in Snapshot(m) :
        chat' = Set(chat.id, [config EXCEPT !.model = m]) /\ ChangeModel(m, lost, found)
  BY DEF ModelCommand
<1>. QED BY <1>1, ChangeModelKeeps

\* A history in which one more model may have a thinking nobody checked.
LEMMA UncheckedIs ==
    ASSUME NEW g \in GhostRec, NEW w \in SUBSET Models
    PROVE  /\ [g EXCEPT !.unchecked = w] \in GhostRec /\ [g EXCEPT !.unchecked = w].unchecked = w
           /\ [g EXCEPT !.unchecked = w].used = g.used
           /\ [g EXCEPT !.unchecked = w].agreed = g.agreed
           /\ [g EXCEPT !.unchecked = w].broken = g.broken
           /\ [g EXCEPT !.unchecked = w].failures = g.failures
<1>1. [g EXCEPT !.unchecked = w] \in GhostRec
  BY DEF GhostRec
<1>2. /\ [g EXCEPT !.unchecked = w].unchecked = w
      /\ [g EXCEPT !.unchecked = w].used = g.used
      /\ [g EXCEPT !.unchecked = w].agreed = g.agreed
  BY DEF GhostRec
<1>3. /\ [g EXCEPT !.unchecked = w].broken = g.broken
      /\ [g EXCEPT !.unchecked = w].failures = g.failures
  BY DEF GhostRec
<1>. QED BY <1>1, <1>2, <1>3

\* The thinking is checked against metadata of the model in use, which may be missing.
LEMMA SetThinkingKeeps ==
    ASSUME ISettings, phase = "input", NEW t \in Thinkings, NEW metadata, NEW lost,
           SetThinking(t, metadata, lost), ghost.broken \/ metadata \in {Unknown, config.model},
           info' \in {info, metadata}
    PROVE  ISettings'
<1>. DEFINE c == [config EXCEPT !.thinking[config.model] = t]
            s == Set(chat.id, c)
            g == Using(Command(ghost), chat.id, c)
            n == Noting(lost, g)
            w == IF metadata = Unknown THEN ghost.unchecked \cup {config.model} ELSE ghost.unchecked
<1>1. /\ t \in IF metadata = Unknown THEN Thinkings ELSE Allows[metadata]
      /\ config' = c /\ chat' = s /\ disk' = Write(disk, lost, s, c)
      /\ ghost' = [n EXCEPT !.unchecked = IF metadata = Unknown THEN @ \cup {c.model} ELSE @]
      /\ UNCHANGED <<asked, mode, images, phase>>
  BY DEF SetThinking
<1>2. /\ chat.id \in Chats /\ chat \in ChatRec /\ config \in ConfigRec
      /\ ghost \in GhostRec /\ disk \in DiskRec
  BY DEF ISettings, ITypes
<1>3. config.model \in Models
  BY <1>2 DEF ConfigRec
<1>4. /\ c \in ConfigRec /\ c.model = config.model
      /\ c.thinking = [config.thinking EXCEPT ![config.model] = t]
  BY <1>2, <1>3, ConfigWith
<1>5. /\ c.thinking[config.model] = t
      /\ \A m \in Models : m # config.model => c.thinking[m] = config.thinking[m]
  BY <1>2, <1>3, <1>4 DEF ConfigRec
<1>. HIDE DEF c
<1>6. s \in ChatRec /\ s.id = chat.id /\ s.prefs = PrefsOf(c) /\ s = Set(chat.id, c)
  BY <1>2, <1>4, SetIs
<1>. HIDE DEF s
<1>7. /\ g \in GhostRec /\ g.used = [ghost.used EXCEPT ![chat.id] = PrefsOf(c)]
      /\ g.unchecked = ghost.unchecked /\ g.failures = ghost.failures
      /\ g.broken = ghost.broken /\ g.agreed = ghost.agreed
  BY <1>2, <1>4, CommandIs, UsingIs DEF SameHistory
<1>. HIDE DEF g
<1>8. /\ n \in GhostRec /\ n.agreed = g.agreed /\ n.used = g.used /\ n.unchecked = g.unchecked
      /\ lost = {} => n = g
      /\ lost # {} => n.broken /\ n.failures # 0
  BY <1>7, NotingIs
<1>. HIDE DEF n
<1>9. w \in SUBSET Models /\ ghost.unchecked \subseteq w /\ ghost' = [n EXCEPT !.unchecked = w]
  <2>1. ghost.unchecked \in SUBSET Models
    BY <1>2 DEF GhostRec
  <2>2. w \in SUBSET Models /\ ghost.unchecked \subseteq w
    BY <1>3, <2>1
  <2>3. (IF metadata = Unknown THEN n.unchecked \cup {c.model} ELSE n.unchecked) = w
    BY <1>4, <1>7, <1>8
  <2>4. ghost' = [n EXCEPT !.unchecked = IF metadata = Unknown THEN n.unchecked \cup {c.model}
                                         ELSE n.unchecked]
    BY <1>1, <1>8 DEF GhostRec
  <2>. QED BY <2>2, <2>3, <2>4
<1>10. /\ ghost' \in GhostRec /\ ghost'.unchecked = w /\ ghost'.used = n.used
       /\ ghost'.agreed = n.agreed /\ ghost'.broken = n.broken /\ ghost'.failures = n.failures
  BY <1>8, <1>9, UncheckedIs
<1>11. ghost.failures = 0 => ConfigFits(c, w)
  <2>1. SUFFICES ASSUME ghost.failures = 0, NEW m \in Models \ w PROVE c.thinking[m] \in Allows[m]
    BY DEF ConfigFits
  <2>2. ~ghost.broken
    BY <2>1 DEF ISettings, IInfo
  <2>3. CASE m = config.model
    <3>1. metadata # Unknown
      BY <2>1, <2>3
    <3>2. metadata = config.model
      BY <2>2, <3>1
    <3>. QED BY <1>1, <1>5, <2>3, <3>1, <3>2
  <2>4. CASE m # config.model
    BY <1>5, <1>9, <2>1, <2>4 DEF ISettings, IFits, ConfigFits
  <2>. QED BY <2>3, <2>4
<1>. HIDE DEF w
<1>12. disk' \in DiskRec
  BY <1>1, <1>2, <1>4, <1>6, WriteIs
<1>13. lost = {} => IFits' /\ IKept'
  <2>. SUFFICES ASSUME lost = {} PROVE IFits' /\ IKept'
    OBVIOUS
  <2>1. disk'.config = c /\ disk'.chats = [disk.chats EXCEPT ![chat.id] = PrefsOf(c)]
    BY <1>1, <1>2, <1>4, <1>6, WriteIs
  <2>2. \A k \in Chats : disk'.chats[k] = IF k = chat.id THEN PrefsOf(c) ELSE disk.chats[k]
    BY <1>2, <2>1 DEF DiskRec
  <2>3. /\ ghost'.used = [ghost.used EXCEPT ![chat.id] = PrefsOf(c)]
        /\ ghost.unchecked \subseteq ghost'.unchecked /\ ghost'.failures = ghost.failures
    BY <1>7, <1>8, <1>9, <1>10
  <2>4. ghost.failures = 0 => ConfigFits(c, ghost'.unchecked)
    BY <1>10, <1>11
  <2>5. ghost.failures = 0 =>
          \A k \in Chats \ {chat.id} : ghost.used[k] # None => disk.chats[k] = ghost.used[k]
    BY DEF ISettings, IKept
  <2>6. \A k \in Chats : disk'.chats[k] \in {disk.chats[k], PrefsOf(config), PrefsOf(c)}
    BY <2>2
  <2>7. ghost.failures = 0 =>
          \A k \in Chats \ {chat.id} : ghost.used[k] # None => disk'.chats[k] = ghost.used[k]
    BY <2>2, <2>5
  <2>8. phase' # "off" /\ config' = c /\ chat' = Set(chat.id, c)
    BY <1>1, <1>6
  <2>. QED BY <1>2, <1>4, <2>1, <2>3, <2>4, <2>6, <2>7, <2>8, SettingsEnter
<1>14. lost = {} => ghost'.broken = ghost.broken
  BY <1>7, <1>8, <1>10
<1>15. lost # {} => ghost'.broken /\ ghost'.failures # 0
  BY <1>8, <1>10
<1>16. ghost'.broken \/ info' \in {Unknown, config'.model}
  BY <1>1, <1>4, <1>14, <1>15 DEF ISettings, IInfo
<1>17. ghost'.broken => ghost'.failures # 0
  BY <1>7, <1>8, <1>10, <1>15 DEF ISettings, IInfo
<1>18. mode' = "allow-all" => ghost'.agreed
  BY <1>1, <1>7, <1>8, <1>10 DEF ISettings, AllowAllOnlyByYes
<1>. QED BY <1>1, <1>4, <1>6, <1>10, <1>12, <1>13, <1>15, <1>16, <1>17, <1>18, CommandKeeps

LEMMA PickThinkingKeeps == ASSUME ISettings, NEW t \in Thinkings, PickThinking(t) PROVE ISettings'
<1>1. PICK found \in IF info = Unknown THEN Snapshot(config.model) ELSE {info}, lost \in Losses :
        info' = found /\ SetThinking(t, found, lost)
  BY DEF PickThinking
<1>2. phase = "input"
  BY DEF PickThinking, MayCommand
<1>3. ghost.broken \/ found \in {Unknown, config.model}
  BY <1>1 DEF Snapshot, ISettings, IInfo
<1>. QED BY <1>1, <1>2, <1>3, SetThinkingKeeps

LEMMA ThinkCommandKeeps == ASSUME ISettings, NEW t \in Thinkings, ThinkCommand(t) PROVE ISettings'
<1>1. PICK found \in Snapshot(config.model), lost \in Losses :
        SetThinking(t, found, lost) /\ UNCHANGED info
  BY DEF ThinkCommand
<1>2. phase = "input"
  BY DEF ThinkCommand, MayCommand
<1>3. found \in {Unknown, config.model}
  BY <1>1 DEF Snapshot
<1>. QED BY <1>1, <1>2, <1>3, SetThinkingKeeps

LEMMA ChangeApprovalKeeps ==
    ASSUME ISettings, NEW m \in Modes, NEW yes \in BOOLEAN, ChangeApproval(m, yes)
    PROVE  ISettings'
<1>1. PICK lost \in {{}} \cup IF MayFail THEN {{"config"}} ELSE {} :
        /\ disk' = IF lost = {} THEN SaveConfig(disk, config') ELSE disk
        /\ ghost' = [Noting(lost, Command(ghost)) EXCEPT !.agreed = @ \/ m = "allow-all"]
  BY DEF ChangeApproval
<1>2. /\ phase = "input" /\ mode' = m /\ config' = [config EXCEPT !.mode = m]
      /\ UNCHANGED <<chat, info, asked, images, phase>>
  BY DEF ChangeApproval, MayCommand
<1>3. config \in ConfigRec /\ ghost \in GhostRec /\ disk \in DiskRec /\ chat \in ChatRec
  BY DEF ISettings, ITypes
<1>4. config' \in ConfigRec /\ config'.model = config.model /\ config'.thinking = config.thinking
  BY <1>2, <1>3, ConfigWith
<1>. DEFINE n == Noting(lost, Command(ghost))
            a == n.agreed \/ m = "allow-all"
<1>5. /\ n \in GhostRec /\ n.agreed = ghost.agreed /\ n.used = ghost.used
      /\ n.unchecked = ghost.unchecked
      /\ lost = {} => n.broken = ghost.broken /\ n.failures = ghost.failures
      /\ lost # {} => n.broken /\ n.failures # 0
  BY <1>3, CommandIs, NotingIs DEF SameHistory
<1>6. ghost' = [n EXCEPT !.agreed = a]
  BY <1>1, <1>5 DEF GhostRec
<1>. HIDE DEF n
<1>7. a \in BOOLEAN
  OBVIOUS
<1>8. a = (ghost.agreed \/ m = "allow-all")
  BY <1>5, Zenon
<1>. HIDE DEF a
<1>9. ghost' \in GhostRec
  BY <1>5, <1>6, <1>7 DEF GhostRec
<1>10. /\ ghost'.used = n.used /\ ghost'.unchecked = n.unchecked
       /\ ghost'.broken = n.broken /\ ghost'.failures = n.failures
  BY <1>5, <1>6 DEF GhostRec
<1>11. ghost'.agreed = a
  BY <1>5, <1>6 DEF GhostRec
<1>12. /\ disk' \in DiskRec /\ disk'.config \in {disk.config, config'}
       /\ disk'.chats = disk.chats
  BY <1>1, <1>3, <1>4 DEF SaveConfig, DiskRec
<1>13. lost = {} => IFits' /\ IKept'
  <2>1. PrefsOf(config') = PrefsOf(config)
    BY <1>4 DEF PrefsOf
  <2>2. \A u : ConfigFits(config, u) => ConfigFits(config', u)
    BY <1>4 DEF ConfigFits
  <2>3. lost = {} => IFits'
    BY <1>5, <1>10, <1>12, <2>2 DEF ISettings, IFits
  <2>4. lost = {} => IKept'
    BY <1>2, <1>5, <1>10, <1>12, <2>1 DEF ISettings, IKept
  <2>. QED BY <2>3, <2>4
<1>14. ghost'.broken \/ info' \in {Unknown, config'.model}
  BY <1>2, <1>4, <1>5, <1>10 DEF ISettings, IInfo
<1>15. ghost'.broken => ghost'.failures # 0
  BY <1>5, <1>10 DEF ISettings, IInfo
<1>16. mode' = "allow-all" => ghost'.agreed
  BY <1>2, <1>8, <1>11
<1>17. lost # {} => ghost'.broken
  BY <1>5, <1>10
<1>. QED BY <1>2, <1>3, <1>4, <1>9, <1>12, <1>13, <1>14, <1>15, <1>16, <1>17, CommandKeeps

-----------------------------------------------------------------------------
(* Chats *)

\* The settings a chat of the files d brings with it come into effect, or a write failed.
LEMMA SwapKeeps ==
    ASSUME ISettings, phase # "off", NEW id \in Chats, NEW d \in DiskRec, NEW lost,
           NEW g \in GhostRec, SameHistory(ghost, g),
           d.config = disk.config,
           \A k \in Chats : d.chats[k] \in {disk.chats[k], PrefsOf(config)},
           ghost.failures = 0 =>
               \A k \in Chats \ {id} : ghost.used[k] # None => d.chats[k] = ghost.used[k],
           config' = Entered(d, id), chat' = Set(id, config'),
           disk' = Write(d, lost, Set(id, config'), config'),
           ghost' = Noting(lost, Using(g, id, config'))
    PROVE  /\ config' \in ConfigRec /\ disk' \in DiskRec /\ ghost' \in GhostRec
           /\ chat' \in ChatRec /\ chat'.id = id
           /\ ghost'.agreed = ghost.agreed /\ (ghost'.broken => ghost'.failures # 0)
           /\ lost = {} => ghost'.broken = ghost.broken
           /\ lost # {} => ghost'.broken
           /\ lost = {} /\ phase' # "off" => IFits' /\ IKept'
<1>. DEFINE c == Entered(d, id)
            s == Set(id, c)
            h == Using(g, id, c)
<1>1. c \in ConfigRec /\ (ghost.failures = 0 /\ PrefsFit(d.chats[id], ghost.unchecked)
                            => ConfigFits(c, ghost.unchecked))
  BY EnteredIs
<1>2. config' = c /\ chat' = s /\ disk' = Write(d, lost, s, c) /\ ghost' = Noting(lost, h)
  OBVIOUS
<1>. HIDE DEF c
<1>3. s \in ChatRec /\ s.id = id /\ s.prefs = PrefsOf(c) /\ s = Set(id, c)
  BY <1>1, SetIs
<1>. HIDE DEF s
<1>4. /\ h \in GhostRec /\ h.used = [g.used EXCEPT ![id] = PrefsOf(c)]
      /\ h.agreed = g.agreed /\ h.unchecked = g.unchecked
      /\ h.broken = g.broken /\ h.failures = g.failures
  BY <1>1, UsingIs
<1>5. /\ h.used = [ghost.used EXCEPT ![id] = PrefsOf(c)]
      /\ h.agreed = ghost.agreed /\ h.unchecked = ghost.unchecked
      /\ h.broken = ghost.broken /\ h.failures = ghost.failures
  BY <1>4 DEF SameHistory
<1>. HIDE DEF h
<1>6. /\ ghost' \in GhostRec /\ ghost'.agreed = ghost.agreed
      /\ lost = {} => ghost' = h
      /\ lost # {} => ghost'.broken /\ ghost'.failures # 0
  BY <1>2, <1>4, <1>5, NotingIs
<1>7. disk' \in DiskRec
  <2>1. Write(d, lost, s, c) \in DiskRec
    BY <1>1, <1>3, WriteIs
  <2>. QED BY <1>2, <2>1
<1>8. ghost'.broken => ghost'.failures # 0
  BY <1>5, <1>6 DEF ISettings, IInfo
<1>9. lost = {} => ghost'.broken = ghost.broken
  BY <1>5, <1>6
<1>10. ASSUME lost = {}, phase' # "off" PROVE IFits' /\ IKept'
  <2>1. disk'.config = c /\ disk'.chats = [d.chats EXCEPT ![id] = PrefsOf(c)]
    BY <1>1, <1>2, <1>3, <1>10, WriteIs
  <2>2. \A k \in Chats : disk'.chats[k] = IF k = id THEN PrefsOf(c) ELSE d.chats[k]
    BY <2>1 DEF DiskRec
  <2>3. ghost.failures = 0 => ConfigFits(c, ghost.unchecked)
    <3>1. ghost.failures = 0 => /\ PrefsFit(disk.chats[id], ghost.unchecked)
                                /\ ConfigFits(config, ghost.unchecked)
      BY DEF ISettings, IFits
    <3>2. ghost.failures = 0 => PrefsFit(PrefsOf(config), ghost.unchecked)
      BY <3>1, PrefsOfFit DEF ISettings, ITypes
    <3>. QED BY <1>1, <3>1, <3>2
  <2>4. /\ ghost'.used = [ghost.used EXCEPT ![id] = PrefsOf(c)]
        /\ ghost'.unchecked = ghost.unchecked /\ ghost'.failures = ghost.failures
    BY <1>5, <1>6, <1>10
  <2>5. \A k \in Chats : disk'.chats[k] \in {disk.chats[k], PrefsOf(config), PrefsOf(c)}
    BY <2>2
  <2>6. ghost.failures = 0 =>
          \A k \in Chats \ {id} : ghost.used[k] # None => disk'.chats[k] = ghost.used[k]
    BY <2>2
  <2>7. phase' # "off" /\ config' = c /\ chat' = Set(id, c)
    BY <1>2, <1>3, <1>10
  <2>. QED BY <1>1, <2>1, <2>3, <2>4, <2>5, <2>6, <2>7, SettingsEnter
<1>. QED BY <1>1, <1>2, <1>3, <1>6, <1>7, <1>8, <1>9, <1>10

\* The rest of the state after a swap at the input line.
LEMMA SwapAtInput ==
    ASSUME ISettings, NEW id \in Chats, NEW lost,
           phase = "input", UNCHANGED <<asked, mode, phase>>, images' \in ImagesRec,
           config' \in ConfigRec, disk' \in DiskRec, ghost' \in GhostRec,
           chat' \in ChatRec, chat'.id = id,
           ghost'.agreed = ghost.agreed, ghost'.broken => ghost'.failures # 0,
           lost # {} => ghost'.broken,
           lost = {} /\ phase' # "off" => IFits' /\ IKept',
           lost = {} => info' \in Snapshot(config'.model)
    PROVE  ISettings'
<1>1. ITypes'
  BY DEF ISettings, ITypes
<1>2. IFits' /\ IKept'
  <2>1. CASE lost = {}
    BY <2>1
  <2>2. CASE lost # {}
    BY <2>2 DEF IFits, IKept
  <2>. QED BY <2>1, <2>2
<1>3. ghost'.broken \/ info' \in {Unknown, config'.model}
  BY DEF Snapshot
<1>4. AllowAllOnlyByYes'
  BY DEF ISettings, AllowAllOnlyByYes
<1>. QED BY <1>1, <1>2, <1>3, <1>4 DEF ISettings, IInfo, ImagesOnlyToModelsThatTakeThem

LEMMA ChooseChatAtStartKeeps ==
    ASSUME ISettings, NEW id \in Chats, ChooseChatAtStart(id) PROVE ISettings'
<1>1. PICK lost \in ChatFirst :
        /\ Swap(ghost, id, lost)
        /\ IF lost = {} THEN AsksModel(config') ELSE phase' = "off" /\ asked' = None
  BY DEF ChooseChatAtStart
<1>2. phase = "choose" /\ UNCHANGED <<info, mode, images>>
  BY DEF ChooseChatAtStart
<1>3. /\ config' = Entered(Left, id) /\ chat' = Set(id, config')
      /\ disk' = Write(Left, lost, Set(id, config'), config')
      /\ ghost' = Noting(lost, Using(ghost, id, config'))
  BY <1>1 DEF Swap
<1>4. /\ Left \in DiskRec /\ Left.config = disk.config
      /\ \A k \in Chats : Left.chats[k] \in {disk.chats[k], PrefsOf(config)}
      /\ ghost.failures = 0 =>
             \A k \in Chats \ {id} : ghost.used[k] # None => Left.chats[k] = ghost.used[k]
  BY <1>2, LeftIs
<1>5. ghost \in GhostRec /\ SameHistory(ghost, ghost) /\ phase # "off"
  BY <1>2 DEF ISettings, ITypes, SameHistory
<1>6. /\ config' \in ConfigRec /\ disk' \in DiskRec /\ ghost' \in GhostRec
      /\ chat' \in ChatRec /\ chat'.id = id
      /\ ghost'.agreed = ghost.agreed /\ (ghost'.broken => ghost'.failures # 0)
      /\ lost = {} => ghost'.broken = ghost.broken
      /\ lost # {} => ghost'.broken
      /\ lost = {} /\ phase' # "off" => IFits' /\ IKept'
  BY <1>3, <1>4, <1>5, SwapKeeps
<1>7. /\ phase' = IF lost = {} THEN IF mode = "allow-all" THEN "confirm" ELSE "input" ELSE "off"
      /\ asked' = IF lost = {} THEN config'.model ELSE None
  BY <1>1 DEF AsksModel
<1>8. ITypes'
  <2>1. asked' \in Models \cup {None}
    BY <1>6, <1>7 DEF ConfigRec
  <2>. QED BY <1>2, <1>6, <1>7, <2>1 DEF ISettings, ITypes, Phases
<1>9. IFits' /\ IKept'
  <2>1. CASE lost = {}
    BY <1>6, <1>7, <2>1
  <2>2. CASE lost # {}
    BY <1>6, <2>2 DEF IFits, IKept
  <2>. QED BY <2>1, <2>2
<1>10. info' = Unknown
  BY <1>2 DEF ISettings, IInfo
<1>. QED BY <1>2, <1>6, <1>7, <1>8, <1>9, <1>10
         DEF ISettings, IInfo, AllowAllOnlyByYes, ImagesOnlyToModelsThatTakeThem

LEMMA PickChatKeeps == ASSUME ISettings, NEW id \in Chats, PickChat(id) PROVE ISettings'
<1>1. PICK lost \in ChatFirst :
        /\ Swap(Command(ghost), id, lost)
        /\ IF lost = {} THEN info' \in Snapshot(config'.model) ELSE UNCHANGED info
  BY DEF PickChat
<1>2. phase = "input" /\ UNCHANGED <<asked, mode, images, phase>>
  BY DEF PickChat, MayCommand
<1>3. /\ config' = Entered(Left, id) /\ chat' = Set(id, config')
      /\ disk' = Write(Left, lost, Set(id, config'), config')
      /\ ghost' = Noting(lost, Using(Command(ghost), id, config'))
  BY <1>1 DEF Swap
<1>4. /\ Left \in DiskRec /\ Left.config = disk.config
      /\ \A k \in Chats : Left.chats[k] \in {disk.chats[k], PrefsOf(config)}
      /\ ghost.failures = 0 =>
             \A k \in Chats \ {id} : ghost.used[k] # None => Left.chats[k] = ghost.used[k]
  BY <1>2, LeftIs
<1>5. Command(ghost) \in GhostRec /\ SameHistory(ghost, Command(ghost)) /\ phase # "off"
  BY <1>2, CommandIs DEF ISettings, ITypes
<1>6. /\ config' \in ConfigRec /\ disk' \in DiskRec /\ ghost' \in GhostRec
      /\ chat' \in ChatRec /\ chat'.id = id
      /\ ghost'.agreed = ghost.agreed /\ (ghost'.broken => ghost'.failures # 0)
      /\ lost # {} => ghost'.broken
      /\ lost = {} /\ phase' # "off" => IFits' /\ IKept'
  BY <1>3, <1>4, <1>5, SwapKeeps
<1>7. images' \in ImagesRec
  BY <1>2 DEF ISettings, ITypes
<1>. QED BY <1>1, <1>2, <1>6, <1>7, SwapAtInput

\* replaceSession, from files that hold every chat but the one it opens as it was left.
LEMMA ReplaceSessionKeeps ==
    ASSUME ISettings, phase = "input", NEW id \in Chats, NEW d \in DiskRec, ReplaceSession(d, id),
           d.config = disk.config,
           \A k \in Chats : d.chats[k] \in {disk.chats[k], PrefsOf(config)},
           ghost.failures = 0 =>
               \A k \in Chats \ {id} : ghost.used[k] # None => d.chats[k] = ghost.used[k]
    PROVE  ISettings'
<1>1. PICK lost \in Losses :
        /\ config' = Entered(d, id) /\ chat' = Set(id, config')
        /\ disk' = Write(d, lost, Set(id, config'), config')
        /\ ghost' = Noting(lost, Using(Command(ghost), id, config'))
        /\ IF lost = {} THEN /\ info' \in Snapshot(config'.model)
                             /\ images' = [images EXCEPT !.pending = {}]
                        ELSE UNCHANGED <<info, images>>
        /\ UNCHANGED <<asked, mode, phase>>
  BY DEF ReplaceSession
<1>2. Command(ghost) \in GhostRec /\ SameHistory(ghost, Command(ghost)) /\ phase # "off"
  BY CommandIs DEF ISettings, ITypes
<1>3. /\ config' \in ConfigRec /\ disk' \in DiskRec /\ ghost' \in GhostRec
      /\ chat' \in ChatRec /\ chat'.id = id
      /\ ghost'.agreed = ghost.agreed /\ (ghost'.broken => ghost'.failures # 0)
      /\ lost # {} => ghost'.broken
      /\ lost = {} /\ phase' # "off" => IFits' /\ IKept'
  BY <1>1, <1>2, SwapKeeps
<1>4. images' \in ImagesRec
  <2>1. images \in ImagesRec
    BY DEF ISettings, ITypes
  <2>. QED BY <1>1, <2>1 DEF ImagesRec
<1>. QED BY <1>1, <1>3, <1>4, SwapAtInput

LEMMA ChatOpenKeeps == ASSUME ISettings, NEW id \in Chats, ChatOpen(id) PROVE ISettings'
<1>1. phase = "input" /\ ReplaceSession(IF id = chat.id THEN disk ELSE Left, id)
  BY DEF ChatOpen, MayCommand
<1>2. CASE id = chat.id
  <2>1. ReplaceSession(disk, id)
    BY <1>1, <1>2
  <2>2. disk \in DiskRec
    BY DEF ISettings, ITypes
  <2>3. ghost.failures = 0 =>
          \A k \in Chats \ {id} : ghost.used[k] # None => disk.chats[k] = ghost.used[k]
    BY <1>2 DEF ISettings, IKept
  <2>. QED BY <1>1, <2>1, <2>2, <2>3, ReplaceSessionKeeps
<1>3. CASE id # chat.id
  <2>1. ReplaceSession(Left, id)
    BY <1>1, <1>3
  <2>. QED BY <1>1, <2>1, LeftIs, ReplaceSessionKeeps
<1>. QED BY <1>2, <1>3

LEMMA ChatNewKeeps == ASSUME ISettings, NEW id \in Chats, ChatNew(id) PROVE ISettings'
<1>1. phase = "input" /\ ReplaceSession(Left, id)
  BY DEF ChatNew, MayCommand
<1>. QED BY <1>1, LeftIs, ReplaceSessionKeeps

LEMMA ChatForkKeeps == ASSUME ISettings, NEW id \in Chats, ChatFork(id) PROVE ISettings'
<1>. DEFINE d == [Left EXCEPT !.chats[id] = PrefsOf(config)]
<1>1. phase = "input" /\ ReplaceSession(d, id)
  BY DEF ChatFork, MayCommand
<1>2. /\ Left \in DiskRec /\ Left.config = disk.config
      /\ \A k \in Chats : Left.chats[k] \in {disk.chats[k], PrefsOf(config)}
      /\ ghost.failures = 0 =>
             \A k \in Chats \ {id} : ghost.used[k] # None => Left.chats[k] = ghost.used[k]
  BY <1>1, LeftIs
<1>3. PrefsOf(config) \in MaybePrefs
  BY PrefsOfConfig DEF ISettings, ITypes, MaybePrefs
<1>4. /\ d \in DiskRec /\ d.config = Left.config
      /\ d.chats = [Left.chats EXCEPT ![id] = PrefsOf(config)]
  BY <1>2, <1>3 DEF DiskRec
<1>. HIDE DEF d
<1>5. \A k \in Chats : d.chats[k] = IF k = id THEN PrefsOf(config) ELSE Left.chats[k]
  BY <1>2, <1>4 DEF DiskRec
<1>6. d.config = disk.config /\ \A k \in Chats : d.chats[k] \in {disk.chats[k], PrefsOf(config)}
  BY <1>2, <1>4, <1>5
<1>7. ghost.failures = 0 =>
        \A k \in Chats \ {id} : ghost.used[k] # None => d.chats[k] = ghost.used[k]
  BY <1>2, <1>5
<1>. QED BY <1>1, <1>4, <1>6, <1>7, ReplaceSessionKeeps

LEMMA ChatDeleteKeeps == ASSUME ISettings, NEW id \in Chats, ChatDelete(id) PROVE ISettings'
<1>1. phase = "input"
  BY DEF ChatDelete, MayCommand
<1>2. CASE id = chat.id
  <2>1. PICK new \in Fresh : ReplaceSession(Left, new)
    BY <1>2 DEF ChatDelete
  <2>2. new \in Chats
    BY <2>1 DEF Fresh
  <2>. QED BY <1>1, <2>1, <2>2, LeftIs, ReplaceSessionKeeps
<1>3. CASE id # chat.id
  <2>. DEFINE g == Command(ghost)
              u == [g.used EXCEPT ![id] = None]
              chats == [disk.chats EXCEPT ![id] = None]
  <2>1. /\ disk' = [disk EXCEPT !.chats[id] = None]
        /\ ghost' = [g EXCEPT !.used[id] = None]
        /\ UNCHANGED <<config, chat, info, asked, mode, images, phase>>
    BY <1>3 DEF ChatDelete
  <2>2. disk \in DiskRec /\ ghost \in GhostRec
    BY DEF ISettings, ITypes
  <2>3. disk' \in DiskRec /\ disk'.config = disk.config /\ disk'.chats = chats
    BY <2>1, <2>2 DEF DiskRec, MaybePrefs
  <2>4. g \in GhostRec /\ SameHistory(ghost, g)
    BY <2>2, CommandIs
  <2>. HIDE DEF g
  <2>5. u \in [Chats -> MaybePrefs] /\ ghost' = [g EXCEPT !.used = u]
    BY <2>1, <2>4 DEF GhostRec, MaybePrefs
  <2>6. \A k \in Chats : u[k] = IF k = id THEN None ELSE ghost.used[k]
    BY <2>2, <2>4 DEF GhostRec, SameHistory
  <2>. HIDE DEF u
  <2>7. ghost' \in GhostRec
    BY <2>4, <2>5 DEF GhostRec
  <2>8. ghost'.used = u /\ ghost'.unchecked = g.unchecked /\ ghost'.failures = g.failures
    BY <2>4, <2>5 DEF GhostRec
  <2>9. ghost'.agreed = g.agreed /\ ghost'.broken = g.broken
    BY <2>4, <2>5 DEF GhostRec
  <2>10. ghost'.agreed = ghost.agreed /\ ghost'.broken = ghost.broken
    BY <2>4, <2>9 DEF SameHistory
  <2>11. ghost'.unchecked = ghost.unchecked /\ ghost'.failures = ghost.failures
    BY <2>4, <2>8 DEF SameHistory
  <2>12. \A k \in Chats : disk'.chats[k] = IF k = id THEN None ELSE disk.chats[k]
    BY <2>2, <2>3 DEF DiskRec
  <2>13. IFits'
    BY <2>1, <2>3, <2>11, <2>12 DEF ISettings, IFits, PrefsFit
  <2>14. IKept'
    <3>1. ghost.failures = 0 =>
            \A k \in Chats \ {chat.id} : ghost'.used[k] # None => disk'.chats[k] = ghost'.used[k]
      BY <2>6, <2>8, <2>12 DEF ISettings, IKept
    <3>2. ghost.failures = 0 /\ chat.id \in Chats => ghost'.used[chat.id] = chat.prefs
      BY <1>3, <2>6, <2>8 DEF ISettings, IKept
    <3>. QED BY <1>1, <2>1, <2>11, <3>1, <3>2 DEF ISettings, IKept
  <2>15. ITypes'
    BY <2>1, <2>3, <2>7 DEF ISettings, ITypes
  <2>. QED BY <1>1, <2>1, <2>10, <2>11, <2>13, <2>14, <2>15
           DEF ISettings, IInfo, AllowAllOnlyByYes, ImagesOnlyToModelsThatTakeThem
<1>. QED BY <1>2, <1>3

LEMMA LeavingFailsKeeps == ISettings /\ LeavingFails => ISettings'
<1>. SUFFICES ASSUME ISettings, LeavingFails PROVE ISettings'
  OBVIOUS
<1>1. /\ phase = "input" /\ chat' = Set(chat.id, config) /\ ghost' = Failing(Command(ghost))
      /\ UNCHANGED <<config, disk, info, asked, mode, images, phase>>
  BY DEF LeavingFails
<1>2. chat' \in ChatRec /\ chat'.id \in Chats
  BY <1>1, SetIs DEF ISettings, ITypes
<1>3. ghost \in GhostRec
  BY DEF ISettings, ITypes
<1>4. Command(ghost) \in GhostRec /\ SameHistory(ghost, Command(ghost))
  BY <1>3, CommandIs
<1>5. /\ ghost' \in GhostRec /\ ghost'.broken /\ ghost'.failures # 0 /\ ghost'.agreed = ghost.agreed
  BY <1>1, <1>4, FailingIs DEF SameHistory
<1>6. ITypes'
  BY <1>1, <1>2, <1>5 DEF ISettings, ITypes
<1>7. AllowAllOnlyByYes'
  BY <1>1, <1>5 DEF ISettings, AllowAllOnlyByYes
<1>. QED BY <1>1, <1>5, <1>6, <1>7, FailedStep

-----------------------------------------------------------------------------
(* Images and messages *)

\* A step of a running dashboard that touches none of the settings.
LEMMA NothingChanges ==
    ASSUME ISettings, phase \in {"input", "run"}, phase' = "input",
           UNCHANGED <<config, disk, chat, asked, mode>>,
           images' \in ImagesRec, ghost' \in GhostRec, SameHistory(ghost, ghost'),
           ghost.broken \/ info' \in {Unknown, config.model}
    PROVE  ISettings'
<1>1. /\ ghost'.agreed = ghost.agreed /\ ghost'.used = ghost.used
      /\ ghost'.unchecked = ghost.unchecked
      /\ ghost'.broken = ghost.broken /\ ghost'.failures = ghost.failures
  BY DEF SameHistory
<1>2. ITypes'
  BY DEF ISettings, ITypes, Phases
<1>3. IFits' /\ IKept'
  BY <1>1, SettingsStay
<1>4. IInfo'
  BY <1>1 DEF ISettings, IInfo
<1>. QED BY <1>1, <1>2, <1>3, <1>4
         DEF ISettings, AllowAllOnlyByYes, ImagesOnlyToModelsThatTakeThem

LEMMA AttachKeeps == ASSUME ISettings, NEW i \in Images, Attach(i) PROVE ISettings'
<1>1. /\ phase = "input" /\ images' = [images EXCEPT !.pending = @ \cup {i}]
      /\ ghost' = Command(ghost) /\ UNCHANGED <<config, disk, chat, info, asked, mode, phase>>
  BY DEF Attach, MayCommand
<1>2. images \in ImagesRec /\ ghost \in GhostRec
  BY DEF ISettings, ITypes
<1>3. images' \in ImagesRec
  BY <1>1, <1>2 DEF ImagesRec
<1>4. ghost.broken \/ info' \in {Unknown, config.model}
  BY <1>1 DEF ISettings, IInfo
<1>. QED BY <1>1, <1>2, <1>3, <1>4, CommandIs, NothingChanges

LEMMA ClearImagesKeeps == ISettings /\ ClearImages => ISettings'
<1>. SUFFICES ASSUME ISettings, ClearImages PROVE ISettings'
  OBVIOUS
<1>1. /\ phase = "input" /\ images' = [images EXCEPT !.pending = {}]
      /\ ghost' = Command(ghost) /\ UNCHANGED <<config, disk, chat, info, asked, mode, phase>>
  BY DEF ClearImages, MayCommand
<1>2. images \in ImagesRec /\ ghost \in GhostRec
  BY DEF ISettings, ITypes
<1>3. images' \in ImagesRec
  BY <1>1, <1>2 DEF ImagesRec
<1>4. ghost.broken \/ info' \in {Unknown, config.model}
  BY <1>1 DEF ISettings, IInfo
<1>. QED BY <1>1, <1>2, <1>3, <1>4, CommandIs, NothingChanges

LEMMA SubmitKeeps == ISettings /\ Submit => ISettings'
<1>. SUFFICES ASSUME ISettings, Submit PROVE ISettings'
  OBVIOUS
<1>1. PICK found \in
           IF images.pending # {} /\ info = Unknown THEN Snapshot(config.model) ELSE {info} :
        /\ info' = found
        /\ IF images.pending # {} /\ ~Takes(found)
           THEN /\ ghost' = Command(ghost)
                /\ UNCHANGED <<images, phase>>
           ELSE /\ phase' = "run"
                /\ images' = [pending |-> {}, submitted |-> images.pending]
                /\ ghost' = [Command(ghost) EXCEPT !.known = found # Unknown, !.sent = FALSE]
  BY DEF Submit
<1>2. phase = "input" /\ UNCHANGED <<config, disk, chat, asked, mode>>
  BY DEF Submit, MayCommand
<1>3. images \in ImagesRec /\ ghost \in GhostRec
  BY DEF ISettings, ITypes
<1>4. ghost.broken \/ info' \in {Unknown, config.model}
  BY <1>1 DEF Snapshot, ISettings, IInfo
<1>5. CASE images.pending # {} /\ ~Takes(found)
  BY <1>1, <1>2, <1>3, <1>4, <1>5, CommandIs, NothingChanges
<1>6. CASE ~(images.pending # {} /\ ~Takes(found))
  <2>. DEFINE g == Command(ghost)
              known == found # Unknown
  <2>1. /\ phase' = "run" /\ images' = [pending |-> {}, submitted |-> images.pending]
        /\ ghost' = [g EXCEPT !.known = known, !.sent = FALSE]
    BY <1>1, <1>6
  <2>2. g \in GhostRec /\ SameHistory(ghost, g) /\ known \in BOOLEAN
    BY <1>3, CommandIs
  <2>3. known <=> found # Unknown
    OBVIOUS
  <2>. HIDE DEF g, known
  <2>4. ghost' \in GhostRec
    BY <2>1, <2>2 DEF GhostRec
  <2>5. ghost'.used = g.used /\ ghost'.unchecked = g.unchecked /\ ghost'.failures = g.failures
    BY <2>1, <2>2 DEF GhostRec
  <2>6. ghost'.agreed = g.agreed /\ ghost'.broken = g.broken /\ ghost'.known = known
    BY <2>1, <2>2 DEF GhostRec
  <2>7. /\ ghost'.used = ghost.used /\ ghost'.unchecked = ghost.unchecked
        /\ ghost'.failures = ghost.failures /\ ghost'.agreed = ghost.agreed
        /\ ghost'.broken = ghost.broken
    BY <2>2, <2>5, <2>6 DEF SameHistory
  <2>8. images' \in ImagesRec /\ images'.submitted = images.pending
    BY <1>3, <2>1 DEF ImagesRec
  <2>9. IFits' /\ IKept'
    BY <1>2, <2>1, <2>7, SettingsStay
  <2>10. ITypes'
    BY <1>2, <2>1, <2>4, <2>8 DEF ISettings, ITypes, Phases
  <2>11. IInfo'
    BY <1>2, <1>4, <2>1, <2>7 DEF ISettings, IInfo
  <2>12. AllowAllOnlyByYes'
    BY <1>2, <2>1, <2>7 DEF ISettings, AllowAllOnlyByYes
  <2>13. ImagesOnlyToModelsThatTakeThem'
    <3>1. SUFFICES ASSUME images'.submitted # {}, ghost'.known, ~ghost'.broken
                   PROVE  config'.model \in TakesImages
      BY DEF ImagesOnlyToModelsThatTakeThem
    <3>2. found # Unknown
      BY <2>3, <2>6, <3>1
    <3>3. found = config.model
      BY <1>1, <1>4, <2>7, <3>1, <3>2
    <3>4. Takes(found)
      BY <1>6, <2>8, <3>1
    <3>. QED BY <1>2, <3>2, <3>3, <3>4 DEF Takes
  <2>. QED BY <2>9, <2>10, <2>11, <2>12, <2>13 DEF ISettings
<1>. QED BY <1>5, <1>6

LEMMA RunSucceedsKeeps == ISettings /\ RunSucceeds => ISettings'
<1>. SUFFICES ASSUME ISettings, RunSucceeds PROVE ISettings'
  OBVIOUS
<1>1. /\ phase = "run" /\ phase' = "input" /\ images' = [images EXCEPT !.submitted = {}]
      /\ ghost' = [ghost EXCEPT !.sent = TRUE]
      /\ UNCHANGED <<config, disk, chat, info, asked, mode>>
  BY DEF RunSucceeds
<1>2. images \in ImagesRec /\ ghost \in GhostRec
  BY DEF ISettings, ITypes
<1>3. images' \in ImagesRec
  BY <1>1, <1>2 DEF ImagesRec
<1>4. ghost' \in GhostRec
  BY <1>1, <1>2 DEF GhostRec
<1>5. SameHistory(ghost, ghost')
  BY <1>1, <1>2 DEF GhostRec, SameHistory
<1>6. ghost.broken \/ info' \in {Unknown, config.model}
  BY <1>1 DEF ISettings, IInfo
<1>. QED BY <1>1, <1>3, <1>4, <1>5, <1>6, NothingChanges

LEMMA RunFailsKeeps == ISettings /\ RunFails => ISettings'
<1>. SUFFICES ASSUME ISettings, RunFails PROVE ISettings'
  OBVIOUS
<1>1. /\ phase = "run" /\ phase' = "input"
      /\ images' = [pending |-> images.submitted \cup images.pending, submitted |-> {}]
      /\ UNCHANGED <<config, disk, chat, info, asked, mode, ghost>>
  BY DEF RunFails
<1>2. images \in ImagesRec /\ ghost \in GhostRec
  BY DEF ISettings, ITypes
<1>3. images' \in ImagesRec
  BY <1>1, <1>2 DEF ImagesRec
<1>4. SameHistory(ghost, ghost')
  BY <1>1 DEF SameHistory
<1>5. ghost.broken \/ info' \in {Unknown, config.model}
  BY <1>1 DEF ISettings, IInfo
<1>. QED BY <1>1, <1>2, <1>3, <1>4, <1>5, NothingChanges

-----------------------------------------------------------------------------
(* Settings: the theorems *)

LEMMA StutterKeeps == ISettings /\ UNCHANGED vars => ISettings'
<1>. SUFFICES ASSUME ISettings, UNCHANGED vars PROVE ISettings'
  OBVIOUS
<1>1. UNCHANGED <<config, disk, chat, info, asked, mode, images, phase, ghost>>
  BY DEF vars
<1>2. ITypes' /\ IInfo'
  BY <1>1 DEF ISettings, ITypes, IInfo
<1>3. IFits' /\ IKept'
  BY <1>1 DEF ISettings, IFits, IKept
<1>. QED BY <1>1, <1>2, <1>3 DEF ISettings, AllowAllOnlyByYes, ImagesOnlyToModelsThatTakeThem

LEMMA StepKeeps == ISettings /\ Next => ISettings'
BY StartKeeps, StayKeeps, KeepAllowAllKeeps, StartupInfoKeeps, ExitKeeps,
   PickModelKeeps, ModelCommandKeeps, PickThinkingKeeps, ThinkCommandKeeps, ChangeApprovalKeeps,
   ChooseChatAtStartKeeps, PickChatKeeps, ChatOpenKeeps, ChatNewKeeps, ChatForkKeeps,
   ChatDeleteKeeps, LeavingFailsKeeps, AttachKeeps, ClearImagesKeeps, SubmitKeeps,
   RunSucceedsKeeps, RunFailsKeeps
DEF Next

\* However models, thinking, approval modes, chats, restarts and writes that fail are mixed,
\* the dashboard keeps its parts in step.  (runDashboard, replaceSession)
THEOREM PartsStayInStep == Spec => []ISettings
<1>1. Init => ISettings
  BY InitSettings
<1>2. ISettings /\ [Next]_vars => ISettings'
  BY StepKeeps, StutterKeeps
<1>. QED BY <1>1, <1>2, PTL DEF Spec

\* Nothing runs under settings its model does not take or the user did not agree to: allow-all
\* only after a yes of this process, images only to models that take them, and no thinking the
\* model does not let through.  (runDashboard, approvalCommand, validateReasoningSetting)
THEOREM NothingRunsUnfit == Spec => []SettingsFit
<1>1. ISettings => SettingsFit
  BY DEF ISettings, IFits, ConfigFits, SettingsFit, ThinkingFitsModel
<1>. QED BY <1>1, PartsStayInStep, PTL

\* A chat that is opened again finds the model and the thinking that were last in effect in
\* it, unless a write failed.  (replaceSession, pickDashboardChat)
THEOREM ChatsAreKept == Spec => []ChatsKeepTheirSettings
<1>1. ISettings => ChatsKeepTheirSettings
  BY DEF ISettings, IKept, ChatsKeepTheirSettings
<1>. QED BY <1>1, PartsStayInStep, PTL

-----------------------------------------------------------------------------
(* The terminal: the invariant *)

UiModes == {"idle", "busy", "input", "confirm", "secret", "recording", "model-picker",
            "choice-picker"}
Promises == Questions \cup {"input"}
Ui == [mode : UiModes, pending : SUBSET Promises, asked : Nat, draft : Seq(Nat), queue : Seq(Seq(Nat)),
       pasting : BOOLEAN, paste : Seq(Nat), handler : BOOLEAN, cancelRequested : BOOLEAN,
       reason : BOOLEAN, replies : BOOLEAN, active : BOOLEAN]
Typed == [n : Nat, secret : SUBSET Nat, enters : Nat]
ITerminal ==
    /\ ui \in Ui /\ typed \in Typed /\ late \in Nat
    /\ prog \in {"loop", "reading", "command", "run", "suspended", "gone"}
    /\ got \in Seq(Seq(Nat)) /\ sent \in Seq(Seq(Nat))

\* What the program waits for, and that the mode is that of the one open promise.
IWaits ==
    late = 0 =>
        /\ prog \in {"loop", "suspended"} => ui.pending = {}
        /\ prog = "reading" => ui.pending = {"input"}
        /\ prog = "run" => ui.pending \subseteq {"confirm"}
        /\ prog = "command" => ui.pending = {} \/ \E q \in Questions : ui.pending = {q}
        /\ prog # "gone" => \A q \in ui.pending : ui.mode = ModeOf[q]

\* The line is taken for the one that waits, and nothing is queued then.
IReads ==
    /\ ui.active <=> prog \notin {"suspended", "gone"}
    /\ prog # "gone" /\ ui.mode = "input" => "input" \in ui.pending /\ ui.queue = <<>>

\* Every piece of text is in the line being typed, in the paste, or in one line that was sent.
Texts(u) == ToSet(u.draft) \cup ToSet(u.paste)
ILines ==
    /\ got \o ui.queue = sent
    /\ ~ui.pasting => ui.paste = <<>>
    /\ Texts(ui) \subseteq 1..typed.n /\ typed.secret \subseteq 1..typed.n
    /\ \A i \in DOMAIN sent :
          ToSet(sent[i]) \subseteq 0..typed.n /\ ToSet(sent[i]) \cap Texts(ui) = {}
    /\ \A i, j \in DOMAIN sent : (ToSet(sent[i]) \cap ToSet(sent[j])) \ {0} # {} => i = j

\* A secret is in the line only while it is asked for.
ISecret ==
    late = 0 =>
        /\ ui.mode = "secret" => "secret" \in ui.pending
        /\ "secret" \notin ui.pending => Texts(ui) \cap typed.secret = {}
        /\ \A i \in DOMAIN sent : ToSet(sent[i]) \cap typed.secret = {}

\* Every call that waits for its approval has the dialog, unless another one's question came.
ITools ==
    /\ opened \in Nat /\ tools \in [waiting : SUBSET (Nat \ {0}), overtaken : SUBSET Nat]
    /\ late = 0 /\ prog # "gone" =>
          /\ tools.waiting \ tools.overtaken \subseteq {ui.asked}
          /\ ui.asked # 0 => "confirm" \in ui.pending /\ ui.asked \in tools.waiting

IAll == ITerminal /\ IWaits /\ IReads /\ ILines /\ ISecret

-----------------------------------------------------------------------------
(* The terminal: sequences of texts *)

LEMMA NoText == ToSet(<<>>) = {}
BY DEF ToSet

LEMMA EmptyLine == <<>> \in Seq(Nat)
OBVIOUS

LEMMA TextAppended ==
    ASSUME NEW S, NEW s \in Seq(S), NEW x \in S
    PROVE  ToSet(Append(s, x)) = ToSet(s) \cup {x}
<1>1. DOMAIN Append(s, x) = 1..Len(s) + 1 /\ DOMAIN s = 1..Len(s) /\ Len(s) \in Nat
  OBVIOUS
<1>2. \A i \in 1..Len(s) + 1 : Append(s, x)[i] = IF i <= Len(s) THEN s[i] ELSE x
  OBVIOUS
<1>3. \A y \in ToSet(Append(s, x)) : y \in ToSet(s) \cup {x}
  BY <1>1, <1>2 DEF ToSet
<1>4. x \in ToSet(Append(s, x))
  <2>1. Append(s, x)[Len(s) + 1] = x /\ Len(s) + 1 \in DOMAIN Append(s, x)
    BY <1>1, <1>2
  <2> QED BY <2>1 DEF ToSet
<1>5. \A y \in ToSet(s) : y \in ToSet(Append(s, x))
  BY <1>1, <1>2 DEF ToSet
<1> QED BY <1>3, <1>4, <1>5

LEMMA TextJoined ==
    ASSUME NEW S, NEW s \in Seq(S), NEW t \in Seq(S)
    PROVE  ToSet(s \o t) \subseteq ToSet(s) \cup ToSet(t)
<1>1. /\ DOMAIN (s \o t) = 1..Len(s) + Len(t) /\ DOMAIN s = 1..Len(s) /\ DOMAIN t = 1..Len(t)
      /\ Len(s) \in Nat /\ Len(t) \in Nat
  OBVIOUS
<1>2. \A i \in 1..Len(s) + Len(t) : (s \o t)[i] = IF i <= Len(s) THEN s[i] ELSE t[i - Len(s)]
  OBVIOUS
<1> SUFFICES ASSUME NEW i \in 1..Len(s) + Len(t)
             PROVE  (s \o t)[i] \in ToSet(s) \cup ToSet(t)
  BY <1>1 DEF ToSet
<1>3. CASE i <= Len(s)
  BY <1>1, <1>2, <1>3 DEF ToSet
<1>4. CASE ~(i <= Len(s))
  <2>1. i - Len(s) \in 1..Len(t)
    BY <1>1, <1>4
  <2> QED BY <1>1, <1>2, <1>4, <2>1 DEF ToSet
<1> QED BY <1>3, <1>4

-----------------------------------------------------------------------------
(* What the operations of TerminalUi do to its fields *)

\* All but the mode and what the program is told of Ctrl+C.
SameText(u, v) == v.draft = u.draft /\ v.paste = u.paste /\ v.pasting = u.pasting
SameLine(u, v) ==
    /\ SameText(u, v) /\ v.queue = u.queue /\ v.pending = u.pending /\ v.active = u.active
    /\ v.asked = u.asked

LEMMA SetStatusDoes ==
    ASSUME NEW u \in Ui, NEW busy \in BOOLEAN
    PROVE  /\ SetStatus(u, busy) \in Ui /\ SameLine(u, SetStatus(u, busy))
           /\ \/ SetStatus(u, busy).mode = u.mode
              \/ busy /\ u.mode # "confirm" /\ SetStatus(u, busy).mode = "busy"
              \/ ~busy /\ u.mode = "busy" /\ SetStatus(u, busy).mode = "idle"
BY DEF SetStatus, EnterMode, Ui, UiModes, SameLine, SameText

LEMMA SetCancelHandlerDoes ==
    ASSUME NEW u \in Ui, NEW handler \in BOOLEAN
    PROVE  /\ SetCancelHandler(u, handler) \in Ui /\ SameLine(u, SetCancelHandler(u, handler))
           /\ SetCancelHandler(u, handler).mode = u.mode
BY DEF SetCancelHandler, Ui, SameLine, SameText

LEMMA BeginAssistantDoes ==
    ASSUME NEW u \in Ui
    PROVE  /\ BeginAssistant(u) \in Ui /\ SameLine(u, BeginAssistant(u))
           /\ BeginAssistant(u).mode = "busy"
BY DEF BeginAssistant, Ui, UiModes, SameLine, SameText

LEMMA FinishAssistantDoes ==
    ASSUME NEW u \in Ui, NEW r \in BOOLEAN
    PROVE  /\ FinishAssistant(u) \in Ui /\ SameLine(u, FinishAssistant(u))
           /\ FinishAssistant(u).mode = "idle"
           /\ [FinishAssistant(u) EXCEPT !.replies = r] \in Ui
           /\ SameLine(u, [FinishAssistant(u) EXCEPT !.replies = r])
           /\ [FinishAssistant(u) EXCEPT !.replies = r].mode = "idle"
BY DEF FinishAssistant, EnterMode, Ui, UiModes, SameLine, SameText

LEMMA RequestCancelDoes ==
    ASSUME NEW u \in Ui
    PROVE  /\ RequestCancel(u) \in Ui /\ SameLine(u, RequestCancel(u))
           /\ \/ RequestCancel(u).mode = u.mode
              \/ u.mode = "busy" /\ RequestCancel(u).mode = "idle"
<1>1. CASE u.handler
  <2>1. RequestCancel(u) = [u EXCEPT !.handler = FALSE, !.cancelRequested = TRUE]
    BY <1>1 DEF RequestCancel
  <2> QED BY <2>1 DEF Ui, SameLine, SameText
<1>2. CASE ~u.handler
  <2>1. RequestCancel(u) = SetStatus(u, FALSE)
    BY <1>2 DEF RequestCancel
  <2>2. /\ SetStatus(u, FALSE) \in Ui /\ SameLine(u, SetStatus(u, FALSE))
        /\ \/ SetStatus(u, FALSE).mode = u.mode
           \/ u.mode = "busy" /\ SetStatus(u, FALSE).mode = "idle"
    BY SetStatusDoes
  <2> QED BY <2>1, <2>2
<1> QED BY <1>1, <1>2

LEMMA AskDoes ==
    ASSUME NEW u \in Ui, NEW q \in Questions
    PROVE  LET v == Ask(u, q)
           IN  /\ v \in Ui
               /\ v.draft \in {u.draft, <<>>} /\ (q = "secret" => v.draft = <<>>)
               /\ v.paste = u.paste /\ v.pasting = u.pasting /\ v.queue = u.queue
               /\ v.active = u.active
               /\ v.mode = ModeOf[q] /\ v.pending = u.pending \cup {q} /\ v.asked = u.asked
<1>1. ModeOf[q] \in UiModes /\ q \in Promises
  BY DEF Questions, ModeOf, UiModes, Promises
<1>2. CASE q \in {"model", "choice", "secret"}
  <2>1. Ask(u, q) = [u EXCEPT !.mode = ModeOf[q], !.pending = u.pending \cup {q}, !.draft = <<>>]
    BY <1>2 DEF Ask
  <2> QED BY <1>1, <2>1, EmptyLine, ZenonT(40) DEF Ui
<1>3. CASE q \notin {"model", "choice", "secret"}
  <2>1. Ask(u, q) = [u EXCEPT !.mode = ModeOf[q], !.pending = u.pending \cup {q},
                              !.draft = u.draft]
    BY <1>3 DEF Ask
  <2> DEFINE v == [u EXCEPT !.mode = ModeOf[q], !.pending = u.pending \cup {q}]
  <2>a. v \in Ui /\ v.draft = u.draft
    BY <1>1 DEF Ui
  <2>b. Ask(u, q) = [v EXCEPT !.draft = u.draft]
    BY <2>1
  <2> HIDE DEF v
  <2>2. Ask(u, q) \in Ui
    BY <2>a, <2>b DEF Ui
  <2>3. /\ Ask(u, q).draft = u.draft /\ Ask(u, q).paste = u.paste
        /\ Ask(u, q).pasting = u.pasting /\ Ask(u, q).queue = u.queue
        /\ Ask(u, q).active = u.active /\ Ask(u, q).mode = ModeOf[q]
        /\ Ask(u, q).pending = u.pending \cup {q} /\ Ask(u, q).asked = u.asked
    BY <2>1 DEF Ui
  <2> QED BY <1>3, <2>2, <2>3
<1> QED BY <1>2, <1>3

LEMMA ConfirmActionDoes ==
    ASSUME NEW u \in Ui, NEW n \in Nat
    PROVE  LET v == ConfirmAction(u, n)
           IN  /\ v \in Ui /\ v.draft = u.draft
               /\ v.paste = u.paste /\ v.pasting = u.pasting /\ v.queue = u.queue
               /\ v.active = u.active
               /\ v.mode = "confirm" /\ v.pending = u.pending \cup {"confirm"} /\ v.asked = n
<1> DEFINE a == [u EXCEPT !.mode = "confirm", !.pending = u.pending \cup {"confirm"},
                         !.draft = u.draft]
<1>1. Ask(u, "confirm") = a
  BY DEF Ask, ModeOf
<1>2. /\ a \in Ui /\ a.draft = u.draft
      /\ a.paste = u.paste /\ a.pasting = u.pasting /\ a.queue = u.queue
      /\ a.active = u.active /\ a.mode = "confirm" /\ a.pending = u.pending \cup {"confirm"}
  <2>1. "confirm" \in UiModes /\ "confirm" \in Promises
    BY DEF UiModes, Promises, Questions
  <2> QED BY <2>1, ZenonT(60) DEF Ui
<1> HIDE DEF a
<1>3. ConfirmAction(u, n) = [a EXCEPT !.asked = n]
  BY <1>1 DEF ConfirmAction
<1> QED BY <1>2, <1>3 DEF Ui

\* An answer settles its promise, empties the line (but a recording has none) and is busy.
Resolved(u, v, ps) ==
    /\ v \in Ui
    /\ v.draft \in {u.draft, <<>>} /\ ("secret" \in ps => v.draft = <<>>)
    /\ v.paste = u.paste /\ v.pasting = u.pasting /\ v.queue = u.queue
    /\ v.active = u.active
    /\ v.mode = "busy" /\ v.pending = u.pending \ ps
    /\ v.asked = IF "confirm" \in ps THEN 0 ELSE u.asked

LEMMA ResolvesDo ==
    ASSUME NEW u \in Ui
    PROVE  /\ Resolved(u, ResolveSelection(u), {"model", "choice"})
           /\ Resolved(u, ResolveSecret(u), {"secret"})
           /\ Resolved(u, ResolveRecording(u), {"recording"})
           /\ Resolved(u, ResolveConfirm(u), {"confirm"})
<1> USE EmptyLine DEF Resolved, Ui, UiModes
<1>1. Resolved(u, ResolveSelection(u), {"model", "choice"})
  BY DEF ResolveSelection
<1>2. Resolved(u, ResolveSecret(u), {"secret"})
  BY DEF ResolveSecret
<1>3. Resolved(u, ResolveRecording(u), {"recording"})
  BY DEF ResolveRecording
<1>4. Resolved(u, ResolveConfirm(u), {"confirm"})
  BY DEF ResolveConfirm
<1> QED BY <1>1, <1>2, <1>3, <1>4

LEMMA StopDoes ==
    ASSUME NEW u \in Ui
    PROVE  LET v == Stop(u)
           IN  /\ v \in Ui /\ v.draft = u.draft /\ v.paste = <<>> /\ v.queue = u.queue
               /\ v.mode = u.mode /\ v.pending = u.pending /\ v.active = FALSE
               /\ ~v.pasting
BY EmptyLine DEF Stop, Ui

LEMMA UnpastedDoes ==
    ASSUME NEW u \in Ui
    PROVE  LET v == Unpasted(u)
           IN  /\ v \in Ui /\ v.draft = u.draft /\ v.paste = <<>> /\ v.queue = u.queue
               /\ v.mode = u.mode /\ v.pending = u.pending /\ v.active = u.active
               /\ ~v.pasting
BY EmptyLine DEF Unpasted, Ui

\* Every question has a mode of its own, and none is served by being idle or busy.
LEMMA ModesDiffer ==
    /\ \A q \in Promises : ModeOf[q] \in UiModes \ {"idle", "busy"}
    /\ \A q, r \in Promises : ModeOf[q] = ModeOf[r] => q = r
    /\ ModeOf["input"] = "input" /\ ModeOf["secret"] = "secret" /\ ModeOf["confirm"] = "confirm"
    /\ ModeOf["recording"] = "recording" /\ ModeOf["model"] = "model-picker"
    /\ ModeOf["choice"] = "choice-picker"
BY DEF ModeOf, Promises, Questions, UiModes

-----------------------------------------------------------------------------
(* Steps that take text away or leave it *)

Quiet ==
    /\ ui' \in Ui /\ late' \in Nat /\ (late' = 0 => late = 0)
    /\ prog' \in {"loop", "reading", "command", "run", "suspended", "gone"}
    /\ ui'.draft \in {ui.draft, <<>>}
    /\ ui'.paste = <<>> \/ (ui'.paste = ui.paste /\ ui'.pasting = ui.pasting)
    /\ ui'.queue = ui.queue
    /\ UNCHANGED <<got, sent, typed>>

\* They begin no reading, and keep the promise of one.
KeepsReading ==
    /\ ui'.active <=> prog' \notin {"suspended", "gone"}
    /\ prog' # "gone" /\ ui'.mode = "input"
          => /\ prog # "gone" /\ ui.mode = "input"
             /\ "input" \in ui.pending => "input" \in ui'.pending

\* A secret that is answered leaves the line and the paste.
KeepsSecret ==
    late' = 0 =>
        /\ ui'.mode = "secret" => "secret" \in ui'.pending
        /\ "secret" \in ui.pending /\ "secret" \notin ui'.pending
              => ui'.draft = <<>> /\ ui'.paste = <<>>

QuietStep == Quiet /\ KeepsReading /\ KeepsSecret /\ IWaits'

\* They keep the order of the lines, and the secrets out of them.
LEMMA QuietKeeps == ASSUME IAll, QuietStep PROVE IAll'
<1>1. ToSet(ui'.draft) \subseteq ToSet(ui.draft) /\ ToSet(ui'.paste) \subseteq ToSet(ui.paste)
  BY NoText DEF QuietStep, Quiet
<1>2. Texts(ui') \subseteq Texts(ui)
  BY <1>1 DEF Texts
<1>3. ui'.draft = <<>> /\ ui'.paste = <<>> => Texts(ui') = {}
  BY NoText DEF Texts
<1>4. ILines'
  <2>1. ~ui'.pasting => ui'.paste = <<>>
    BY DEF IAll, QuietStep, Quiet, ILines
  <2> QED BY <1>2, <2>1 DEF IAll, ILines, QuietStep, Quiet
<1>5. ISecret'
  BY <1>2, <1>3 DEF IAll, ISecret, QuietStep, Quiet, KeepsSecret
<1>6. IReads'
  BY DEF IAll, IReads, QuietStep, Quiet, KeepsReading
<1>7. ITerminal'
  BY DEF IAll, ITerminal, QuietStep, Quiet
<1> QED BY <1>4, <1>5, <1>6, <1>7 DEF IAll, QuietStep

\* A status, or the end of a busy phase: the mode of an open promise stays.
LEMMA StatusStep ==
    ASSUME IAll, ui' \in Ui, SameText(ui, ui'), ui'.queue = ui.queue, ui'.pending = ui.pending,
           ui'.active = ui.active, UNCHANGED <<got, sent, typed, late>>,
           prog' = prog, prog # "gone",
           \/ ui'.mode = ui.mode
           \/ ui'.mode \in {"busy", "idle"} /\ (ui.mode = "busy" \/ ui.pending = {})
           \/ ui'.mode = "busy" /\ prog = "run" /\ ui.mode # "confirm"
    PROVE  QuietStep
<1>1. Quiet
  BY DEF IAll, ITerminal, Quiet, SameText
<1>2. KeepsReading
  BY DEF IAll, IReads, KeepsReading
<1>3. KeepsSecret
  BY DEF IAll, ISecret, KeepsSecret
<1>4. IWaits'
  <2>1. ui.pending \subseteq Promises
    BY DEF IAll, ITerminal, Ui
  <2> QED BY <2>1, ModesDiffer DEF IAll, IWaits
<1> QED BY <1>1, <1>2, <1>3, <1>4 DEF QuietStep

LEMMA ProgramStatus ==
    ASSUME IAll, Status \/ BeginRun \/ BeginRequest \/ EndRequest
    PROVE  QuietStep
<1> USE DEF OnlyUi, SameLine
<1>0. ui \in Ui
  BY DEF IAll, ITerminal
<1>1. CASE Status
  BY <1>0, <1>1, SetStatusDoes, StatusStep DEF Status, Working
<1>2. CASE BeginRun
  <2>1. /\ BeginAssistant(ui) \in Ui /\ SameLine(ui, BeginAssistant(ui))
        /\ BeginAssistant(ui).mode = "busy"
    BY <1>0, BeginAssistantDoes
  <2>2. ui' \in Ui /\ SameLine(BeginAssistant(ui), ui') /\ ui'.mode = "busy"
    BY <1>2, <2>1, SetCancelHandlerDoes DEF BeginRun
  <2> QED BY <1>2, <2>1, <2>2, StatusStep DEF BeginRun, SameText
<1>3. CASE BeginRequest
  <2>1. /\ SetStatus(ui, TRUE) \in Ui /\ SameLine(ui, SetStatus(ui, TRUE))
        /\ SetStatus(ui, TRUE).mode \in {ui.mode, "busy"}
    BY <1>0, SetStatusDoes
  <2>2. /\ ui' \in Ui /\ SameLine(SetStatus(ui, TRUE), ui')
        /\ ui'.mode = SetStatus(ui, TRUE).mode
    BY <1>3, <2>1, SetCancelHandlerDoes DEF BeginRequest
  <2> QED BY <1>3, <2>1, <2>2, StatusStep DEF BeginRequest, SameText
<1>4. CASE EndRequest
  BY <1>0, <1>4, SetCancelHandlerDoes, StatusStep DEF EndRequest
<1> QED BY <1>1, <1>2, <1>3, <1>4

LEMMA ProgramQuestion == ASSUME IAll, opened \in Nat, Question \/ Approval PROVE QuietStep
<1>0. /\ ui \in Ui /\ prog \in {"command", "run"} /\ prog' = prog /\ opened' = opened + 1
      /\ UNCHANGED <<got, sent, typed, late>> /\ late \in Nat
  BY DEF IAll, ITerminal, Question, Approval, Working, OnlyUi
<1>1. /\ "input" \in Promises /\ "secret" \in Promises /\ "confirm" \in Promises
      /\ "input" \notin Questions /\ Questions \subseteq Promises /\ "confirm" \in Questions
  BY DEF Questions, Promises
<1>2. \E q \in Questions :
         /\ ui' \in Ui
         /\ ui'.draft \in {ui.draft, <<>>}
         /\ ui'.paste = ui.paste /\ ui'.pasting = ui.pasting /\ ui'.queue = ui.queue
         /\ ui'.active = ui.active /\ ui'.mode = ModeOf[q] /\ ui'.pending = ui.pending \cup {q}
         /\ \/ ui.pending = {} /\ prog = "command"
            \/ q = "confirm" /\ prog = "run"
  <2>1. CASE Question
    <3>1. PICK q \in Questions : ui' = Ask(ui, q)
      BY <2>1 DEF Question
    <3>2. ui.pending = {} /\ prog = "command"
      BY <2>1 DEF Question
    <3> QED BY <1>0, <3>1, <3>2, AskDoes
  <2>2. CASE Approval
    <3>1. ui' = ConfirmAction(ui, opened + 1) /\ opened + 1 \in Nat
      BY <2>2 DEF Approval, IAll, ITerminal
    <3>2. \/ ui.pending = {} /\ prog = "command"
          \/ prog = "run"
      BY <2>2 DEF Approval
    <3> QED BY <1>0, <1>1, <3>1, <3>2, ConfirmActionDoes, ModesDiffer
  <2> QED BY <2>1, <2>2
<1>3. PICK q \in Questions :
         /\ ui' \in Ui
         /\ ui'.draft \in {ui.draft, <<>>}
         /\ ui'.paste = ui.paste /\ ui'.pasting = ui.pasting /\ ui'.queue = ui.queue
         /\ ui'.active = ui.active /\ ui'.mode = ModeOf[q] /\ ui'.pending = ui.pending \cup {q}
         /\ \/ ui.pending = {} /\ prog = "command"
            \/ q = "confirm" /\ prog = "run"
  BY <1>2
<1>4. Quiet
  BY <1>0, <1>3 DEF Quiet
<1>5. KeepsReading
  BY <1>0, <1>1, <1>3, ModesDiffer DEF IAll, IReads, KeepsReading
<1>6. KeepsSecret
  BY <1>0, <1>1, <1>3, ModesDiffer DEF KeepsSecret, IAll, ISecret
<1>7. IWaits'
  <2>1. CASE ui.pending = {} /\ prog = "command"
    BY <1>0, <1>3, <2>1 DEF IWaits
  <2>2. CASE q = "confirm" /\ prog = "run"
    <3>1. late = 0 => ui'.pending = {"confirm"}
      BY <1>0, <1>3, <2>2 DEF IAll, IWaits
    <3> QED BY <1>0, <1>3, <2>2, <3>1 DEF IWaits
  <2> QED BY <1>3, <2>1, <2>2
<1> QED BY <1>4, <1>5, <1>6, <1>7 DEF QuietStep

\* An answer to what is asked; ps are the promises its mode serves.
LEMMA AnswerStep ==
    ASSUME IAll, NEW v \in Ui, NEW ps, Resolved(v, ui', ps),
           v.draft = ui.draft, v.queue = ui.queue, v.pending = ui.pending, v.active = ui.active,
           v.paste = <<>> \/ (v.paste = ui.paste /\ v.pasting = ui.pasting),
           "secret" \in ps => v.paste = <<>>,
           UNCHANGED <<got, sent, typed, late, prog>>, "input" \notin ps,
           \A q \in Promises \ ps : ModeOf[q] # ui.mode
    PROVE  QuietStep
<1>0. ui.pending \subseteq Promises /\ "input" \in Promises
  BY DEF IAll, ITerminal, Ui, IReads, Promises
<1>1. ui'.mode = "busy" /\ ui'.pending = ui.pending \ ps /\ ui'.active = ui.active
  BY DEF Resolved
<1>2. Quiet
  BY DEF Quiet, Resolved, IAll, ITerminal
<1>3. KeepsReading
  BY <1>0, <1>1 DEF KeepsReading, IAll, IReads
<1>4. KeepsSecret
  <2>1. "secret" \in ps => ui'.draft = <<>> /\ ui'.paste = <<>>
    BY DEF Resolved
  <2> QED BY <1>1, <2>1 DEF KeepsSecret
<1>5. late = 0 /\ prog # "gone" => ui'.pending = {}
  BY <1>0, <1>1 DEF IAll, IWaits
<1>6. IWaits'
  BY <1>0, <1>1, <1>5 DEF IAll, IWaits
<1> QED BY <1>2, <1>3, <1>4, <1>5, <1>6 DEF QuietStep

LEMMA ProgramEnds ==
    ASSUME IAll, TriggerRecordingControl \/ Suspend \/ Resume \/ Done \/ Leave
    PROVE  QuietStep
<1> USE DEF OnlyUi, Working
<1>0. /\ ui \in Ui /\ late \in Nat /\ ui.pending \subseteq Promises
      /\ ui.active <=> prog \notin {"suspended", "gone"}
  BY DEF IAll, ITerminal, IReads, Ui
<1>1. CASE TriggerRecordingControl
  <2>1. ui.mode = "recording" /\ UNCHANGED <<got, sent, typed, late, prog>>
    BY <1>1 DEF TriggerRecordingControl
  <2>2. Resolved(ui, ui', {"recording"})
    BY <1>0, <1>1, ResolvesDo DEF TriggerRecordingControl
  <2>3. \A q \in Promises \ {"recording"} : ModeOf[q] # ui.mode
    BY <2>1, ModesDiffer DEF Promises, Questions
  <2> QED BY <1>0, <2>1, <2>2, <2>3, AnswerStep
<1>2. CASE Suspend
  <2>1. /\ ui' \in Ui /\ SameLine([ui EXCEPT !.active = FALSE], ui') /\ ui'.mode = ui.mode
        /\ ui'.draft = ui.draft /\ ui'.paste = ui.paste /\ ui'.pasting = ui.pasting
        /\ ui'.queue = ui.queue /\ ui'.pending = {} /\ ui'.active = FALSE
    BY <1>0, <1>2 DEF Suspend, Ui, SameLine, SameText
  <2>2. prog = "command" /\ prog' = "suspended" /\ UNCHANGED <<got, sent, typed, late>>
    BY <1>2 DEF Suspend
  <2>3. ui.pending = {}
    BY <1>2 DEF Suspend
  <2> QED BY <1>0, <2>1, <2>2, <2>3 DEF QuietStep, Quiet, KeepsReading, KeepsSecret, IWaits,
             IAll, ISecret
<1>3. CASE Resume
  <2>1. /\ ui' \in Ui /\ ui'.mode = ui.mode /\ ui'.draft = ui.draft /\ ui'.paste = <<>>
        /\ ui'.queue = ui.queue /\ ui'.pending = ui.pending /\ ui'.active = TRUE
    BY <1>0, <1>3, EmptyLine DEF Resume, Ui
  <2>2. prog = "suspended" /\ prog' = "command" /\ UNCHANGED <<got, sent, typed, late>>
    BY <1>3 DEF Resume
  <2> QED BY <1>0, <2>1, <2>2 DEF QuietStep, Quiet, KeepsReading, KeepsSecret, IWaits, IAll, ISecret
<1>4. CASE Done
  <2>1. /\ ui.pending = {} /\ prog' = "loop" /\ prog \in {"command", "run"}
        /\ UNCHANGED <<got, sent, typed, late>>
    BY <1>4 DEF Done
  <2>2. /\ SetCancelHandler(ui, FALSE) \in Ui /\ SameLine(ui, SetCancelHandler(ui, FALSE))
        /\ SetCancelHandler(ui, FALSE).mode = ui.mode
    BY <1>0, SetCancelHandlerDoes
  <2>3. /\ ui' \in Ui /\ SameLine(SetCancelHandler(ui, FALSE), ui')
        /\ ui'.mode \in {"idle", ui.mode}
    <3>1. CASE ui' = SetStatus(SetCancelHandler(ui, FALSE), FALSE)
      BY <2>2, <3>1, SetStatusDoes
    <3>2. CASE \E r \in BOOLEAN :
                  ui' = [FinishAssistant(SetCancelHandler(ui, FALSE)) EXCEPT !.replies = r]
      BY <2>2, <3>2, FinishAssistantDoes
    <3> QED BY <1>4, <3>1, <3>2 DEF Done
  <2> QED BY <1>0, <2>1, <2>2, <2>3 DEF QuietStep, Quiet, KeepsReading, KeepsSecret, IWaits, IAll,
             ISecret, SameLine, SameText
<1>5. CASE Leave
  <2>1. /\ prog = "command" /\ prog' = "gone" /\ ui' = Stop(ui) /\ ui.pending = {}
        /\ UNCHANGED <<got, sent, typed, late>>
    BY <1>5 DEF Leave
  <2> QED BY <1>0, <2>1, StopDoes DEF QuietStep, Quiet, KeepsReading, KeepsSecret, IWaits, IAll,
             ISecret
<1> QED BY <1>1, <1>2, <1>3, <1>4, <1>5

\* After a tool that outlives its run only the order of the lines is kept.
LEMMA LateStep == ASSUME IAll, Late PROVE QuietStep
<1>0. /\ ui \in Ui /\ late \in Nat /\ late' = late + 1 /\ ui.active
      /\ prog \notin {"suspended", "gone"}
      /\ prog \in {"loop", "reading", "command", "run"} /\ UNCHANGED <<got, sent, typed>>
  BY DEF IAll, ITerminal, IReads, Late
<1>1. late' # 0 /\ late' \in Nat
  BY <1>0
<1>2. IWaits' /\ KeepsSecret
  BY <1>1 DEF IWaits, KeepsSecret
<1>3. CASE prog' = prog /\ ui' = SetStatus(ui, TRUE)
  BY <1>0, <1>1, <1>2, <1>3, SetStatusDoes DEF QuietStep, Quiet, KeepsReading, SameLine, SameText
<1>4. CASE prog' = prog /\ ui' = ConfirmAction(ui, 0)
  <2>1. 0 \in Nat
    OBVIOUS
  <2>2. /\ ui' \in Ui
        /\ ui'.draft \in {ui.draft, <<>>}
        /\ ui'.paste = ui.paste /\ ui'.pasting = ui.pasting /\ ui'.queue = ui.queue
        /\ ui'.active = ui.active /\ ui'.mode = "confirm"
    BY <1>0, <1>4, <2>1, ConfirmActionDoes
  <2> QED BY <1>0, <1>1, <1>2, <1>4, <2>2 DEF QuietStep, Quiet, KeepsReading
<1>5. CASE prog' = "loop" /\ ui' = FinishAssistant(SetCancelHandler(ui, FALSE))
  <2>1. /\ SetCancelHandler(ui, FALSE) \in Ui /\ SameLine(ui, SetCancelHandler(ui, FALSE))
    BY <1>0, SetCancelHandlerDoes
  <2>2. ui' \in Ui /\ SameLine(SetCancelHandler(ui, FALSE), ui') /\ ui'.mode = "idle"
    BY <1>5, <2>1, FinishAssistantDoes
  <2> QED BY <1>0, <1>1, <1>2, <1>5, <2>1, <2>2 DEF QuietStep, Quiet, KeepsReading, SameLine,
             SameText
<1> QED BY <1>3, <1>4, <1>5 DEF Late

-----------------------------------------------------------------------------
(* The keys that type nothing *)

LEMMA InterruptStep == ASSUME IAll, CtrlC PROVE QuietStep
<1> USE DEF Pressed
<1> DEFINE v == Unpasted(ui)
           own == {"model-picker", "choice-picker", "secret", "recording"}
<1>0. /\ ui \in Ui /\ late \in Nat /\ ui.pending \subseteq Promises /\ ui.active
      /\ prog \notin {"suspended", "gone"} /\ UNCHANGED <<got, sent, typed, late>>
      /\ prog \in {"loop", "reading", "command", "run"}
  BY DEF IAll, ITerminal, IReads, Ui, CtrlC
<1>1. /\ v \in Ui /\ v.draft = ui.draft /\ v.paste = <<>> /\ v.queue = ui.queue
      /\ v.mode = ui.mode /\ v.pending = ui.pending /\ v.active = ui.active
      /\ ~v.pasting
  BY <1>0, UnpastedDoes
<1> HIDE DEF v
<1>2. CASE prog' = "gone" /\ ui' = [Stop(ui) EXCEPT !.pending = @ \ {"input"}]
           /\ ui.mode \notin own
  <2>1. /\ Stop(ui) \in Ui /\ Stop(ui).draft = ui.draft /\ Stop(ui).paste = <<>>
        /\ Stop(ui).queue = ui.queue /\ Stop(ui).mode = ui.mode
        /\ Stop(ui).pending = ui.pending /\ Stop(ui).active = FALSE
    BY <1>0, StopDoes
  <2>2. /\ ui' \in Ui /\ ui'.draft = ui.draft /\ ui'.paste = <<>> /\ ui'.queue = ui.queue
        /\ ui'.mode = ui.mode /\ ui'.pending = ui.pending \ {"input"} /\ ui'.active = FALSE
    BY <1>2, <2>1 DEF Ui
  <2> QED BY <1>0, <1>2, <2>2 DEF QuietStep, Quiet, KeepsReading, KeepsSecret, IWaits
<1>3. CASE prog' = prog /\ ui' = Interrupted(v)
  <2>1. CASE ui.mode \in {"model-picker", "choice-picker"}
    <3>1. Resolved(v, ui', {"model", "choice"})
      BY <1>1, <1>3, <2>1, ResolvesDo DEF Interrupted
    <3>2. \A q \in Promises \ {"model", "choice"} : ModeOf[q] # ui.mode
      BY <2>1, ModesDiffer DEF Promises, Questions
    <3> QED BY <1>0, <1>1, <1>3, <3>1, <3>2, AnswerStep
  <2>2. CASE ui.mode = "secret"
    <3>1. Resolved(v, ui', {"secret"})
      BY <1>1, <1>3, <2>2, ResolvesDo DEF Interrupted
    <3>2. \A q \in Promises \ {"secret"} : ModeOf[q] # ui.mode
      BY <2>2, ModesDiffer DEF Promises, Questions
    <3> QED BY <1>0, <1>1, <1>3, <3>1, <3>2, AnswerStep
  <2>3. CASE ui.mode = "recording"
    <3>1. Resolved(v, ui', {"recording"})
      BY <1>1, <1>3, <2>3, ResolvesDo DEF Interrupted
    <3>2. \A q \in Promises \ {"recording"} : ModeOf[q] # ui.mode
      BY <2>3, ModesDiffer DEF Promises, Questions
    <3> QED BY <1>0, <1>1, <1>3, <3>1, <3>2, AnswerStep
  <2>4. CASE ui.mode = "confirm"
    <3> DEFINE w == ResolveConfirm(v)
    <3>1. Resolved(v, w, {"confirm"})
      BY <1>1, ResolvesDo
    <3>2. \A q \in Promises \ {"confirm"} : ModeOf[q] # ui.mode
      BY <2>4, ModesDiffer DEF Promises, Questions
    <3>3. ui' = RequestCancel(w)
      BY <1>1, <1>3, <2>4 DEF Interrupted
    <3> HIDE DEF w
    <3>4. ui' \in Ui /\ SameLine(w, ui') /\ ui'.mode \in {"busy", "idle"}
      BY <3>1, <3>3, RequestCancelDoes DEF Resolved
    <3>5. /\ ui'.draft \in {ui.draft, <<>>} /\ ui'.paste = <<>> /\ ui'.queue = ui.queue
          /\ ui'.active = ui.active /\ ui'.pending = ui.pending \ {"confirm"}
      BY <1>1, <3>1, <3>4 DEF Resolved, SameLine, SameText
    <3>6. Quiet
      BY <1>0, <1>3, <3>4, <3>5 DEF Quiet
    <3>7. KeepsReading /\ KeepsSecret
      BY <1>0, <1>3, <3>4, <3>5 DEF KeepsReading, KeepsSecret
    <3>8. late = 0 => ui'.pending = {}
      BY <1>0, <3>2, <3>5 DEF IAll, IWaits
    <3>9. IWaits'
      <4>1. ASSUME late = 0, prog = "reading" PROVE FALSE
        BY <1>0, <2>4, <4>1, ModesDiffer DEF IAll, IWaits
      <4> QED BY <1>0, <1>3, <3>8, <4>1 DEF IAll, IWaits
    <3> QED BY <3>6, <3>7, <3>9 DEF QuietStep
  <2>5. CASE ui.mode \notin own \cup {"confirm"}
    <3>1. ui' = RequestCancel(v)
      BY <1>1, <1>3, <2>5 DEF Interrupted
    <3>2. /\ ui' \in Ui /\ SameLine(v, ui')
          /\ ui'.mode = ui.mode \/ (ui.mode = "busy" /\ ui'.mode = "idle")
      BY <1>1, <3>1, RequestCancelDoes
    <3>3. Quiet
      BY <1>0, <1>1, <1>3, <3>2 DEF Quiet, SameLine, SameText
    <3>4. KeepsReading
      BY <1>0, <1>1, <1>3, <3>2 DEF KeepsReading, SameLine
    <3>5. KeepsSecret
      BY <1>1, <2>5, <3>2 DEF KeepsSecret, SameLine
    <3>6. IWaits'
      BY <1>0, <1>1, <1>3, <3>2, ModesDiffer DEF IAll, IWaits, SameLine
    <3> QED BY <3>3, <3>4, <3>5, <3>6 DEF QuietStep
  <2> QED BY <2>1, <2>2, <2>3, <2>4, <2>5
<1> QED BY <1>2, <1>3 DEF CtrlC, v

LEMMA AnswerKeys == ASSUME IAll, Answer PROVE QuietStep
<1> USE DEF OnlyKey, Pressed
<1>0. /\ ui \in Ui /\ late \in Nat /\ ui.pending \subseteq Promises /\ ui.active /\ ~ui.pasting
      /\ prog \notin {"suspended", "gone"} /\ UNCHANGED <<got, sent, typed, late, prog>>
  BY DEF IAll, ITerminal, IReads, Ui, Answer, Select, Secret, Recording, Confirm
<1>1. ui.paste = <<>>
  BY <1>0 DEF IAll, ILines
<1>2. CASE Select
  <2>1. Resolved(ui, ui', {"model", "choice"})
    BY <1>0, <1>2, ResolvesDo DEF Select
  <2>2. \A q \in Promises \ {"model", "choice"} : ModeOf[q] # ui.mode
    BY <1>2, ModesDiffer DEF Promises, Questions, Select
  <2> QED BY <1>0, <2>1, <2>2, AnswerStep
<1>3. CASE Secret
  <2>1. Resolved(ui, ui', {"secret"})
    BY <1>0, <1>3, ResolvesDo DEF Secret
  <2>2. \A q \in Promises \ {"secret"} : ModeOf[q] # ui.mode
    BY <1>3, ModesDiffer DEF Promises, Questions, Secret
  <2> QED BY <1>0, <1>1, <2>1, <2>2, AnswerStep
<1>4. CASE Recording
  <2>1. Resolved(ui, ui', {"recording"})
    BY <1>0, <1>4, ResolvesDo DEF Recording
  <2>2. \A q \in Promises \ {"recording"} : ModeOf[q] # ui.mode
    BY <1>4, ModesDiffer DEF Promises, Questions, Recording
  <2> QED BY <1>0, <2>1, <2>2, AnswerStep
<1>5. CASE Confirm
  <2>1. CASE ui' = ResolveConfirm(ui)
    <3>1. Resolved(ui, ui', {"confirm"})
      BY <1>0, <2>1, ResolvesDo
    <3>2. \A q \in Promises \ {"confirm"} : ModeOf[q] # ui.mode
      BY <1>5, ModesDiffer DEF Promises, Questions, Confirm
    <3> QED BY <1>0, <3>1, <3>2, AnswerStep
  <2>2. CASE ui' = [ui EXCEPT !.reason = ~ui.reason, !.draft = <<>>]
    <3>1. /\ ui' \in Ui /\ ui'.mode = "confirm" /\ ui.mode = "confirm" /\ ui'.draft = <<>>
          /\ ui'.paste = ui.paste /\ ui'.pasting = ui.pasting /\ ui'.queue = ui.queue
          /\ ui'.pending = ui.pending /\ ui'.active = ui.active
      BY <1>0, <1>5, <2>2, EmptyLine DEF Ui, Confirm
    <3> QED BY <1>0, <3>1 DEF QuietStep, Quiet, KeepsReading, KeepsSecret, IWaits, IAll,
               IReads, ITerminal
  <2> QED BY <1>5, <2>1, <2>2 DEF Confirm
<1> QED BY <1>2, <1>3, <1>4, <1>5 DEF Answer

LEMMA PasteAndEdit == ASSUME IAll, PasteStart \/ Edit PROVE QuietStep
<1> USE DEF OnlyKey, Pressed
<1>0. /\ ui \in Ui /\ late \in Nat /\ ui.active /\ prog # "gone"
      /\ UNCHANGED <<got, sent, typed, late, prog>>
  BY DEF IAll, ITerminal, IReads, PasteStart, Edit
<1>1. CASE PasteStart
  <2> DEFINE v == [ui EXCEPT !.pasting = TRUE, !.paste = <<>>]
  <2>1. /\ v \in Ui /\ v.draft = ui.draft /\ v.paste = <<>> /\ v.queue = ui.queue
        /\ v.mode = ui.mode /\ v.pending = ui.pending /\ v.active = ui.active
    BY <1>0, EmptyLine DEF Ui
  <2>2. ui' = SetStatus(v, FALSE)
    BY <1>1 DEF PasteStart
  <2> HIDE DEF v
  <2>3. /\ ui' \in Ui /\ SameLine(v, ui')
        /\ ui'.mode = ui.mode \/ (ui.mode = "busy" /\ ui'.mode = "idle")
    BY <2>1, <2>2, SetStatusDoes
  <2>4. ui.pending \subseteq Promises
    BY <1>0 DEF Ui
  <2>5. IWaits'
    BY <1>0, <2>1, <2>3, <2>4, ModesDiffer DEF IAll, IWaits, SameLine
  <2>6. Quiet
    BY <1>0, <2>1, <2>3 DEF Quiet, IAll, ITerminal, SameLine, SameText
  <2>7. KeepsReading
    BY <1>0, <2>1, <2>3 DEF KeepsReading, IAll, IReads, SameLine
  <2>8. KeepsSecret
    BY <1>0, <2>1, <2>3 DEF KeepsSecret, IAll, ISecret, SameLine
  <2> QED BY <2>5, <2>6, <2>7, <2>8 DEF QuietStep
<1>2. CASE Edit
  <2>1. CASE ui' = SetStatus(ui, FALSE)
    <3>1. /\ ui' \in Ui /\ SameLine(ui, ui')
          /\ ui'.mode = ui.mode \/ (ui.mode = "busy" /\ ui'.mode = "idle")
      BY <1>0, <2>1, SetStatusDoes
    <3> QED BY <1>0, <3>1, StatusStep DEF SameLine
  <2>2. CASE ui' = [ui EXCEPT !.replies = FALSE]
    <3>1. ui' \in Ui /\ SameLine(ui, ui') /\ ui'.mode = ui.mode
      BY <1>0, <2>2 DEF Ui, SameLine, SameText
    <3> QED BY <1>0, <3>1, StatusStep DEF SameLine
  <2>3. CASE ui' = [ui EXCEPT !.draft = <<>>]
    <3>1. /\ ui' \in Ui /\ ui'.mode = ui.mode /\ ui'.draft = <<>>
          /\ ui'.paste = ui.paste /\ ui'.pasting = ui.pasting /\ ui'.queue = ui.queue
          /\ ui'.pending = ui.pending /\ ui'.active = ui.active
      BY <1>0, <2>3, EmptyLine DEF Ui
    <3> QED BY <1>0, <3>1 DEF QuietStep, Quiet, KeepsReading, KeepsSecret, IWaits, IAll,
               IReads, ITerminal, ISecret
  <2> QED BY <1>2, <2>1, <2>2, <2>3 DEF Edit
<1> QED BY <1>1, <1>2

-----------------------------------------------------------------------------
(* The steps that move text *)

\* The line that is read is the one that was sent first of those not read.
LEMMA ReadNext ==
    ASSUME NEW S, NEW g \in Seq(S), NEW q \in Seq(S), q # <<>>
    PROVE  /\ Append(g, Head(q)) \o Tail(q) = g \o q
           /\ Append(g, Head(q)) \in Seq(S) /\ Tail(q) \in Seq(S)
<1>1. Head(q) \in S /\ Tail(q) \in Seq(S) /\ Len(q) \in Nat \ {0}
  OBVIOUS
<1>2. Append(g, Head(q)) = g \o <<Head(q)>>
  BY <1>1, AppendIsConcat
<1>3. <<Head(q)>> \o Tail(q) = q
  BY <1>1
<1>4. <<Head(q)>> \in Seq(S)
  BY <1>1
<1>5. (g \o <<Head(q)>>) \o Tail(q) = g \o (<<Head(q)>> \o Tail(q))
  BY <1>1, <1>4, ConcatAssociative
<1> QED BY <1>1, <1>2, <1>3, <1>5

\* A line that is queued is the last that was sent.
LEMMA QueuedLast ==
    ASSUME NEW S, NEW g \in Seq(S), NEW q \in Seq(S), NEW x \in S
    PROVE  g \o Append(q, x) = Append(g \o q, x)
<1>1. Append(q, x) = q \o <<x>> /\ g \o q \in Seq(S) /\ <<x>> \in Seq(S)
  BY AppendIsConcat
<1>2. Append(g \o q, x) = (g \o q) \o <<x>>
  BY <1>1, AppendIsConcat
<1> QED BY <1>1, <1>2, ConcatAssociative

LEMMA ReadStep == ASSUME IAll, ReadInput PROVE IAll'
<1>0. /\ ui \in Ui /\ late \in Nat /\ ui.queue \in Seq(Seq(Nat)) /\ got \in Seq(Seq(Nat))
      /\ prog = "loop" /\ UNCHANGED <<typed, sent, late>> /\ ui.active
  BY DEF IAll, ITerminal, ReadInput, Ui, IReads
<1>1. CASE ui.queue # <<>>
  <2>1. /\ Append(got, Head(ui.queue)) \o Tail(ui.queue) = got \o ui.queue
        /\ Append(got, Head(ui.queue)) \in Seq(Seq(Nat)) /\ Tail(ui.queue) \in Seq(Seq(Nat))
    BY <1>0, <1>1, ReadNext
  <2>2. /\ ui' = [ui EXCEPT !.queue = Tail(ui.queue), !.mode = "busy"]
        /\ got' = Append(got, Head(ui.queue)) /\ prog' \in {"command", "run"}
    BY <1>1 DEF ReadInput, TakeQueued
  <2>3. /\ ui' \in Ui /\ ui'.mode = "busy" /\ ui'.draft = ui.draft
        /\ ui'.paste = ui.paste /\ ui'.pasting = ui.pasting /\ ui'.queue = Tail(ui.queue)
        /\ ui'.pending = ui.pending /\ ui'.active = ui.active
    BY <1>0, <2>1, <2>2 DEF Ui, UiModes
  <2>4. ITerminal'
    BY <1>0, <2>1, <2>2, <2>3 DEF IAll, ITerminal
  <2>5. IWaits'
    BY <1>0, <2>2, <2>3 DEF IAll, IWaits
  <2>6. IReads'
    BY <1>0, <2>2, <2>3 DEF IAll, IReads
  <2>7. got' \o ui'.queue = sent'
    BY <1>0, <2>1, <2>2, <2>3 DEF IAll, ILines
  <2>8. ILines'
    BY <1>0, <2>3, <2>7 DEF IAll, ILines, Texts
  <2>9. ISecret'
    BY <1>0, <2>3 DEF IAll, ISecret, Texts
  <2> QED BY <2>4, <2>5, <2>6, <2>8, <2>9 DEF IAll
<1>2. CASE ui.queue = <<>>
  <2>1. /\ ui' = [ui EXCEPT !.mode = "input", !.pending = ui.pending \cup {"input"}]
        /\ prog' = "reading" /\ got' = got
    BY <1>2 DEF ReadInput
  <2>2. /\ ui' \in Ui /\ ui'.mode = "input" /\ ui'.draft = ui.draft
        /\ ui'.paste = ui.paste /\ ui'.pasting = ui.pasting /\ ui'.queue = ui.queue
        /\ ui'.pending = ui.pending \cup {"input"} /\ ui'.active = ui.active
    BY <1>0, <2>1 DEF Ui, UiModes, Promises
  <2>3. ITerminal'
    BY <1>0, <2>1, <2>2 DEF IAll, ITerminal
  <2>4. IWaits'
    BY <1>0, <2>1, <2>2, ModesDiffer DEF IAll, IWaits
  <2>5. IReads'
    BY <1>0, <1>2, <2>1, <2>2 DEF IAll, IReads
  <2>6. ILines'
    BY <1>0, <2>1, <2>2 DEF IAll, ILines, Texts
  <2>7. ISecret'
    BY <1>0, <2>1, <2>2 DEF IAll, ISecret, Texts
  <2> QED BY <2>3, <2>4, <2>5, <2>6, <2>7 DEF IAll
<1> QED BY <1>1, <1>2

\* A new piece of text, typed as a secret exactly in the mode of one.
LEMMA TypedStep ==
    ASSUME IAll, ui' \in Ui, ui'.mode = ui.mode, ui'.pending = ui.pending, ui'.queue = ui.queue,
           ui'.active = ui.active, ui'.pasting = ui.pasting, ~ui.pasting => ui'.paste = ui.paste,
           Texts(ui') \subseteq Texts(ui) \cup {typed.n + 1},
           UNCHANGED <<got, sent, late, prog>>, typed' \in Typed, typed'.n = typed.n + 1,
           \/ typed'.secret = typed.secret
           \/ ui.mode = "secret" /\ typed'.secret = typed.secret \cup {typed.n + 1}
    PROVE  IAll'
<1>0. typed.n \in Nat /\ typed.n + 1 \notin 0..typed.n /\ 0..typed.n \subseteq 0..typed.n + 1
      /\ 1..typed.n \subseteq 1..typed.n + 1 /\ typed.n + 1 \in 1..typed.n + 1
      /\ 1..typed.n \subseteq 0..typed.n
  BY DEF IAll, ITerminal, Typed
<1>1. ITerminal' /\ IWaits' /\ IReads'
  BY DEF IAll, ITerminal, IWaits, IReads
<1>2. ILines'
  BY <1>0 DEF IAll, ILines
<1>3. ISecret'
  <2>1. \A i \in DOMAIN sent : typed.n + 1 \notin ToSet(sent[i])
    BY <1>0 DEF IAll, ILines
  <2>2. typed.n + 1 \notin typed.secret
    BY <1>0 DEF IAll, ILines
  <2> QED BY <2>1, <2>2 DEF IAll, ISecret
<1> QED BY <1>1, <1>2, <1>3 DEF IAll

LEMMA TypingStep == ASSUME IAll, Insert \/ Type PROVE IAll'
<1>0. /\ ui \in Ui /\ typed \in Typed /\ typed.n + 1 \in Nat /\ ui.draft \in Seq(Nat)
      /\ ui.paste \in Seq(Nat)
  BY DEF IAll, ITerminal, Typed, Ui
<1>1. /\ Append(ui.draft, typed.n + 1) \in Seq(Nat) /\ Append(ui.paste, typed.n + 1) \in Seq(Nat)
      /\ ToSet(Append(ui.draft, typed.n + 1)) = ToSet(ui.draft) \cup {typed.n + 1}
      /\ ToSet(Append(ui.paste, typed.n + 1)) = ToSet(ui.paste) \cup {typed.n + 1}
  BY <1>0, TextAppended
<1>2. ASSUME ui' = [ui EXCEPT !.draft = Append(ui.draft, typed.n + 1)]
      PROVE  /\ ui' \in Ui /\ ui'.mode = ui.mode /\ ui'.pending = ui.pending
             /\ ui'.queue = ui.queue /\ ui'.active = ui.active /\ ui'.pasting = ui.pasting
             /\ ui'.paste = ui.paste
             /\ Texts(ui') \subseteq Texts(ui) \cup {typed.n + 1}
  <2>1. /\ ui' \in Ui /\ ui'.mode = ui.mode /\ ui'.pending = ui.pending
        /\ ui'.queue = ui.queue /\ ui'.active = ui.active /\ ui'.pasting = ui.pasting
        /\ ui'.paste = ui.paste /\ ui'.draft = Append(ui.draft, typed.n + 1)
    BY <1>0, <1>1, <1>2 DEF Ui
  <2> QED BY <1>1, <2>1 DEF Texts
<1>3. CASE Insert
  <2>1. /\ typed' = [typed EXCEPT !.n = typed.n + 1] /\ UNCHANGED <<got, sent, late, prog>>
        /\ ui' = [ui EXCEPT !.draft = Append(ui.draft, typed.n + 1)]
    BY <1>3 DEF Insert, InsertInputText
  <2>2. typed' \in Typed /\ typed'.n = typed.n + 1 /\ typed'.secret = typed.secret
    BY <1>0, <2>1 DEF Typed
  <2> QED BY <1>2, <2>1, <2>2, TypedStep
<1>4. CASE Type
  <2> DEFINE secret == IF ui.mode = "secret" THEN typed.secret \cup {typed.n + 1} ELSE typed.secret
  <2>1. /\ typed' = [typed EXCEPT !.n = typed.n + 1, !.secret = secret]
        /\ UNCHANGED <<got, sent, late, prog>>
    BY <1>4 DEF Type, Pressed
  <2>2. secret \in SUBSET Nat
    BY <1>0 DEF Typed
  <2>3. \/ secret = typed.secret
        \/ ui.mode = "secret" /\ secret = typed.secret \cup {typed.n + 1}
    OBVIOUS
  <2> HIDE DEF secret
  <2>4. typed' \in Typed /\ typed'.n = typed.n + 1 /\ typed'.secret = secret
    BY <1>0, <2>1, <2>2 DEF Typed
  <2>5. CASE ui.pasting
    <3>1. ui' = [ui EXCEPT !.paste = Append(ui.paste, typed.n + 1)]
      BY <1>4, <2>5 DEF Type
    <3>2. /\ ui' \in Ui /\ ui'.mode = ui.mode /\ ui'.pending = ui.pending
          /\ ui'.queue = ui.queue /\ ui'.active = ui.active /\ ui'.pasting = ui.pasting
          /\ ui'.draft = ui.draft /\ ui'.paste = Append(ui.paste, typed.n + 1)
      BY <1>0, <1>1, <3>1 DEF Ui
    <3>3. Texts(ui') \subseteq Texts(ui) \cup {typed.n + 1}
      BY <1>1, <3>2 DEF Texts
    <3> QED BY <2>1, <2>3, <2>4, <2>5, <3>2, <3>3, TypedStep
  <2>6. CASE ~ui.pasting
    <3>1. ui' = [ui EXCEPT !.draft = Append(ui.draft, typed.n + 1)]
      BY <1>4, <2>6 DEF Type
    <3> QED BY <1>2, <2>1, <2>3, <2>4, <3>1, TypedStep
  <2> QED BY <2>5, <2>6
<1> QED BY <1>3, <1>4

LEMMA PasteStep == ASSUME IAll, PasteEnd PROVE IAll'
<1> DEFINE v == [ui EXCEPT !.draft = ui.draft \o ui.paste, !.pasting = FALSE, !.paste = <<>>]
<1>0. /\ ui \in Ui /\ ui.draft \in Seq(Nat) /\ ui.paste \in Seq(Nat) /\ ui.active
      /\ prog # "gone" /\ UNCHANGED <<got, sent, typed, late, prog>>
      /\ ui.pending \subseteq Promises
  BY DEF IAll, ITerminal, IReads, Ui, PasteEnd, OnlyKey, Pressed
<1>1. /\ ui.draft \o ui.paste \in Seq(Nat)
      /\ ToSet(ui.draft \o ui.paste) \subseteq ToSet(ui.draft) \cup ToSet(ui.paste)
  BY <1>0, TextJoined, ConcatProperties
<1>2. /\ v \in Ui /\ v.draft = ui.draft \o ui.paste /\ v.paste = <<>> /\ v.queue = ui.queue
      /\ v.mode = ui.mode /\ v.pending = ui.pending /\ v.active = ui.active
  BY <1>0, <1>1, EmptyLine DEF Ui
<1>3. ui' = SetStatus(v, FALSE)
  BY DEF PasteEnd
<1> HIDE DEF v
<1>4. /\ ui' \in Ui /\ SameLine(v, ui')
      /\ ui'.mode = ui.mode \/ (ui.mode = "busy" /\ ui'.mode = "idle")
  BY <1>2, <1>3, SetStatusDoes
<1>5. Texts(ui') \subseteq Texts(ui) /\ ui'.paste = <<>>
  BY <1>1, <1>2, <1>4, NoText DEF Texts, SameLine, SameText
<1>6. ITerminal'
  BY <1>0, <1>4 DEF IAll, ITerminal
<1>7. IWaits'
  BY <1>0, <1>2, <1>4, ModesDiffer DEF IAll, IWaits, SameLine
<1>8. IReads'
  BY <1>0, <1>2, <1>4 DEF IAll, IReads, SameLine
<1>9. ILines'
  BY <1>0, <1>2, <1>4, <1>5 DEF IAll, ILines, SameLine
<1>10. ISecret'
  BY <1>0, <1>2, <1>4, <1>5 DEF IAll, ISecret, SameLine
<1> QED BY <1>6, <1>7, <1>8, <1>9, <1>10 DEF IAll

\* A line that is sent is made of what was in the line, or is the suggestion.
LEMMA SubmittedText ==
    ASSUME ui \in Ui
    PROVE  /\ Submitted \in Seq(Nat)
           /\ ToSet(Submitted) \subseteq ToSet(ui.draft) \cup {0}
<1>1. <<0>> \in Seq(Nat) /\ ToSet(<<0>>) = {0}
  BY DEF ToSet
<1> QED BY <1>1, EmptyLine, NoText DEF Submitted, Ui

LEMMA SentStep ==
    ASSUME IAll, SubmitLine PROVE IAll'
<1> USE DEF Pressed
<1> DEFINE v == [ui EXCEPT !.draft = <<>>, !.replies = FALSE, !.mode = "busy"]
           line == Submitted
<1>0. /\ ui \in Ui /\ ui.active /\ prog \notin {"gone", "suspended"} /\ ~ui.pasting
      /\ UNCHANGED late /\ ui.mode \in {"input", "busy"} /\ ui.pending \subseteq Promises
      /\ ui.queue \in Seq(Seq(Nat)) /\ got \in Seq(Seq(Nat)) /\ sent \in Seq(Seq(Nat))
      /\ typed \in Typed /\ ui.paste = <<>>
  BY DEF IAll, ITerminal, IReads, ILines, Ui, SubmitLine
<1>1. /\ v \in Ui /\ v.draft = <<>> /\ v.paste = ui.paste /\ v.queue = ui.queue
      /\ v.mode = "busy" /\ v.pending = ui.pending /\ v.active = ui.active
      /\ v.pasting = ui.pasting
  BY <1>0, EmptyLine DEF Ui, UiModes
<1>2. line \in Seq(Nat) /\ ToSet(line) \subseteq Texts(ui) \cup {0}
  BY <1>0, SubmittedText DEF Texts
<1>3. /\ sent' = IF line = <<>> THEN sent ELSE Append(sent, line)
      /\ typed' = [typed EXCEPT !.enters = typed.enters + 1]
  BY DEF SubmitLine
<1>4. typed' \in Typed /\ typed'.n = typed.n /\ typed'.secret = typed.secret
  <2>1. typed \in Typed /\ typed.enters + 1 \in Nat
    BY <1>0 DEF Typed
  <2>2. \A m \in Nat : LET t == [typed EXCEPT !.enters = m]
                      IN t \in Typed /\ t.n = typed.n /\ t.secret = typed.secret
    BY <2>1 DEF Typed
  <2> QED BY <1>3, <2>1, <2>2
<1>5. /\ ui' \in Ui /\ ui'.draft = <<>> /\ ui'.paste = <<>> /\ ui'.mode = "busy"
      /\ ui'.active = ui.active
      /\ got' \in Seq(Seq(Nat)) /\ sent' \in Seq(Seq(Nat)) /\ got' \o ui'.queue = sent'
      /\ \/ ui.mode = "busy" /\ ui'.pending = ui.pending /\ prog' = prog
         \/ /\ ui.mode = "input" /\ "input" \in ui.pending /\ ui'.pending = ui.pending \ {"input"}
            /\ prog' \in {"loop", "command", "run"}
  <2> HIDE DEF line
  <2>1. /\ Append(ui.queue, line) \in Seq(Seq(Nat)) /\ Append(got, line) \in Seq(Seq(Nat))
        /\ Append(sent, line) \in Seq(Seq(Nat))
        /\ got \o Append(ui.queue, line) = Append(got \o ui.queue, line)
        /\ got \o ui.queue = sent
    <3>1. /\ Append(ui.queue, line) \in Seq(Seq(Nat)) /\ Append(got, line) \in Seq(Seq(Nat))
          /\ Append(sent, line) \in Seq(Seq(Nat))
      BY <1>0, <1>2, AppendProperties
    <3>2. got \o Append(ui.queue, line) = Append(got \o ui.queue, line)
      BY <1>0, <1>2, QueuedLast
    <3>3. got \o ui.queue = sent
      BY DEF IAll, ILines
    <3> QED BY <3>1, <3>2, <3>3
  <2>2. CASE ui.mode = "busy"
    <3>1. /\ ui' = IF line = <<>> THEN v ELSE [v EXCEPT !.queue = Append(ui.queue, line)]
          /\ UNCHANGED <<prog, got>>
      BY <1>1, <2>2 DEF SubmitLine, line
    <3> HIDE DEF v
    <3>2. CASE line = <<>>
      BY <1>0, <1>1, <1>3, <2>1, <2>2, <3>1, <3>2
    <3>3. CASE line # <<>>
      <4>1. /\ ui' \in Ui /\ ui'.draft = v.draft /\ ui'.paste = v.paste /\ ui'.mode = v.mode
            /\ ui'.active = v.active /\ ui'.queue = Append(ui.queue, line)
            /\ ui'.pending = v.pending
        BY <1>1, <2>1, <3>1, <3>3 DEF Ui
      <4> QED BY <1>0, <1>1, <1>3, <2>1, <2>2, <3>1, <3>3, <4>1
    <3> QED BY <3>2, <3>3
  <2>3. CASE ui.mode = "input"
    <3>1. "input" \in ui.pending /\ ui.queue = <<>>
      BY <1>0, <2>3 DEF IAll, IReads
    <3>2. ui' = [v EXCEPT !.pending = ui.pending \ {"input"}]
      BY <1>1, <2>3 DEF SubmitLine
    <3>3. \/ line = <<>> /\ prog' = "loop" /\ got' = got
          \/ line # <<>> /\ prog' \in {"command", "run"} /\ got' = Append(got, line)
      BY <2>3, <3>1 DEF SubmitLine, line
    <3> HIDE DEF v
    <3>4. /\ ui' \in Ui /\ ui'.draft = v.draft /\ ui'.paste = v.paste /\ ui'.mode = v.mode
          /\ ui'.active = v.active /\ ui'.queue = ui.queue
          /\ ui'.pending = ui.pending \ {"input"}
      BY <1>0, <1>1, <3>2 DEF Ui
    <3>5. got \o <<>> = got /\ Append(got, line) \o <<>> = Append(got, line)
      BY <1>0, <2>1, ConcatEmptySeq
    <3>6. got' \o ui'.queue = sent'
      BY <1>3, <2>1, <3>1, <3>3, <3>4, <3>5
    <3> QED BY <1>0, <1>1, <1>3, <2>1, <2>3, <3>1, <3>3, <3>4, <3>6
  <2> QED BY <1>0, <2>2, <2>3
<1> HIDE DEF line, v
<1>6. Texts(ui') = {}
  BY <1>5, NoText DEF Texts
<1>7. \A i \in DOMAIN sent' : sent'[i] = line \/ (i \in DOMAIN sent /\ sent'[i] = sent[i])
  BY <1>0, <1>2, <1>3
<1>8. \A i, j \in DOMAIN sent' : i # j =>
         \/ i \in DOMAIN sent /\ sent'[i] = sent[i] /\ j \in DOMAIN sent /\ sent'[j] = sent[j]
         \/ sent'[i] = line /\ j \in DOMAIN sent /\ sent'[j] = sent[j]
         \/ sent'[j] = line /\ i \in DOMAIN sent /\ sent'[i] = sent[i]
  <2>1. CASE line = <<>>
    BY <1>3, <2>1
  <2>2. CASE line # <<>>
    <3>1. /\ DOMAIN sent = 1..Len(sent) /\ DOMAIN sent' = 1..Len(sent) + 1 /\ Len(sent) \in Nat
          /\ \A i \in 1..Len(sent) : sent'[i] = sent[i]
          /\ sent'[Len(sent) + 1] = line
      BY <1>0, <1>2, <1>3, <2>2
    <3> QED BY <3>1
  <2> QED BY <2>1, <2>2
<1>9. typed.n \in Nat /\ 0 \in 0..typed.n /\ 1..typed.n \subseteq 0..typed.n
  BY <1>0 DEF Typed
<1>10. ITerminal'
  BY <1>0, <1>4, <1>5 DEF IAll, ITerminal
<1>11. late = 0 => "secret" \notin ui.pending
  BY <1>0, ModesDiffer DEF IAll, IWaits
<1>12. IWaits'
  <2>1. CASE ui.mode = "busy" /\ ui'.pending = ui.pending /\ prog' = prog
    <3>1. late = 0 => ui.pending = {}
      BY <1>0, <2>1, ModesDiffer DEF IAll, IWaits
    <3>2. late = 0 => prog # "reading"
      BY <3>1 DEF IAll, IWaits
    <3> QED BY <1>0, <2>1, <3>1, <3>2 DEF IWaits
  <2>2. CASE /\ "input" \in ui.pending /\ ui'.pending = ui.pending \ {"input"}
             /\ prog' \in {"loop", "command", "run"}
    <3>1. late = 0 => ui'.pending = {}
      BY <1>0, <2>2 DEF IAll, ITerminal, IWaits, Questions
    <3> QED BY <1>0, <2>2, <3>1 DEF IWaits
  <2> QED BY <1>5, <2>1, <2>2
<1>13. IReads'
  BY <1>0, <1>5 DEF IAll, IReads
<1>14. ILines'
  <2>1. \A i \in DOMAIN sent' : ToSet(sent'[i]) \subseteq 0..typed.n
    BY <1>2, <1>7, <1>9 DEF IAll, ILines
  <2>2. \A i \in DOMAIN sent : (ToSet(sent[i]) \cap ToSet(line)) \ {0} = {}
    BY <1>2 DEF IAll, ILines
  <2>3. \A i, j \in DOMAIN sent' : (ToSet(sent'[i]) \cap ToSet(sent'[j])) \ {0} # {} => i = j
    BY <1>8, <2>2 DEF IAll, ILines
  <2> QED BY <1>4, <1>5, <1>6, <2>1, <2>3 DEF IAll, ILines
<1>15. ISecret'
  <2>1. 0 \notin typed.secret
    BY <1>9 DEF IAll, ILines
  <2>2. late = 0 => ToSet(line) \cap typed.secret = {}
    BY <1>2, <1>11, <2>1 DEF IAll, ISecret
  <2> QED BY <1>0, <1>4, <1>5, <1>6, <1>7, <2>2 DEF IAll, ISecret
<1> QED BY <1>10, <1>12, <1>13, <1>14, <1>15 DEF IAll

-----------------------------------------------------------------------------
(* The approvals of the tools *)

\* Steps that neither ask for an approval nor answer one.
LEMMA ToolsStay ==
    ASSUME ITools, late \in Nat, late' \in Nat, late' = 0 => late = 0,
           prog = "gone" => prog' = "gone",
           opened' \in Nat, tools' = tools, ui'.asked = ui.asked,
           "confirm" \in ui.pending => "confirm" \in ui'.pending
    PROVE  ITools'
BY DEF ITools

\* An answer, or the end of the run: nobody waits but for those who were overtaken.
LEMMA ToolsAnswered ==
    ASSUME ITools, ui \in Ui, late \in Nat, late' = late, opened' = opened, ui'.asked = 0,
           prog # "gone",
           tools' = [tools EXCEPT !.waiting = @ \ {ui.asked}]
    PROVE  ITools'
<1>1. /\ tools' \in [waiting : SUBSET (Nat \ {0}), overtaken : SUBSET Nat]
      /\ tools'.waiting = tools.waiting \ {ui.asked} /\ tools'.overtaken = tools.overtaken
  BY DEF ITools
<1> QED BY <1>1 DEF ITools

LEMMA ToolsProgram == ASSUME IAll, ITools, Program PROVE ITools'
<1> USE DEF OnlyUi
<1>0. ui \in Ui /\ late \in Nat /\ opened \in Nat /\ opened + 1 \in Nat
  BY DEF IAll, ITerminal, ITools
<1>1. CASE ReadInput
  <2>1. prog = "loop" /\ UNCHANGED <<tools, late, opened>>
    BY <1>1 DEF ReadInput
  <2>2. ui'.asked = ui.asked /\ ("confirm" \in ui.pending => "confirm" \in ui'.pending)
    BY <1>0, <1>1 DEF ReadInput, TakeQueued, Ui
  <2> QED BY <1>0, <2>1, <2>2, ToolsStay
<1>2. CASE Status
  BY <1>0, <1>2, SetStatusDoes, ToolsStay DEF Status, SameLine
<1>3. CASE BeginRun
  <2>1. BeginAssistant(ui) \in Ui /\ SameLine(ui, BeginAssistant(ui))
    BY <1>0, BeginAssistantDoes
  <2>2. SameLine(BeginAssistant(ui), ui')
    BY <1>3, <2>1, SetCancelHandlerDoes DEF BeginRun
  <2> QED BY <1>0, <1>3, <2>1, <2>2, ToolsStay DEF BeginRun, SameLine
<1>4. CASE BeginRequest
  <2>1. SetStatus(ui, TRUE) \in Ui /\ SameLine(ui, SetStatus(ui, TRUE))
    BY <1>0, SetStatusDoes
  <2>2. SameLine(SetStatus(ui, TRUE), ui')
    BY <1>4, <2>1, SetCancelHandlerDoes DEF BeginRequest
  <2> QED BY <1>0, <1>4, <2>1, <2>2, ToolsStay DEF BeginRequest, SameLine
<1>5. CASE EndRequest
  BY <1>0, <1>5, SetCancelHandlerDoes, ToolsStay DEF EndRequest, SameLine
<1>6. CASE Question
  <2>1. PICK q \in Questions : ui' = Ask(ui, q)
    BY <1>6 DEF Question
  <2>2. ui'.asked = ui.asked /\ ui'.pending = ui.pending \cup {q}
    BY <1>0, <2>1, AskDoes
  <2>3. UNCHANGED <<prog, tools, late>> /\ opened' = opened + 1
    BY <1>6 DEF Question
  <2> QED BY <1>0, <2>2, <2>3, ToolsStay
<1>7. CASE Approval
  <2>1. ui'.asked = opened + 1 /\ "confirm" \in ui'.pending
    BY <1>0, <1>7, ConfirmActionDoes DEF Approval
  <2>2. /\ UNCHANGED <<prog, late>> /\ opened' = opened + 1 /\ prog # "gone"
        /\ tools' = Overtakes
    BY <1>7 DEF Approval
  <2>3. /\ tools'.waiting = tools.waiting \cup {opened + 1}
        /\ tools'.overtaken
              = tools.overtaken \cup (IF "confirm" \in ui.pending THEN {ui.asked} ELSE {})
        /\ ui.asked \in Nat
        /\ tools' \in [waiting : SUBSET (Nat \ {0}), overtaken : SUBSET Nat]
    BY <1>0, <2>2 DEF Overtakes, ITools, Ui
  <2>4. ASSUME late = 0
        PROVE  tools'.waiting \ tools'.overtaken \subseteq {opened + 1}
    <3>1. "confirm" \notin ui.pending => ui.asked = 0
      BY <2>2, <2>4 DEF ITools
    <3>2. tools.waiting \ tools.overtaken \subseteq {ui.asked} /\ 0 \notin tools.waiting
      BY <2>2, <2>4 DEF ITools
    <3> QED BY <2>3, <3>1, <3>2
  <2> QED BY <1>0, <2>1, <2>2, <2>3, <2>4 DEF ITools
<1>8. CASE TriggerRecordingControl
  <2>1. /\ ui'.asked = ui.asked /\ ui'.pending = ui.pending \ {"recording"}
    BY <1>0, <1>8, ResolvesDo DEF TriggerRecordingControl, Resolved
  <2> QED BY <1>0, <1>8, <2>1, ToolsStay DEF TriggerRecordingControl
<1>9. CASE Insert
  <2>1. ui'.asked = ui.asked /\ ui'.pending = ui.pending
    BY <1>0, <1>9 DEF Insert, InsertInputText, Ui
  <2> QED BY <1>0, <1>9, <2>1, ToolsStay DEF Insert
<1>10. CASE Suspend \/ Resume
  <2>1. ui'.asked = ui.asked /\ ui'.pending = ui.pending
    BY <1>0, <1>10 DEF Suspend, Resume, Ui
  <2>2. prog # "gone" /\ UNCHANGED <<tools, late>> /\ opened' \in Nat
    BY <1>0, <1>10 DEF Suspend, Resume
  <2> QED BY <1>0, <2>1, <2>2, ToolsStay
<1>11. CASE Done
  <2>1. /\ SetCancelHandler(ui, FALSE) \in Ui /\ SameLine(ui, SetCancelHandler(ui, FALSE))
    BY <1>0, SetCancelHandlerDoes
  <2>2. SameLine(SetCancelHandler(ui, FALSE), ui')
    <3>1. CASE ui' = SetStatus(SetCancelHandler(ui, FALSE), FALSE)
      BY <2>1, <3>1, SetStatusDoes
    <3>2. CASE \E r \in BOOLEAN :
                  ui' = [FinishAssistant(SetCancelHandler(ui, FALSE)) EXCEPT !.replies = r]
      BY <2>1, <3>2, FinishAssistantDoes
    <3> QED BY <1>11, <3>1, <3>2 DEF Done
  <2>3. /\ UNCHANGED <<late, opened>> /\ tools' = [tools EXCEPT !.waiting = {}] /\ ui.pending = {}
        /\ prog # "gone"
    BY <1>11 DEF Done, Working
  <2>4. /\ tools' \in [waiting : SUBSET (Nat \ {0}), overtaken : SUBSET Nat] /\ tools'.waiting = {}
    BY <2>3 DEF ITools
  <2>5. ui'.asked = ui.asked
    BY <2>1, <2>2 DEF SameLine
  <2>6. late = 0 => ui.asked = 0
    BY <2>3 DEF ITools
  <2> QED BY <1>0, <2>3, <2>4, <2>5, <2>6 DEF ITools
<1>12. CASE Leave
  BY <1>0, <1>12 DEF Leave, ITools
<1> QED BY <1>1, <1>2, <1>3, <1>4, <1>5, <1>6, <1>7, <1>8, <1>9, <1>10, <1>11, <1>12 DEF Program

LEMMA ToolsLate == ASSUME IAll, ITools, Late PROVE ITools'
<1>1. late' = late + 1 /\ opened' = opened /\ late \in Nat /\ tools' = tools
  BY DEF Late, IAll, ITerminal
<1>2. late' # 0
  BY <1>1
<1> QED BY <1>1, <1>2 DEF ITools

LEMMA ToolsUser == ASSUME IAll, ITools, User PROVE ITools'
<1> USE DEF OnlyKey, Pressed
<1>0. /\ ui \in Ui /\ late \in Nat /\ opened \in Nat /\ UNCHANGED <<late, opened>>
      /\ prog # "gone" /\ ui.active
  BY DEF IAll, ITerminal, IReads, ITools, User, CtrlC, PasteStart, PasteEnd, Type, Answer, Select,
         Secret, Recording, Confirm, Edit, SubmitLine
<1>1. CASE CtrlC
  <2> DEFINE v == Unpasted(ui)
  <2>0. v \in Ui /\ v.mode = ui.mode /\ v.pending = ui.pending /\ v.asked = ui.asked
    BY <1>0, UnpastedDoes DEF Unpasted, Ui
  <2>1. tools' = IF ui.mode = "confirm" THEN Answered ELSE tools
    BY <1>1 DEF CtrlC
  <2> HIDE DEF v
  <2>2. CASE prog' = "gone"
    <3>1. tools' \in [waiting : SUBSET (Nat \ {0}), overtaken : SUBSET Nat]
      BY <2>1 DEF ITools, Answered
    <3> QED BY <1>0, <2>2, <3>1 DEF ITools
  <2>3. CASE prog' = prog /\ ui' = Interrupted(v)
    <3>1. CASE ui.mode = "confirm"
      <4>1. Resolved(v, ResolveConfirm(v), {"confirm"})
        BY <2>0, ResolvesDo
      <4>2. ui' = RequestCancel(ResolveConfirm(v))
        BY <2>0, <2>3, <3>1 DEF Interrupted
      <4>3. ui'.asked = 0
        BY <4>1, <4>2, RequestCancelDoes DEF Resolved, SameLine
      <4> QED BY <1>0, <2>1, <3>1, <4>3, ToolsAnswered DEF Answered
    <3>2. CASE ui.mode # "confirm"
      <4>1. ui'.asked = ui.asked /\ ("confirm" \in ui.pending => "confirm" \in ui'.pending)
        <5>1. CASE ui.mode \in {"model-picker", "choice-picker"}
          BY <2>0, <2>3, <5>1, ResolvesDo DEF Interrupted, Resolved
        <5>2. CASE ui.mode = "secret"
          BY <2>0, <2>3, <5>2, ResolvesDo DEF Interrupted, Resolved
        <5>3. CASE ui.mode = "recording"
          BY <2>0, <2>3, <5>3, ResolvesDo DEF Interrupted, Resolved
        <5>4. CASE ui.mode \notin {"model-picker", "choice-picker", "secret", "recording"}
          <6>1. ui' = RequestCancel(v)
            BY <2>0, <2>3, <3>2, <5>4 DEF Interrupted
          <6> QED BY <2>0, <6>1, RequestCancelDoes DEF SameLine
        <5> QED BY <5>1, <5>2, <5>3, <5>4
      <4> QED BY <1>0, <2>1, <2>3, <3>2, <4>1, ToolsStay
    <3> QED BY <3>1, <3>2
  <2> QED BY <1>1, <2>2, <2>3 DEF CtrlC, v
<1>2. CASE PasteStart
  <2> DEFINE v == [ui EXCEPT !.pasting = TRUE, !.paste = <<>>]
  <2>1. v \in Ui /\ v.pending = ui.pending /\ v.asked = ui.asked
    BY <1>0, EmptyLine DEF Ui
  <2>2. ui' = SetStatus(v, FALSE)
    BY <1>2 DEF PasteStart
  <2> HIDE DEF v
  <2>3. ui'.asked = ui.asked /\ ui'.pending = ui.pending
    BY <2>1, <2>2, SetStatusDoes DEF SameLine
  <2> QED BY <1>0, <1>2, <2>3, ToolsStay DEF PasteStart
<1>3. CASE PasteEnd
  <2> DEFINE v == [ui EXCEPT !.draft = ui.draft \o ui.paste, !.pasting = FALSE, !.paste = <<>>]
  <2>0. ui.draft \o ui.paste \in Seq(Nat)
    BY <1>0, ConcatProperties DEF Ui
  <2>1. v \in Ui /\ v.pending = ui.pending /\ v.asked = ui.asked
    BY <1>0, <2>0, EmptyLine DEF Ui
  <2>2. ui' = SetStatus(v, FALSE)
    BY <1>3 DEF PasteEnd
  <2> HIDE DEF v
  <2>3. ui'.asked = ui.asked /\ ui'.pending = ui.pending
    BY <2>1, <2>2, SetStatusDoes DEF SameLine
  <2> QED BY <1>0, <1>3, <2>3, ToolsStay DEF PasteEnd
<1>4. CASE Type
  <2>1. ui'.asked = ui.asked /\ ui'.pending = ui.pending
    BY <1>0, <1>4 DEF Type, Ui
  <2> QED BY <1>0, <1>4, <2>1, ToolsStay DEF Type
<1>5. CASE Answer
  <2>1. CASE Select \/ Secret \/ Recording
    <3>1. ui'.asked = ui.asked /\ ("confirm" \in ui.pending => "confirm" \in ui'.pending)
      BY <1>0, <2>1, ResolvesDo DEF Select, Secret, Recording, Resolved
    <3> QED BY <1>0, <2>1, <3>1, ToolsStay DEF Select, Secret, Recording
  <2>2. CASE Confirm
    <3>1. CASE ui' = ResolveConfirm(ui) /\ tools' = Answered
      <4>1. ui'.asked = 0
        BY <1>0, <3>1, ResolvesDo DEF Resolved
      <4> QED BY <1>0, <2>2, <3>1, <4>1, ToolsAnswered DEF Answered
    <3>2. CASE ui' = [ui EXCEPT !.reason = ~ui.reason, !.draft = <<>>] /\ tools' = tools
      <4>1. ui'.asked = ui.asked /\ ui'.pending = ui.pending
        BY <1>0, <3>2 DEF Ui
      <4> QED BY <1>0, <2>2, <3>2, <4>1, ToolsStay DEF Confirm
    <3> QED BY <2>2, <3>1, <3>2 DEF Confirm
  <2> QED BY <1>5, <2>1, <2>2 DEF Answer
<1>6. CASE Edit
  <2>1. ui'.asked = ui.asked /\ ui'.pending = ui.pending
    <3>1. CASE ui' = SetStatus(ui, FALSE)
      BY <1>0, <3>1, SetStatusDoes DEF SameLine
    <3>2. CASE ui' # SetStatus(ui, FALSE)
      <4>1. ui' \in {[ui EXCEPT !.draft = <<>>], [ui EXCEPT !.replies = FALSE]}
        BY <1>6, <3>2 DEF Edit
      <4> QED BY <1>0, <4>1 DEF Ui
    <3> QED BY <3>1, <3>2
  <2> QED BY <1>0, <1>6, <2>1, ToolsStay DEF Edit
<1>7. CASE SubmitLine
  <2>1. ui'.asked = ui.asked /\ ("confirm" \in ui.pending => "confirm" \in ui'.pending)
    <3> DEFINE v == [ui EXCEPT !.draft = <<>>, !.replies = FALSE, !.mode = "busy"]
    <3>1. v \in Ui /\ v.asked = ui.asked /\ v.pending = ui.pending
      BY <1>0, EmptyLine DEF Ui, UiModes
    <3>2. \/ ui' = v \/ ui' = [v EXCEPT !.queue = Append(ui.queue, Submitted)]
          \/ ui' = [v EXCEPT !.pending = ui.pending \ {"input"}]
      BY <1>7, <3>1 DEF SubmitLine
    <3> HIDE DEF v
    <3> QED BY <3>1, <3>2 DEF Ui
  <2> QED BY <1>0, <1>7, <2>1, ToolsStay DEF SubmitLine
<1> QED BY <1>1, <1>2, <1>3, <1>4, <1>5, <1>6, <1>7 DEF User

-----------------------------------------------------------------------------
(* The terminal: the theorem *)

\* What the user types arrives where he typed it, and nowhere else, however long he types and
\* whatever the program asks: keys go to what waits, also where a call's
\* approval overtakes that of another, lines arrive once and in order, and what was typed as a
\* secret is never sent.
THEOREM TextArrives == TerminalSpec => []LinesAreTheUsers
<1>1. TerminalInit => IAll /\ ITools
  <2> SUFFICES ASSUME TerminalInit PROVE IAll /\ ITools
    OBVIOUS
  <2>1. /\ ui \in Ui /\ ui.draft = <<>> /\ ui.paste = <<>> /\ ui.queue = <<>> /\ ui.pending = {}
        /\ ui.mode = "idle" /\ ui.active
    BY DEF TerminalInit, Started, Ui, UiModes
  <2>2. /\ typed \in Typed /\ typed.n = 0 /\ typed.secret = {}
        /\ got = <<>> /\ sent = <<>> /\ late = 0 /\ prog = "loop"
    BY DEF TerminalInit, Typed
  <2>3. Texts(ui) = {} /\ <<>> \o <<>> = <<>> /\ DOMAIN sent = {} /\ <<>> \in Seq(Seq(Nat))
    BY <2>1, <2>2, NoText DEF Texts
  <2>4. IAll
    BY <2>1, <2>2, <2>3 DEF IAll, ITerminal, IWaits, IReads, ILines, ISecret
  <2>5. ITools
    BY DEF TerminalInit, Started, ITools
  <2> QED BY <2>4, <2>5
<1>2. IAll /\ ITools /\ [TerminalNext]_terminalVars => (IAll /\ ITools)'
  <2> SUFFICES ASSUME IAll, ITools, [TerminalNext]_terminalVars PROVE IAll' /\ ITools'
    OBVIOUS
  <2>1. CASE Program
    <3>1. opened \in Nat
      BY DEF ITools
    <3> QED BY <2>1, <3>1, ReadStep, TypingStep, ProgramStatus, ProgramQuestion, ProgramEnds,
               QuietKeeps, ToolsProgram DEF Program
  <2>2. CASE Late
    BY <2>2, LateStep, QuietKeeps, ToolsLate
  <2>3. CASE User
    BY <2>3, InterruptStep, PasteAndEdit, PasteStep, TypingStep, AnswerKeys, SentStep, QuietKeeps,
       ToolsUser DEF User
  <2>4. CASE UNCHANGED terminalVars
    <3>1. IAll'
      BY <2>4 DEF terminalVars, IAll, ITerminal, IWaits, IReads, ILines, ISecret
    <3>2. ITools'
      BY <2>4 DEF terminalVars, ITools
    <3> QED BY <3>1, <3>2
  <2> QED BY <2>1, <2>2, <2>3, <2>4 DEF TerminalNext
<1>3. IAll /\ ITools => LinesAreTheUsers
  <2> SUFFICES ASSUME IAll, ITools PROVE LinesAreTheUsers
    OBVIOUS
  <2>1. WaitingIsReachable
    <3> SUFFICES ASSUME late = 0, ui.active
                 PROVE  /\ Cardinality(ui.pending) <= 1
                        /\ \A q \in ui.pending : ui.mode = ModeOf[q]
                        /\ prog = "reading" <=> "input" \in ui.pending
                        /\ tools.waiting \ tools.overtaken \subseteq {ui.asked}
                        /\ ui.asked # 0 => "confirm" \in ui.pending /\ ui.asked \in tools.waiting
      BY DEF WaitingIsReachable
    <3>1. ui.pending = {} \/ \E q : ui.pending = {q}
      BY DEF IAll, IWaits, IReads, ITerminal
    <3>2. Cardinality(ui.pending) <= 1
      <4>1. CASE ui.pending = {}
        BY <4>1, FS_EmptySet
      <4>2. ASSUME NEW q, ui.pending = {q} PROVE Cardinality(ui.pending) <= 1
        <5>1. Cardinality({q}) = 1
          BY FS_Singleton
        <5> QED BY <4>2, <5>1
      <4> QED BY <3>1, <4>1, <4>2
    <3>3. prog = "reading" <=> "input" \in ui.pending
      BY DEF IAll, IWaits, IReads, ITerminal, Questions
    <3>4. \A q \in ui.pending : ui.mode = ModeOf[q]
      BY DEF IAll, IWaits, IReads
    <3>5. /\ tools.waiting \ tools.overtaken \subseteq {ui.asked}
          /\ ui.asked # 0 => "confirm" \in ui.pending /\ ui.asked \in tools.waiting
      BY DEF ITools, IAll, IReads
    <3> QED BY <3>2, <3>3, <3>4, <3>5
  <2>2. LinesInOrder
    BY DEF IAll, ILines, LinesInOrder, Texts
  <2>3. SecretNeverSent
    BY DEF IAll, ISecret, SecretNeverSent
  <2> QED BY <2>1, <2>2, <2>3 DEF LinesAreTheUsers
<1> QED BY <1>1, <1>2, <1>3, PTL DEF TerminalSpec
=============================================================================
