--------------------------- MODULE AppTasksProofs ---------------------------
(* What App guarantees of its two futures for any games, archives and       *)
(* number of tasks, whether or not adds are left with B and steps fail;     *)
(* and, as long as none was left, of its lists, dialogs and results.        *)
EXTENDS AppTasks, FiniteSetTheorems, FunctionTheorems, SequenceTheorems, TLAPS

CopyShape ==
  /\ copy = [n |-> copy.n, valid |-> copy.valid, op |-> copy.op, mod |-> copy.mod,
             pc |-> copy.pc, stop |-> copy.stop, result |-> copy.result]
  /\ copy.valid \in BOOLEAN /\ copy.stop \in BOOLEAN /\ uninstalling \in BOOLEAN

(* mod_uninstalling outlives its task, but never the other way round; a     *)
(* running task is always held by copy_task.                                *)
Guarded ==
  /\ CopyShape
  /\ copy.pc = "running" => copy.valid
  /\ UninstallNotStopped

CopyLeft == UNCHANGED <<copy, uninstalling>>

(* Only five handlers touch copy_task or mod_uninstalling.                  *)
LEMMA OthersLeaveCopy ==
  ASSUME [Next]_vars,
         ~StartCopy, ~StopCopy, ~CollectCopy, ~RunCopy
  PROVE  CopyLeft
<1>1. ASSUME NEW w \in DOMAIN adds, AddStep(w)
      PROVE  CopyLeft
  BY <1>1 DEF AddStep, AddDirectory, AddNext, FileZip, SkipZip, AddDone,
              ListGame, ResetIndex, uiOnly, CopyLeft
<1>2. CASE OpenGame \/ ChangeMenu \/ MoveCursor \/ AskCopy \/ AskAdd
  BY <1>2 DEF OpenGame, ChangeMenu, MoveCursor, AskCopy, AskAdd, CopyLeft
<1>3. CASE Dismiss \/ Refuse \/ NotReady \/ StartAdd \/ LeaveAdd \/ CollectAdd
  BY <1>3 DEF Dismiss, Refuse, NotReady, StartAdd, LeaveAdd, CollectAdd, CopyLeft
<1>4. CASE UNCHANGED vars
  BY <1>4 DEF vars, CopyLeft
<1> QED
  BY <1>1, <1>2, <1>3, <1>4 DEF Next, Frame

LEMMA GuardedStep ==
  ASSUME Guarded, [Next]_vars
  PROVE  Guarded'
<1> USE DEF Guarded, CopyShape, UninstallNotStopped
<1>1. CASE StartCopy
  BY <1>1 DEF StartCopy
<1>2. CASE StopCopy
  BY <1>2 DEF StopCopy, MayStopCopy
<1>3. CASE CollectCopy
  <2>1. copy' = [NoCopy EXCEPT !.n = copy.n] /\ uninstalling' \in BOOLEAN
    BY <1>3 DEF CollectCopy
  <2>2. /\ CopyShape'
        /\ copy'.valid = FALSE /\ copy'.pc = "ended"
    BY <2>1 DEF NoCopy
  <2> QED
    BY <2>2
<1>4. CASE RunCopy
  <2>1. PICK ok \in BOOLEAN : copy' = [copy EXCEPT !.pc = "ended", !.result = ok]
    BY <1>4 DEF RunCopy
  <2>2. uninstalling' = uninstalling
    BY <1>4 DEF RunCopy
  <2> QED
    BY <2>1, <2>2
<1>5. CASE ~StartCopy /\ ~StopCopy /\ ~CollectCopy /\ ~RunCopy
  BY <1>5, OthersLeaveCopy DEF CopyLeft
<1> QED
  BY <1>1, <1>2, <1>3, <1>4, <1>5

LEMMA GuardedInit == Init => Guarded
<1>1. Init => copy = NoCopy /\ uninstalling = FALSE
  BY DEF Init
<1>2. ASSUME copy = NoCopy, uninstalling = FALSE
      PROVE  Guarded
  <2>1. CopyShape
    BY <1>2 DEF NoCopy, CopyShape
  <2>2. copy.valid = FALSE /\ copy.pc = "ended"
    BY <1>2 DEF NoCopy
  <2> QED
    BY <2>1, <2>2 DEF Guarded, UninstallNotStopped
<1> QED
  BY <1>1, <1>2

LEMMA GuardedHolds == Spec => []Guarded
BY GuardedInit, GuardedStep, PTL DEF Spec

(* B never stops an uninstallation, also when an earlier task was left      *)
(* uncollected and its flag with it.                                        *)
THEOREM UninstallSafeFromB == Spec => []UninstallNotStopped
<1>1. Guarded => UninstallNotStopped
  BY DEF Guarded
<1> QED
  BY <1>1, GuardedHolds, PTL

(* No installation or uninstallation starts beside one that runs, with or   *)
(* without its dialog on the screen.                                        *)
THEOREM CopyTasksNeverOverlap == Spec => CopyTasksExclusive
<1>1. ASSUME Guarded, [Next]_vars, copy.pc = "running"
      PROVE  copy'.n = copy.n
  <2> USE <1>1 DEF Guarded, CopyShape
  <2>1. CASE StartCopy
    BY <2>1 DEF StartCopy, StillCopying
  <2>2. CASE StopCopy \/ RunCopy
    BY <2>2 DEF StopCopy, RunCopy
  <2>3. CASE CollectCopy
    BY <2>3 DEF CollectCopy, NoCopy
  <2>4. CASE ~StartCopy /\ ~StopCopy /\ ~CollectCopy /\ ~RunCopy
    BY <2>4, OthersLeaveCopy DEF CopyLeft
  <2> QED
    BY <2>1, <2>2, <2>3, <2>4
<1>2. Guarded /\ [Next]_vars => [copy.pc = "running" => copy'.n = copy.n]_vars
  BY <1>1
<1> QED
  BY <1>2, GuardedHolds, PTL DEF Spec, CopyTasksExclusive

-----------------------------------------------------------------------------
(***************************************************************************)
(* Types.                                                                  *)
(***************************************************************************)

(* SetToSeq lists every element once.                                       *)
LEMMA SetToSeqLists ==
  ASSUME NEW S, IsFiniteSet(S)
  PROVE  /\ SetToSeq(S) \in Seq(S)
         /\ IsInjective(SetToSeq(S))
         /\ ToSet(SetToSeq(S)) = S
<1> DEFINE n == Cardinality(S)
<1>1. n \in Nat /\ ExistsBijection(1..n, S)
  BY FS_CardinalityType
<1>2. \E f \in [1..n -> S] : IsInjective(f)
  BY <1>1 DEF ExistsBijection, Bijection, Injection
<1>3. SetToSeq(S) \in [1..n -> S] /\ IsInjective(SetToSeq(S))
  BY <1>2 DEF SetToSeq
<1>4. SetToSeq(S) \in Injection(1..n, S)
  BY <1>3 DEF Injection
<1>5. Cardinality(1..n) = n
  BY <1>1, FS_Interval
<1>6. SetToSeq(S) \in Surjection(1..n, S)
  BY <1>4, <1>5, FS_Injection
<1>7. ToSet(SetToSeq(S)) = S
  BY <1>3, <1>6 DEF Surjection, ToSet
<1>8. SetToSeq(S) \in Seq(S)
  BY <1>1, <1>3, SeqDef
<1> QED
  BY <1>3, <1>7, <1>8

Worker == [new : BOOLEAN, game : AllGames, todo : Seq(Zips),
           pc : {"start", "next", "file", "list", "home", "ended"}, stop : BOOLEAN]

Typed ==
  /\ TypeOK
  /\ adds \in Seq(Worker)
  /\ \A w \in DOMAIN adds : adds[w].pc = "file" => adds[w].todo # <<>>
  /\ dialog = "ask" => ask \in Ops
  /\ IsFiniteSet(dirs) /\ IsFiniteSet(marked)

LEMMA AddsShape ==
  ASSUME Typed
  PROVE  /\ Len(adds) \in Nat /\ DOMAIN adds = 1..Len(adds)
         /\ adds \in [1..Len(adds) -> Worker]
         /\ modInfo \in Seq([game : AllGames, name : Names, on : BOOLEAN])
         /\ Len(modInfo) \in Nat /\ DOMAIN modInfo = 1..Len(modInfo)
         /\ modInfo \in [1..Len(modInfo) -> [game : AllGames, name : Names, on : BOOLEAN]]
         /\ Len(entries) \in Nat /\ DOMAIN entries = 1..Len(entries)
         /\ entries \in [1..Len(entries) -> AllGames]
BY LenProperties DEF Typed, TypeOK

(* A step of a worker changes its own record only, and there its place and  *)
(* the rest of its list.                                                   *)
Advances(w) ==
  /\ DOMAIN adds' = DOMAIN adds /\ Len(adds') = Len(adds) /\ adds' \in Seq(Worker)
  /\ \A v \in DOMAIN adds : v # w => adds'[v] = adds[v]
  /\ adds'[w].new = adds[w].new /\ adds'[w].game = adds[w].game /\ adds'[w].stop = adds[w].stop
  /\ Running(w)
  /\ adds'[w].pc = "file" => adds'[w].todo # <<>>
  /\ \/ adds'[w].todo \in {adds[w].todo, <<>>}
     \/ adds[w].todo # <<>> /\ adds'[w].todo = Tail(adds[w].todo)

LEMMA WorkerSet ==
  ASSUME Typed, NEW w \in DOMAIN adds, NEW r \in Worker, adds' = [adds EXCEPT ![w] = r]
  PROVE  /\ DOMAIN adds' = DOMAIN adds /\ Len(adds') = Len(adds) /\ adds' \in Seq(Worker)
         /\ \A v \in DOMAIN adds : v # w => adds'[v] = adds[v]
         /\ adds'[w] = r
<1>1. w \in 1..Len(adds) /\ adds \in Seq(Worker)
  BY AddsShape DEF Typed
<1>2. adds' \in Seq(Worker) /\ Len(adds') = Len(adds)
  BY <1>1, ExceptSeq
<1> QED
  BY <1>1, <1>2, AddsShape

Moved(w, p, t) ==
  [new |-> adds[w].new, game |-> adds[w].game, todo |-> t, pc |-> p, stop |-> adds[w].stop]

Moves(w, p, t) ==
  \/ adds' = [adds EXCEPT ![w].pc = p] /\ t = adds[w].todo
  \/ adds' = [adds EXCEPT ![w].pc = p, ![w].todo = t]

LEMMA WorkerMoved ==
  ASSUME Typed, NEW w \in DOMAIN adds, NEW p, NEW t, Moves(w, p, t)
  PROVE  adds' = [adds EXCEPT ![w] = Moved(w, p, t)]
<1>1. w \in 1..Len(adds) /\ adds \in [1..Len(adds) -> Worker] /\ adds[w] \in Worker
  BY AddsShape
<1>2. adds'[w] = Moved(w, p, t)
  BY <1>1 DEF Moves, Moved, Worker
<1>3. \A v \in 1..Len(adds) : v # w => adds'[v] = adds[v]
  BY <1>1 DEF Moves
<1>4. adds' = [v \in 1..Len(adds) |-> adds'[v]]
  BY <1>1 DEF Moves
<1> QED
  BY <1>1, <1>2, <1>3, <1>4

LEMMA WorkerAdvances ==
  ASSUME Typed, NEW w \in DOMAIN adds, AddStep(w)
  PROVE  Advances(w)
<1> DEFINE todo == adds[w].todo
<1>0. /\ adds[w] \in Worker
      /\ adds[w].pc = "file" => todo # <<>>
      /\ todo # <<>> => Tail(todo) \in Seq(Zips)
      /\ todo \in Seq(Zips) /\ <<>> \in Seq(Zips)
  BY AddsShape, HeadTailProperties, EmptySeq DEF Typed, Worker
<1>1. ASSUME NEW p \in {"start", "next", "file", "list", "home", "ended"}, NEW t \in Seq(Zips),
             Moves(w, p, t), Running(w), p = "file" => t # <<>>,
             t = todo \/ t = <<>> \/ (todo # <<>> /\ t = Tail(todo))
      PROVE  Advances(w)
  <2>1. Moved(w, p, t) \in Worker
    BY <1>0 DEF Moved, Worker
  <2>2. /\ DOMAIN adds' = DOMAIN adds /\ Len(adds') = Len(adds) /\ adds' \in Seq(Worker)
        /\ \A v \in DOMAIN adds : v # w => adds'[v] = adds[v]
        /\ adds'[w] = Moved(w, p, t)
    BY <1>1, <2>1, WorkerMoved, WorkerSet
  <2> QED
    BY <1>1, <2>2 DEF Advances, Moved
<1>2. CASE AddDirectory(w)
  <2>1. Running(w) /\ (Moves(w, "next", todo) \/ Moves(w, "ended", <<>>))
    BY <1>2 DEF AddDirectory, Running, End, Moves
  <2> HIDE DEF todo
  <2> QED
    BY <1>0, <1>1, <2>1
<1>3. CASE AddNext(w)
  <2>1. /\ Running(w) /\ todo # <<>>
        /\ Moves(w, "file", todo) \/ Moves(w, "ended", <<>>)
    BY <1>3 DEF AddNext, Running, End, Moves
  <2> HIDE DEF todo
  <2> QED
    BY <1>0, <1>1, <2>1
<1>4. CASE FileZip(w) \/ SkipZip(w)
  <2>1. Running(w) /\ todo # <<>> /\ Moves(w, "next", Tail(todo))
    BY <1>0, <1>4 DEF FileZip, SkipZip, Advanced, Running, Moves
  <2> HIDE DEF todo
  <2> QED
    BY <1>0, <1>1, <2>1
<1>5. CASE AddDone(w) \/ ListGame(w) \/ ResetIndex(w)
  <2>1. /\ Running(w)
        /\ Moves(w, "list", todo) \/ Moves(w, "home", todo) \/ Moves(w, "ended", <<>>)
    BY <1>5 DEF AddDone, ListGame, ResetIndex, Running, End, Moves
  <2> HIDE DEF todo
  <2> QED
    BY <1>0, <1>1, <2>1
<1> QED
  BY <1>2, <1>3, <1>4, <1>5 DEF AddStep

(* What the workers leave alone of the types.                               *)
LEMMA TypedAdd ==
  ASSUME Typed, NEW w \in DOMAIN adds, AddStep(w)
  PROVE  Typed'
<1> DEFINE Mod == [game : AllGames, name : Names, on : BOOLEAN]
<1>1. /\ UNCHANGED uiOnly
      /\ adds' \in Seq(Worker) /\ Len(adds') = Len(adds)
      /\ \A v \in DOMAIN adds' : adds'[v].pc = "file" => adds'[v].todo # <<>>
      /\ UNCHANGED marked
  <2>1. UNCHANGED uiOnly /\ UNCHANGED marked
    BY DEF AddStep, AddDirectory, AddNext, FileZip, SkipZip, AddDone, ListGame, ResetIndex, card
  <2> QED
    BY <2>1, WorkerAdvances DEF Advances, Typed
<1>2. /\ adds[w].game \in AllGames /\ Zips \subseteq Names
      /\ adds[w].pc = "file" => Head(adds[w].todo) \in Zips
  BY AddsShape, ZipsAssumption, HeadTailProperties DEF Typed, Worker
<1>3. modInfo' \in Seq(Mod) /\ (modIndex = 1 \/ modIndex \in DOMAIN modInfo')
  <2>1. modInfo' = modInfo \/ \E e \in Mod : modInfo' = Append(modInfo, e)
    BY <1>2 DEF AddStep, AddDirectory, AddNext, FileZip, SkipZip, AddDone, ListGame, ResetIndex,
                Destination
  <2>2. CASE modInfo' = modInfo
    BY <2>2 DEF Typed, TypeOK
  <2>3. ASSUME NEW e \in Mod, modInfo' = Append(modInfo, e)
        PROVE  modInfo' \in Seq(Mod) /\ (modIndex = 1 \/ modIndex \in DOMAIN modInfo')
    BY <2>3, AppendProperties, AddsShape, LenProperties DEF Typed, TypeOK
  <2> QED
    BY <2>1, <2>2, <2>3
<1>4. entries' \in Seq(AllGames) /\ (index' = 1 \/ index' \in DOMAIN entries')
  <2>1. CASE ListGame(w)
    <3>1. entries' = <<adds[w].game>> \o entries /\ index' = index /\ <<adds[w].game>> \in Seq(AllGames)
      BY <1>2, <2>1 DEF ListGame, uiOnly
    <3>2. /\ entries' \in Seq(AllGames) /\ Len(entries') = 1 + Len(entries)
      BY <3>1, ConcatProperties DEF Typed, TypeOK
    <3>3. DOMAIN entries' = 1..(1 + Len(entries))
      BY <3>2, LenProperties
    <3>4. DOMAIN entries = 1..Len(entries) /\ Len(entries) \in Nat
      BY AddsShape
    <3>5. index = 1 \/ index \in DOMAIN entries'
      BY <3>3, <3>4 DEF Typed, TypeOK
    <3> QED
      BY <3>1, <3>2, <3>5
  <2>2. CASE ~ListGame(w)
    BY <2>2 DEF AddStep, AddDirectory, AddNext, FileZip, SkipZip, AddDone, ResetIndex, uiOnly,
                Typed, TypeOK
  <2> QED
    BY <2>1, <2>2
<1>5. gameDirs' \subseteq AllGames /\ inbox' \subseteq Zips
  BY <1>2 DEF AddStep, AddDirectory, AddNext, FileZip, SkipZip, AddDone, ListGame, ResetIndex,
              card, Typed, TypeOK
<1>6. (dirs \union marked)' \subseteq AllGames \X Names /\ IsFiniteSet(dirs)'
  <2>1. dirs' = dirs \/ \E d \in AllGames \X Names : dirs' = dirs \union {d}
    BY <1>2 DEF AddStep, AddDirectory, AddNext, FileZip, SkipZip, AddDone, ListGame, ResetIndex,
                card, Destination
  <2>2. CASE dirs' = dirs
    BY <1>1, <2>2 DEF Typed, TypeOK
  <2>3. ASSUME NEW d \in AllGames \X Names, dirs' = dirs \union {d}
        PROVE  (dirs \union marked)' \subseteq AllGames \X Names /\ IsFiniteSet(dirs')
    <3>1. IsFiniteSet(dirs')
      BY <2>3, FS_AddElement DEF Typed
    <3>2. (dirs \union marked)' \subseteq AllGames \X Names
      BY <1>1, <2>3 DEF Typed, TypeOK
    <3> QED
      BY <3>1, <3>2
  <2> QED
    BY <2>1, <2>2, <2>3
<1> QED
  BY <1>1, <1>3, <1>4, <1>5, <1>6 DEF Typed, TypeOK, uiOnly

LEMMA ListingType ==
  ASSUME Typed, NEW g
  PROVE  /\ IsFiniteSet(Listing(g))
         /\ Listing(g) \subseteq [game : AllGames, name : Names, on : BOOLEAN]
<1> DEFINE Off == {e \in Listing(g) : ~e.on}
           On  == {e \in Listing(g) : e.on}
<1>1. \A d \in dirs \union marked : d = <<d[1], d[2]>> /\ d[1] \in AllGames /\ d[2] \in Names
  BY DEF Typed, TypeOK
<1>2. Listing(g) \subseteq [game : AllGames, name : Names, on : BOOLEAN]
  <2>1. ASSUME NEW d \in dirs \union marked, NEW b \in BOOLEAN
        PROVE  Entry(d, b) \in [game : AllGames, name : Names, on : BOOLEAN]
    BY <1>1, <2>1 DEF Entry
  <2> QED
    BY <2>1 DEF Listing
<1>3. IsFiniteSet(Off)
  <2> DEFINE f == [e \in Off |-> <<e.game, e.name>>]
  <2>1. \A e \in Off : f[e] \in dirs
    BY <1>1 DEF Listing, Entry
  <2>2. \A e, h \in Off : f[e] = f[h] => e = h
    BY <1>2
  <2>3. f \in Injection(Off, dirs)
    BY <2>1, <2>2 DEF Injection, IsInjective
  <2> HIDE DEF f, Off
  <2> QED
    BY <2>3, FS_Injection DEF Typed
<1>4. IsFiniteSet(On)
  <2> DEFINE f == [e \in On |-> <<e.game, e.name>>]
  <2>1. \A e \in On : f[e] \in marked
    BY <1>1 DEF Listing, Entry
  <2>2. \A e, h \in On : f[e] = f[h] => e = h
    BY <1>2
  <2>3. f \in Injection(On, marked)
    BY <2>1, <2>2 DEF Injection, IsInjective
  <2> HIDE DEF f, On
  <2> QED
    BY <2>3, FS_Injection DEF Typed
<1>5. Listing(g) = Off \union On
  BY <1>2
<1> QED
  BY <1>2, <1>3, <1>4, <1>5, FS_Union

(* The handlers of a frame that start and end no task.                      *)
LEMMA TypedMenu ==
  ASSUME Typed,
         \/ OpenGame \/ ChangeMenu \/ MoveCursor \/ AskCopy \/ AskAdd
         \/ Dismiss \/ Refuse \/ NotReady \/ CollectAdd
  PROVE  Typed'
<1> USE DEF Typed, TypeOK, card, screen
<1>1. CASE OpenGame
  <2>1. PICK i \in DOMAIN entries :
          /\ menu' = "modlist" /\ index' = i /\ listOf' = entries[i]
          /\ modInfo' = SetToSeq(Listing(entries[i])) /\ modIndex' = 1
          /\ UNCHANGED <<dialog, ask, offered, uninstalling, cleaning, copy,
                         adds, addTask, entries, card>>
    BY <1>1 DEF OpenGame
  <2>2. modInfo' \in Seq([game : AllGames, name : Names, on : BOOLEAN])
    <3> DEFINE L == Listing(entries[i])
    <3>1. IsFiniteSet(L) /\ L \subseteq [game : AllGames, name : Names, on : BOOLEAN]
      BY ListingType
    <3>2. modInfo' = SetToSeq(L)
      BY <2>1
    <3> HIDE DEF L
    <3>3. SetToSeq(L) \in Seq(L)
      BY <3>1, SetToSeqLists
    <3> QED
      BY ONLY <3>1, <3>2, <3>3, SeqMonotonic
  <2> QED
    BY <2>1, <2>2
<1>2. CASE ChangeMenu \/ MoveCursor
  BY <1>2 DEF ChangeMenu, MoveCursor
<1>3. CASE AskCopy
  BY <1>3 DEF AskCopy, Ops
<1>4. CASE AskAdd \/ Dismiss \/ Refuse \/ NotReady
  BY <1>4 DEF AskAdd, Dismiss, Refuse, NotReady
<1>5. CASE CollectAdd
  BY <1>5, AddsShape DEF CollectAdd
<1> QED
  BY <1>1, <1>2, <1>3, <1>4, <1>5

LEMMA TypedStart ==
  ASSUME Typed, StartCopy \/ StartAdd
  PROVE  Typed'
<1> USE DEF Typed, TypeOK, card, screen
<1>1. CASE StartCopy
  <2>1. /\ copy'.n = copy.n + 1 /\ copy'.op = ask /\ copy'.pc = "running"
        /\ copy.n < MaxCopies /\ dialog = "ask" /\ dialog' = "progress" /\ ask' = "none"
        /\ uninstalling' \in BOOLEAN
        /\ UNCHANGED <<screen, modInfo, offered, cleaning, adds, addTask, entries, card>>
    BY <1>1 DEF StartCopy
  <2>2. copy'.n \in 0..MaxCopies
    BY <2>1, BoundsAssumption
  <2> QED
    BY <2>1, <2>2
<1>2. CASE StartAdd
  <2>1. PICK S \in SUBSET offered \ {{}}, g \in AllGames :
          /\ adds' = Append(adds, [new |-> menu = "addgame", game |-> g,
                                   todo |-> SetToSeq(S), pc |-> "start", stop |-> FALSE])
          /\ addTask' = Len(adds')
          /\ dialog' = "progress" /\ offered' = {}
          /\ UNCHANGED <<screen, modInfo, ask, uninstalling, cleaning, copy, entries, card>>
    BY <1>2 DEF StartAdd
  <2> DEFINE r == [new |-> menu = "addgame", game |-> g,
                   todo |-> SetToSeq(S), pc |-> "start", stop |-> FALSE]
  <2>2. IsFiniteSet(S) /\ S \subseteq Zips
    BY FS_Subset, FiniteAssumption
  <2>3. SetToSeq(S) \in Seq(Zips)
    BY <2>2, SetToSeqLists, SeqMonotonic
  <2>4. r \in Worker /\ r.pc = "start"
    BY <2>3 DEF Worker
  <2> HIDE DEF r
  <2>5. /\ adds' \in Seq(Worker) /\ Len(adds') = Len(adds) + 1
        /\ \A i \in 1..Len(adds) : adds'[i] = adds[i]
        /\ adds'[Len(adds) + 1] = r
    BY <2>1, <2>4, AppendProperties DEF r
  <2>6. DOMAIN adds' = 1..(Len(adds) + 1) /\ DOMAIN adds = 1..Len(adds) /\ Len(adds) \in Nat
    BY <2>5, AddsShape, LenProperties
  <2>7. \A w \in DOMAIN adds' : adds'[w].pc = "file" => adds'[w].todo # <<>>
    <3> SUFFICES ASSUME NEW w \in DOMAIN adds', adds'[w].pc = "file"
                 PROVE  adds'[w].todo # <<>>
      OBVIOUS
    <3>1. w # Len(adds) + 1
      BY <2>4, <2>5
    <3>2. w \in DOMAIN adds /\ adds'[w] = adds[w]
      BY <2>5, <2>6, <3>1
    <3> QED
      BY <3>2
  <2>8. addTask' \in 0..Len(adds')
    BY <2>1, <2>5, <2>6
  <2> QED
    BY <2>1, <2>5, <2>7, <2>8
<1> QED
  BY <1>1, <1>2

LEMMA TypedStop ==
  ASSUME Typed, Guarded, StopCopy \/ LeaveAdd \/ RunCopy
  PROVE  Typed'
<1> USE DEF Typed, TypeOK, card, screen
<1>1. CASE StopCopy \/ RunCopy
  <2>1. /\ copy'.n = copy.n /\ copy'.op = copy.op /\ copy'.pc \in {copy.pc, "ended"}
    BY <1>1 DEF StopCopy, RunCopy, Guarded, CopyShape
  <2>2. UNCHANGED <<screen, modInfo, dialog, ask, offered, uninstalling, cleaning,
                    adds, addTask, entries, card>>
    BY <1>1 DEF StopCopy, RunCopy
  <2> QED
    BY <2>1, <2>2
<1>2. CASE LeaveAdd
  <2>1. /\ adds' = [adds EXCEPT ![addTask].stop = TRUE] /\ addTask # 0
        /\ dialog' = "tell"
        /\ UNCHANGED <<screen, modInfo, ask, offered, uninstalling, cleaning, copy,
                       addTask, entries, card>>
    BY <1>2 DEF LeaveAdd
  <2>2. addTask \in 1..Len(adds) /\ addTask \in DOMAIN adds /\ adds[addTask] \in Worker
    BY <2>1, AddsShape
  <2>3. [adds[addTask] EXCEPT !.stop = TRUE] \in Worker
    BY <2>2 DEF Worker
  <2>4. /\ DOMAIN adds' = DOMAIN adds /\ Len(adds') = Len(adds) /\ adds' \in Seq(Worker)
        /\ \A v \in DOMAIN adds : v # addTask => adds'[v] = adds[v]
        /\ adds'[addTask] = [adds[addTask] EXCEPT !.stop = TRUE]
    BY <2>1, <2>2, <2>3, WorkerSet
  <2>5. \A v \in DOMAIN adds' : adds'[v].pc = adds[v].pc /\ adds'[v].todo = adds[v].todo
    BY <2>2, <2>4 DEF Worker
  <2> QED
    BY <2>1, <2>4, <2>5
<1> QED
  BY <1>1, <1>2

LEMMA SelectedType ==
  ASSUME Typed, NEW e \in Selected
  PROVE  /\ e.on \in BOOLEAN
         /\ modIndex \in DOMAIN modInfo => e = modInfo[modIndex]
BY AddsShape DEF Selected

LEMMA TypedRename ==
  ASSUME Typed, NEW e \in Selected, ChangeModName(e)
  PROVE  /\ modInfo' \in Seq([game : AllGames, name : Names, on : BOOLEAN])
         /\ Len(modInfo') = Len(modInfo) /\ DOMAIN modInfo' = DOMAIN modInfo
         /\ (dirs \union marked)' \subseteq AllGames \X Names
         /\ IsFiniteSet(dirs)' /\ IsFiniteSet(marked)'
<1> DEFINE Mod == [game : AllGames, name : Names, on : BOOLEAN]
           d == <<e.game, e.name>>
<1>1. modInfo' = modInfo \/ modInfo' = [modInfo EXCEPT ![modIndex].on = ~e.on]
  BY DEF ChangeModName
<1>2. modInfo' \in Seq(Mod) /\ Len(modInfo') = Len(modInfo) /\ DOMAIN modInfo' = DOMAIN modInfo
  <2>1. CASE modInfo' = modInfo
    BY <2>1 DEF Typed, TypeOK
  <2>2. CASE modInfo' = [modInfo EXCEPT ![modIndex].on = ~e.on] /\ modIndex \in DOMAIN modInfo
    <3>1. modIndex \in 1..Len(modInfo) /\ modInfo[modIndex] \in Mod /\ modInfo \in Seq(Mod)
      BY <2>2, AddsShape
    <3>2. [modInfo[modIndex] EXCEPT !.on = ~e.on] \in Mod
      BY <3>1
    <3>3. modInfo' = [modInfo EXCEPT ![modIndex] = [modInfo[modIndex] EXCEPT !.on = ~e.on]]
      BY <2>2
    <3> QED
      BY <3>1, <3>2, <3>3, ExceptSeq, AddsShape, LenProperties
  <2>3. CASE modInfo' = [modInfo EXCEPT ![modIndex].on = ~e.on] /\ modIndex \notin DOMAIN modInfo
    <3>1. modInfo \in Seq(Mod) /\ modInfo = [i \in DOMAIN modInfo |-> modInfo[i]]
      BY AddsShape
    <3>2. modInfo' = [i \in DOMAIN modInfo |-> modInfo[i]]
      BY <2>3, <3>1
    <3> QED
      BY <3>1, <3>2
  <2> QED
    BY <1>1, <2>1, <2>2, <2>3
<1>3. \/ UNCHANGED <<dirs, marked>>
      \/ d \in marked /\ marked' = marked \ {d} /\ dirs' = dirs \union {d}
      \/ d \in dirs /\ dirs' = dirs \ {d} /\ marked' = marked \union {d}
  BY DEF ChangeModName, Renamed, NotRenamed
<1> HIDE DEF d
<1>4. (dirs \union marked)' \subseteq AllGames \X Names
  BY <1>3 DEF Typed, TypeOK
<1>5. IsFiniteSet(dirs') /\ IsFiniteSet(marked')
  BY <1>3, FS_AddElement, FS_RemoveElement DEF Typed
<1> QED
  BY <1>2, <1>4, <1>5

LEMMA TypedCollect ==
  ASSUME Typed, CollectCopy
  PROVE  Typed'
<1> USE DEF Typed, TypeOK, card, screen
<1>1. PICK e \in Selected :
        /\ copy' = [NoCopy EXCEPT !.n = copy.n] /\ cleaning' = FALSE /\ dialog' = "tell"
        /\ uninstalling' \in BOOLEAN
        /\ ChangeModName(e) \/ UNCHANGED <<dirs, marked, modInfo>>
        /\ UNCHANGED <<screen, ask, offered, adds, addTask, entries, gameDirs, inbox>>
  BY DEF CollectCopy
<1>2. copy'.n = copy.n /\ copy'.op = "install" /\ copy'.pc = "ended"
  BY <1>1 DEF NoCopy
<1>3. /\ modInfo' \in Seq([game : AllGames, name : Names, on : BOOLEAN])
      /\ modIndex = 1 \/ modIndex \in DOMAIN modInfo'
      /\ (dirs \union marked)' \subseteq AllGames \X Names
      /\ IsFiniteSet(dirs)' /\ IsFiniteSet(marked)'
  BY <1>1, TypedRename
<1> QED
  BY <1>1, <1>2, <1>3 DEF Ops

LEMMA TypedStep ==
  ASSUME Typed, Guarded, [Next]_vars
  PROVE  Typed'
<1>1. CASE UNCHANGED vars
  BY <1>1 DEF vars, card, screen, Typed, TypeOK
<1>2. CASE Next
  BY <1>2, TypedMenu, TypedStart, TypedStop, TypedCollect, TypedAdd DEF Next, Frame
<1> QED
  BY <1>1, <1>2

LEMMA TypedInit == Init => Typed
<1> SUFFICES ASSUME Init PROVE Typed
  OBVIOUS
<1>1. /\ entries \in Seq(AllGames)
      /\ adds = <<>> /\ modInfo = <<>> /\ adds \in Seq(Worker) /\ DOMAIN adds = {}
      /\ modInfo \in Seq([game : AllGames, name : Names, on : BOOLEAN])
      /\ Len(adds) = 0
  <2>1. SetToSeq(Games) \in Seq(AllGames)
    BY SetToSeqLists, FiniteAssumption, SeqMonotonic DEF AllGames
  <2> QED
    BY <2>1, EmptySeq DEF Init
<1>2. IsFiniteSet(dirs) /\ IsFiniteSet(marked) /\ dirs \union marked \subseteq AllGames \X Names
  BY FS_Subset, FiniteAssumption, FirstModsAssumption DEF Init, AllGames
<1>3. copy.n = 0 /\ copy.op = "install" /\ copy.pc = "ended" /\ 0 \in 0..MaxCopies
  BY BoundsAssumption DEF Init, NoCopy
<1>4. /\ menu = "list" /\ index = 1 /\ modIndex = 1 /\ dialog = "none" /\ ask = "none"
      /\ offered = {} /\ uninstalling = FALSE /\ cleaning = FALSE /\ addTask = 0
      /\ gameDirs \subseteq AllGames /\ inbox \subseteq Zips
  BY DEF Init, AllGames
<1>5. TypeOK
  <2>1. addTask \in 0..Len(adds)
    BY <1>1, <1>4
  <2>2. copy.n \in 0..MaxCopies /\ copy.op \in Ops /\ copy.pc \in {"running", "ended"}
    BY <1>3 DEF Ops
  <2>3. /\ menu \in {"list", "modlist", "addgame"}
        /\ dialog \in {"none", "ask", "tell", "pick", "progress"}
        /\ ask \in Ops \union {"none"} /\ offered \subseteq Zips
        /\ uninstalling \in BOOLEAN /\ cleaning \in BOOLEAN
    BY <1>4
  <2> QED
    BY <1>1, <1>2, <1>4, <2>1, <2>2, <2>3 DEF TypeOK
<1> QED
  BY <1>1, <1>2, <1>4, <1>5 DEF Typed

(* Every list, question, task and directory of App has its type, and the    *)
(* two cursors stay in their lists: a worker that prepends a game or files  *)
(* an archive under them only makes the lists longer.                       *)
THEOREM TasksTyped == Spec => []TypeOK
<1>1. Init => Guarded /\ Typed
  BY GuardedInit, TypedInit
<1>2. Guarded /\ Typed /\ [Next]_vars => (Guarded /\ Typed)'
  BY GuardedStep, TypedStep
<1>3. Guarded /\ Typed => TypeOK
  BY DEF Typed
<1> QED
  BY <1>1, <1>2, <1>3, PTL DEF Spec

(***************************************************************************)
(* What holds as long as no add was left with B.                           *)
(***************************************************************************)

(* The progress dialog belongs to one task, which copy_task or add_task     *)
(* holds; nothing runs behind another dialog.                               *)
Alone ==
  /\ copy.valid => addTask = 0 /\ dialog = "progress"
  /\ addTask # 0 => dialog = "progress"
  /\ \A w \in DOMAIN adds : Running(w) => w = addTask

(* A worker adds to the game that is shown, or while no game is shown.      *)
Chosen ==
  /\ dialog = "pick" => menu # "list" /\ offered \subseteq inbox
  /\ \A w \in DOMAIN adds : Running(w) =>
       /\ menu = IF adds[w].new THEN "addgame" ELSE "modlist"
       /\ ~adds[w].new => adds[w].game = listOf
       /\ adds[w].pc \in {"list", "home"} => adds[w].new
       /\ ToSet(adds[w].todo) \subseteq inbox /\ IsInjective(adds[w].todo)

(* The task and the question before it are about the mod at the cursor.     *)
Verb == IF cleaning \/ modInfo[modIndex].on THEN "uninstall" ELSE "install"
AtCursor ==
  /\ dialog = "ask" \/ copy.valid => menu = "modlist" /\ modIndex \in DOMAIN modInfo
  /\ dialog = "ask" => ask = Verb
  /\ copy.valid => /\ copy.op = Verb
                   /\ copy.mod = <<modInfo[modIndex].game, modInfo[modIndex].name>>

(* The list shows the mods of its game; what it lacks is a directory made   *)
(* for an archive that is still in the drop folder.                         *)
Fits ==
  /\ ToSet(modInfo) \subseteq Listing(listOf)
  /\ \A e \in Listing(listOf) \ ToSet(modInfo) : ~e.on /\ e.name \in inbox

Shown ==
  menu = "modlist" =>
    /\ index \in DOMAIN entries /\ entries[index] = listOf
    /\ ~ListedTwice => Fits

Ordered == Alone /\ Chosen /\ AtCursor /\ Shown
Orderly == NoAddLeft => Ordered

IInv == Guarded /\ Typed /\ Orderly

(* A token that was set stays set, and LeaveAdd sets one.                   *)
LEMMA LeftForGood ==
  ASSUME Typed, [Next]_vars, NoAddLeft'
  PROVE  NoAddLeft /\ ~LeaveAdd
<1>1. ASSUME NEW w \in DOMAIN adds, AddStep(w)
      PROVE  NoAddLeft
  BY <1>1, WorkerAdvances DEF Advances, NoAddLeft
<1>2. CASE StartAdd
  <2>1. PICK r : adds' = Append(adds, r)
    BY <1>2 DEF StartAdd
  <2>2. \A w \in DOMAIN adds : w \in DOMAIN adds' /\ adds'[w] = adds[w]
    BY <2>1, AddsShape DEF Typed
  <2>3. ~LeaveAdd
    BY <1>2 DEF StartAdd, LeaveAdd
  <2> QED
    BY <2>2, <2>3 DEF NoAddLeft
<1>3. ~LeaveAdd
  <2> SUFFICES ASSUME LeaveAdd PROVE FALSE
    OBVIOUS
  <2>1. addTask \in DOMAIN adds /\ adds' = [adds EXCEPT ![addTask].stop = TRUE]
    BY AddsShape DEF LeaveAdd, Typed, TypeOK
  <2>2. addTask \in DOMAIN adds' /\ adds'[addTask].stop = TRUE
    BY <2>1, AddsShape DEF Worker
  <2> QED
    BY <2>2 DEF NoAddLeft
<1>4. CASE UNCHANGED adds
  BY <1>3, <1>4 DEF NoAddLeft
<1>5. CASE OpenGame \/ ChangeMenu \/ MoveCursor \/ AskCopy \/ AskAdd \/ Dismiss \/ Refuse
  BY <1>4, <1>5 DEF OpenGame, ChangeMenu, MoveCursor, AskCopy, AskAdd, Dismiss, Refuse
<1>6. CASE StartCopy \/ NotReady \/ StopCopy \/ CollectCopy \/ CollectAdd \/ RunCopy
  BY <1>4, <1>6 DEF StartCopy, NotReady, StopCopy, CollectCopy, CollectAdd, RunCopy
<1>7. CASE UNCHANGED vars
  BY <1>4, <1>7 DEF vars
<1> QED
  BY <1>1, <1>2, <1>3, <1>5, <1>6, <1>7 DEF Next, Frame

Quiet == ~copy.valid /\ addTask = 0 /\ \A w \in DOMAIN adds : ~Running(w)

(* Behind any dialog but that of a task, no task is left.                   *)
LEMMA QuietElsewhere ==
  ASSUME Typed, Alone, dialog # "progress"
  PROVE  Quiet
BY AddsShape DEF Alone, Quiet

(* While a worker runs, its dialog is shown and no mod is copied.           *)
LEMMA BusyAdding ==
  ASSUME Typed, Guarded, Alone, NEW w \in DOMAIN adds, Running(w)
  PROVE  ~copy.valid /\ w = addTask /\ dialog = "progress"
BY AddsShape DEF Alone, Guarded, CopyShape

LEMMA ListingIs ==
  Typed => \A g : Listing(g) = {x \in [game : {g}, name : Names, on : BOOLEAN] :
                                  <<g, x.name>> \in IF x.on THEN marked ELSE dirs}
<1> SUFFICES ASSUME Typed, NEW g
             PROVE  Listing(g) = {x \in [game : {g}, name : Names, on : BOOLEAN] :
                                    <<g, x.name>> \in IF x.on THEN marked ELSE dirs}
  OBVIOUS
<1>1. \A d \in dirs \union marked : d = <<d[1], d[2]>> /\ d[2] \in Names
  BY DEF Typed, TypeOK
<1>2. ASSUME NEW x \in Listing(g)
      PROVE  x \in [game : {g}, name : Names, on : BOOLEAN] /\ <<g, x.name>> \in IF x.on THEN marked ELSE dirs
  <2>1. CASE x \in {Entry(d, FALSE) : d \in dirs}
    <3>1. PICK d \in dirs : x = Entry(d, FALSE)
      BY <2>1
    <3>2. x.game = g /\ x = [game |-> d[1], name |-> d[2], on |-> FALSE]
      BY <3>1 DEF Listing, Entry
    <3> QED
      BY <1>1, <3>2
  <2>2. CASE x \in {Entry(d, TRUE) : d \in marked}
    <3>1. PICK d \in marked : x = Entry(d, TRUE)
      BY <2>2
    <3>2. x.game = g /\ x = [game |-> d[1], name |-> d[2], on |-> TRUE]
      BY <3>1 DEF Listing, Entry
    <3> QED
      BY <1>1, <3>2
  <2> QED
    BY <2>1, <2>2 DEF Listing
<1>3. ASSUME NEW x \in [game : {g}, name : Names, on : BOOLEAN],
             <<g, x.name>> \in IF x.on THEN marked ELSE dirs
      PROVE  x \in Listing(g)
  <2>1. x = Entry(<<g, x.name>>, x.on) /\ x.game = g
    BY DEF Entry
  <2>2. CASE x.on = TRUE
    <3>1. x \in {Entry(d, TRUE) : d \in marked}
      BY <1>3, <2>1, <2>2
    <3> QED
      BY <2>1, <3>1 DEF Listing
  <2>3. CASE x.on = FALSE
    <3>1. x \in {Entry(d, FALSE) : d \in dirs}
      BY <1>3, <2>1, <2>3
    <3> QED
      BY <2>1, <3>1 DEF Listing
  <2> QED
    BY <2>2, <2>3
<1> QED
  BY <1>2, <1>3

LEMMA ListingIsNext ==
  Typed' => \A g : (Listing(g))' = {x \in [game : {g}, name : Names, on : BOOLEAN] :
                                    <<g, x.name>> \in IF x.on THEN marked' ELSE dirs'}
<1>1. (Typed => \A g : Listing(g) = {x \in [game : {g}, name : Names, on : BOOLEAN] :
                                    <<g, x.name>> \in IF x.on THEN marked ELSE dirs})'
  BY ListingIs, PTL
<1> QED
  BY <1>1

(***************************************************************************)
(* The list of mods while the card changes under it.                       *)
(***************************************************************************)

(* CollectCopy changes the name of a directory and the entry at the cursor. *)
LEMMA RenameFits ==
  ASSUME Typed, Typed', ~ListedTwice', ~ListedTwice => Fits,
         modIndex \in DOMAIN modInfo, NEW e, e = modInfo[modIndex],
         ChangeModName(e), UNCHANGED <<listOf, modIndex, inbox>>
  PROVE  Fits'
<1> DEFINE Mod == [game : AllGames, name : Names, on : BOOLEAN]
           d == <<e.game, e.name>>
           f == [modInfo[modIndex] EXCEPT !.on = ~e.on]
<1>1. /\ DOMAIN modInfo = 1..Len(modInfo) /\ modInfo \in [1..Len(modInfo) -> Mod]
      /\ e \in Mod
  BY AddsShape
<1>2. CASE UNCHANGED <<dirs, marked, modInfo>>
  <2>1. (Listing(listOf))' = Listing(listOf)
    BY <1>2, ListingIs, ListingIsNext, ZenonT(60)
  <2>2. Fits
    BY <1>2 DEF ListedTwice
  <2> QED
    BY <1>2, <2>1, <2>2 DEF Fits
<1>3. CASE Renamed(e) /\ modInfo' = [modInfo EXCEPT ![modIndex].on = ~e.on]
  <2>1. /\ DOMAIN modInfo' = DOMAIN modInfo
        /\ modInfo'[modIndex] = f
        /\ \A i \in DOMAIN modInfo : i # modIndex => modInfo'[i] = modInfo[i]
    BY <1>1, <1>3
  <2>2. /\ f \in Mod /\ f.game = e.game /\ f.name = e.name /\ f.on = ~e.on
    BY <1>1
  <2> HIDE DEF f
  <2>3. \A i \in DOMAIN modInfo : modInfo'[i].name = modInfo[i].name
    BY <2>1, <2>2
  <2>4. /\ \A i, j \in DOMAIN modInfo : i # j => modInfo[i].name # modInfo[j].name
        /\ Fits
    BY <2>1, <2>3 DEF ListedTwice
  <2>5. e \in Listing(listOf) /\ \A i \in DOMAIN modInfo : modInfo[i] \in Listing(listOf)
    BY <2>4 DEF Fits, ToSet
  <2>6. /\ \A x \in Listing(listOf) : x.game = listOf /\ x.on \in BOOLEAN
        /\ e.game = listOf
    <3>1. \A x \in Listing(listOf) : x \in [game : {listOf}, name : Names, on : BOOLEAN]
      BY ListingIs
    <3> QED
      BY <2>5, <3>1
  <2>7. \A x : x.name # e.name => (x \in Listing(listOf) <=> x \in (Listing(listOf))')
    <3> SUFFICES ASSUME NEW x, x.name # e.name
                 PROVE  x \in Listing(listOf) <=> x \in (Listing(listOf))'
      OBVIOUS
    <3>1. <<listOf, x.name>> # d
      OBVIOUS
    <3>2. /\ <<listOf, x.name>> \in marked <=> <<listOf, x.name>> \in marked'
          /\ <<listOf, x.name>> \in dirs <=> <<listOf, x.name>> \in dirs'
      BY <1>3, <3>1 DEF Renamed
    <3> QED
      BY <3>2, ListingIs, ListingIsNext
  <2>8. f \in (Listing(listOf))'
    <3>1. <<listOf, f.name>> \in IF f.on THEN marked' ELSE dirs'
      BY <1>1, <1>3, <2>2, <2>6 DEF Renamed
    <3>2. f \in [game : {listOf}, name : Names, on : BOOLEAN]
      BY <2>2, <2>6
    <3> QED
      BY <3>1, <3>2, ListingIsNext
  <2>9. ToSet(modInfo)' \subseteq (Listing(listOf))'
    <3> SUFFICES ASSUME NEW i \in DOMAIN modInfo'
                 PROVE  modInfo'[i] \in (Listing(listOf))'
      BY DEF ToSet
    <3>1. CASE i = modIndex
      BY <2>1, <2>8, <3>1
    <3>2. CASE i # modIndex
      BY <2>1, <2>4, <2>5, <2>7, <3>2
    <3> QED
      BY <3>1, <3>2
  <2>10. ASSUME NEW x \in (Listing(listOf))' \ ToSet(modInfo)'
         PROVE  ~x.on /\ x.name \in inbox'
    <3>1. CASE x.name = e.name
      <4>1. x \in [game : {listOf}, name : Names, on : BOOLEAN] /\ d \in IF x.on THEN marked' ELSE dirs'
        BY <2>6, <2>10, <3>1, ListingIsNext
      <4>2. x.on = ~e.on
        BY <1>1, <1>3, <4>1 DEF Renamed
      <4>3. x = f
        BY <2>2, <2>6, <3>1, <4>1, <4>2
      <4>4. f \in ToSet(modInfo)'
        BY <2>1 DEF ToSet
      <4> QED
        BY <2>10, <4>3, <4>4
    <3>2. CASE x.name # e.name
      <4>1. x \in Listing(listOf)
        BY <2>7, <2>10, <3>2
      <4>2. x \notin ToSet(modInfo)
        <5> SUFFICES ASSUME NEW i \in DOMAIN modInfo, x = modInfo[i]
                     PROVE  FALSE
          BY DEF ToSet
        <5>1. i # modIndex
          BY <3>2
        <5>2. x = modInfo'[i] /\ i \in DOMAIN modInfo'
          BY <2>1, <5>1
        <5> QED
          BY <2>10, <5>2 DEF ToSet
      <4> QED
        BY <2>4, <4>1, <4>2 DEF Fits
    <3> QED
      BY <3>1, <3>2
  <2> QED
    BY <2>9, <2>10 DEF Fits
<1> QED
  BY <1>2, <1>3 DEF ChangeModName

(* FileZip lists the mod it makes.                                          *)
LEMMA FileFits ==
  ASSUME Typed, Typed', ~ListedTwice', ~ListedTwice => Fits, NEW zip \in Zips,
         dirs' = dirs \union {<<listOf, zip>>},
         modInfo' = Append(modInfo, [game |-> listOf, name |-> zip, on |-> FALSE]),
         listOf \in AllGames, inbox' = inbox \ {zip}, UNCHANGED <<listOf, marked>>
  PROVE  Fits'
<1> DEFINE f == [game |-> listOf, name |-> zip, on |-> FALSE]
           n == Len(modInfo) + 1
<1>1. /\ DOMAIN modInfo = 1..Len(modInfo) /\ Len(modInfo) \in Nat
      /\ f \in [game : AllGames, name : Names, on : BOOLEAN]
  BY AddsShape, ZipsAssumption
<1>2. /\ DOMAIN modInfo' = 1..n /\ modInfo'[n] = f
      /\ \A i \in DOMAIN modInfo : modInfo'[i] = modInfo[i] /\ i \in DOMAIN modInfo'
  <2>1. /\ modInfo' = Append(modInfo, f) /\ modInfo' \in Seq([game : AllGames, name : Names, on : BOOLEAN])
        /\ Len(modInfo') = n
    BY <1>1, AppendProperties DEF Typed, TypeOK
  <2>2. DOMAIN modInfo' = 1..n
    BY <2>1, LenProperties
  <2> HIDE DEF f
  <2>3. /\ \A i \in 1..Len(modInfo) : Append(modInfo, f)[i] = modInfo[i]
        /\ Append(modInfo, f)[Len(modInfo) + 1] = f
    BY <1>1, AppendProperties DEF Typed, TypeOK
  <2>4. \A i \in 1..Len(modInfo) : i \in 1..n
    BY <1>1
  <2> QED
    BY <1>1, <2>1, <2>2, <2>3, <2>4
<1>3. n \in DOMAIN modInfo' /\ n \notin DOMAIN modInfo
  BY <1>1, <1>2
<1>4. f.game = listOf /\ f.name = zip /\ f.on = FALSE /\ f \in [game : {listOf}, name : Names, on : BOOLEAN]
  BY <1>1
<1> HIDE DEF f, n
<1>5. \A i, j \in DOMAIN modInfo : i # j => modInfo[i].name # modInfo[j].name
  BY <1>2 DEF ListedTwice
<1>6. Fits
  BY <1>5 DEF ListedTwice
<1>7. \A x : x \in (Listing(listOf))' <=> x \in Listing(listOf) \/ x = f
  <2> SUFFICES ASSUME NEW x
               PROVE  x \in (Listing(listOf))' <=> x \in Listing(listOf) \/ x = f
    OBVIOUS
  <2>1. CASE x = f
    <3>1. <<listOf, f.name>> \in IF f.on THEN marked' ELSE dirs'
      BY <1>4
    <3> QED
      BY <1>4, <2>1, <3>1, ListingIsNext, ZenonT(60)
  <2>2. CASE x # f
    <3>1. x \in [game : {listOf}, name : Names, on : BOOLEAN] /\ ~x.on => x.name # zip
      BY <2>2 DEF f
    <3>2. x \in [game : {listOf}, name : Names, on : BOOLEAN] =>
            ((<<listOf, x.name>> \in IF x.on THEN marked' ELSE dirs') <=>
             (<<listOf, x.name>> \in IF x.on THEN marked ELSE dirs))
      BY <3>1
    <3> QED
      BY <2>2, <3>2, ListingIs, ListingIsNext
  <2> QED
    BY <2>1, <2>2
<1>8. \A x : x \in ToSet(modInfo)' <=> x \in ToSet(modInfo) \/ x = f
  <2>1. \A i \in DOMAIN modInfo' : i \in DOMAIN modInfo \/ i = n
    BY <1>1, <1>2 DEF n
  <2> QED
    BY <1>2, <1>3, <2>1 DEF ToSet
<1>9. ASSUME NEW x \in (Listing(listOf))' \ ToSet(modInfo)'
      PROVE  ~x.on /\ x.name \in inbox'
  <2>1. x \in Listing(listOf) \ ToSet(modInfo) /\ x # f
    BY <1>7, <1>8, <1>9
  <2>2. ~x.on /\ x.name \in inbox
    BY <1>6, <2>1 DEF Fits
  <2>3. x \in [game : {listOf}, name : Names, on : BOOLEAN]
    BY <2>1, ListingIs
  <2>4. x.name # zip
    BY <2>1, <2>2, <2>3 DEF f
  <2> QED
    BY <2>2, <2>4
<1> QED
  BY <1>6, <1>7, <1>8, <1>9 DEF Fits

(* SkipZip may leave the directory it made for an archive of the folder.    *)
LEMMA SkipFits ==
  ASSUME Typed, Typed', ~ListedTwice', ~ListedTwice => Fits, NEW zip \in inbox,
         dirs' \in {dirs, dirs \union {<<listOf, zip>>}},
         UNCHANGED <<modInfo, listOf, marked, inbox>>
  PROVE  Fits'
<1>1. Fits
  BY DEF ListedTwice
<1>2. ASSUME NEW x \in Listing(listOf)
      PROVE  x \in (Listing(listOf))'
  <2>1. /\ x \in [game : {listOf}, name : Names, on : BOOLEAN]
        /\ <<listOf, x.name>> \in IF x.on THEN marked ELSE dirs
    BY ListingIs
  <2>2. <<listOf, x.name>> \in IF x.on THEN marked' ELSE dirs'
    BY <2>1
  <2> QED
    BY <2>1, <2>2, ListingIsNext
<1>3. ASSUME NEW x \in (Listing(listOf))', x \notin Listing(listOf)
      PROVE  ~x.on /\ x.name = zip
  <2>1. /\ x \in [game : {listOf}, name : Names, on : BOOLEAN]
        /\ <<listOf, x.name>> \in IF x.on THEN marked' ELSE dirs'
        /\ <<listOf, x.name>> \notin IF x.on THEN marked ELSE dirs
    BY <1>3, ListingIs, ListingIsNext
  <2> QED
    BY <2>1
<1> QED
  BY <1>1, <1>2, <1>3 DEF Fits

(* Nothing else of what the list depends on moves.                          *)
LEMMA SameFits ==
  ASSUME Typed, Typed', ~ListedTwice', ~ListedTwice => Fits,
         UNCHANGED <<modInfo, listOf, dirs, marked, inbox>>
  PROVE  Fits'
<1>1. (Listing(listOf))' = Listing(listOf)
  BY ListingIs, ListingIsNext, ZenonT(60)
<1>2. Fits
  BY DEF ListedTwice
<1> QED
  BY <1>1, <1>2 DEF Fits

-----------------------------------------------------------------------------
(* The steps.                                                               *)

LEMMA CursorInList ==
  ASSUME Typed, modInfo # <<>>
  PROVE  modIndex \in DOMAIN modInfo
<1>1. Len(modInfo) \in Nat \ {0} /\ DOMAIN modInfo = 1..Len(modInfo)
  BY AddsShape, EmptySeq DEF Typed, TypeOK
<1>2. 1 \in DOMAIN modInfo
  BY <1>1
<1> QED
  BY <1>2 DEF Typed, TypeOK

(* The menus and the dialogs without a task behind them.                    *)
LEMMA OrderedMenu ==
  ASSUME Guarded, Typed, Typed', Ordered,
         \/ OpenGame \/ ChangeMenu \/ MoveCursor \/ AskCopy \/ AskAdd
         \/ Dismiss \/ Refuse \/ NotReady
  PROVE  Ordered'
<1>1. /\ dialog # "progress" /\ UNCHANGED <<copy, adds, addTask, entries, card>>
      /\ dialog' # "progress"
  BY DEF OpenGame, ChangeMenu, MoveCursor, AskCopy, AskAdd, Dismiss, Refuse, NotReady, MenuActive
<1>2. Quiet
  BY <1>1, QuietElsewhere DEF Ordered
<1>3. Alone' /\ \A w \in DOMAIN adds' : ~Running(w)'
  BY <1>1, <1>2 DEF Alone, Quiet, Running
<1>4. ~copy'.valid /\ ~NotReady
  BY <1>1, <1>2 DEF Quiet, NotReady, StillCopying
<1>5. Chosen'
  <2>1. dialog' = "pick" => menu' # "list" /\ offered' \subseteq inbox'
    BY DEF OpenGame, ChangeMenu, MoveCursor, AskCopy, AskAdd, Dismiss, Refuse, NotReady, MenuActive,
           screen, card
  <2> QED
    BY <1>3, <2>1 DEF Chosen, Running
<1>6. AtCursor'
  <2>1. CASE AskCopy
    <3>1. /\ menu' = "modlist" /\ modIndex' = modIndex /\ modInfo' = modInfo
          /\ ask' = IF cleaning' \/ modInfo[modIndex].on THEN "uninstall" ELSE "install"
          /\ modInfo # <<>>
      BY <2>1 DEF AskCopy, screen
    <3> QED
      BY <1>4, <3>1, CursorInList DEF AtCursor, Verb
  <2>2. CASE ~AskCopy
    <3>1. dialog' # "ask"
      BY <1>4, <2>2 DEF OpenGame, ChangeMenu, MoveCursor, AskAdd, Dismiss, Refuse, MenuActive
    <3> QED
      BY <1>4, <3>1 DEF AtCursor
  <2> QED
    BY <2>1, <2>2
<1>7. Shown'
  <2>1. CASE OpenGame
    <3>1. PICK i \in DOMAIN entries :
            /\ index' = i /\ listOf' = entries[i]
            /\ modInfo' = SetToSeq(Listing(entries[i]))
      BY <2>1 DEF OpenGame
    <3> DEFINE L == Listing(entries[i])
    <3>2. (Listing(listOf))' = L
      BY <1>1, <3>1 DEF Listing, card
    <3>3. IsFiniteSet(L)
      BY ListingType
    <3> HIDE DEF L
    <3>4. ToSet(SetToSeq(L)) = L
      BY <3>3, SetToSeqLists
    <3>5. ToSet(modInfo)' = L
      BY <3>1, <3>4 DEF L
    <3>6. Fits'
      BY <3>2, <3>5 DEF Fits
    <3> QED
      BY <1>1, <3>1, <3>6 DEF Shown
  <2>2. CASE ChangeMenu
    BY <2>2 DEF ChangeMenu, Shown
  <2>3. CASE MoveCursor \/ AskCopy \/ AskAdd \/ Dismiss \/ Refuse
    <3>1. UNCHANGED <<menu, index, listOf, modInfo, entries, dirs, marked, inbox>>
      BY <2>3 DEF MoveCursor, AskCopy, AskAdd, Dismiss, Refuse, screen, card
    <3> QED
      BY <3>1, SameFits DEF Shown, Ordered
  <2> QED
    BY <1>4, <2>1, <2>2, <2>3
<1> QED
  BY <1>3, <1>5, <1>6, <1>7 DEF Ordered

LEMMA OrderedStartCopy ==
  ASSUME Guarded, Typed, Typed', Ordered, StartCopy
  PROVE  Ordered'
<1>1. /\ dialog = "ask" /\ dialog' = "progress"
      /\ copy'.valid = TRUE /\ copy'.op = ask
      /\ copy'.mod = <<modInfo[modIndex].game, modInfo[modIndex].name>>
      /\ UNCHANGED <<menu, index, listOf, modIndex, modInfo, offered, cleaning, adds, addTask,
                     entries, dirs, marked, inbox>>
  BY DEF StartCopy, screen, card
<1>2. Quiet
  BY <1>1, QuietElsewhere DEF Ordered
<1>3. Alone'
  BY <1>1, <1>2 DEF Alone, Quiet, Running
<1>4. Chosen'
  BY <1>1, <1>2 DEF Chosen, Quiet, Running
<1>5. AtCursor'
  BY <1>1 DEF AtCursor, Verb, Ordered
<1>6. Shown'
  BY <1>1, SameFits DEF Shown, Ordered
<1> QED
  BY <1>3, <1>4, <1>5, <1>6 DEF Ordered

LEMMA OrderedStartAdd ==
  ASSUME Guarded, Typed, Typed', Ordered, StartAdd
  PROVE  Ordered'
<1>1. PICK S \in SUBSET offered \ {{}}, g \in AllGames :
        /\ dialog = "pick" /\ (menu = "modlist" => g = entries[index])
        /\ adds' = Append(adds, [new |-> menu = "addgame", game |-> g,
                                 todo |-> SetToSeq(S), pc |-> "start", stop |-> FALSE])
        /\ addTask' = Len(adds') /\ dialog' = "progress"
        /\ UNCHANGED <<menu, index, listOf, modIndex, modInfo, ask, cleaning, copy,
                       entries, dirs, marked, inbox>>
  BY DEF StartAdd, screen, card
<1>2. Quiet /\ menu # "list" /\ offered \subseteq inbox
  BY <1>1, QuietElsewhere DEF Ordered, Chosen
<1> DEFINE r == [new |-> menu = "addgame", game |-> g,
                 todo |-> SetToSeq(S), pc |-> "start", stop |-> FALSE]
           n == Len(adds) + 1
<1>3. /\ r.new = (menu = "addgame") /\ r.game = g /\ r.todo = SetToSeq(S) /\ r.pc = "start"
      /\ r \in Worker
  <2>1. IsFiniteSet(S) /\ S \subseteq Zips
    BY FS_Subset, FiniteAssumption DEF Typed, TypeOK
  <2>2. SetToSeq(S) \in Seq(Zips)
    BY <2>1, SetToSeqLists, SeqMonotonic
  <2> QED
    BY <2>2 DEF Worker
<1>4. ToSet(r.todo) \subseteq inbox /\ IsInjective(r.todo)
  <2>1. IsFiniteSet(S)
    BY FS_Subset, FiniteAssumption DEF Typed, TypeOK
  <2> QED
    BY <1>2, <1>3, <2>1, SetToSeqLists
<1>5. adds' = Append(adds, r)
  BY <1>1
<1> HIDE DEF r
<1>6. /\ DOMAIN adds' = 1..n /\ DOMAIN adds = 1..Len(adds) /\ Len(adds) \in Nat
      /\ \A v \in DOMAIN adds : adds'[v] = adds[v]
      /\ adds'[n] = r /\ addTask' = n
  BY <1>1, <1>3, <1>5, AppendProperties, AddsShape, LenProperties DEF Typed
<1>7. \A v \in DOMAIN adds' : Running(v)' => v = n
  BY <1>2, <1>6 DEF Quiet, Running
<1>8. Alone'
  BY <1>1, <1>2, <1>6, <1>7 DEF Alone, Quiet
<1>9. Chosen'
  <2>1. menu' = IF r.new THEN "addgame" ELSE "modlist"
    BY <1>1, <1>2, <1>3 DEF Typed, TypeOK
  <2>2. ~r.new => r.game = listOf
    BY <1>1, <1>3, <2>1 DEF Ordered, Shown
  <2>3. dialog' # "pick"
    BY <1>1
  <2>4. listOf' = listOf /\ inbox' = inbox
    BY <1>1
  <2> QED
    BY <1>3, <1>4, <1>6, <1>7, <2>1, <2>2, <2>3, <2>4 DEF Chosen
<1>10. AtCursor'
  BY <1>1, <1>2 DEF AtCursor, Quiet
<1>11. Shown'
  BY <1>1, SameFits DEF Shown, Ordered
<1> QED
  BY <1>8, <1>9, <1>10, <1>11 DEF Ordered

(* B while a mod is copied, the end of the copy, and the end of an add.     *)
LEMMA OrderedTask ==
  ASSUME Guarded, Typed, Typed', Ordered, StopCopy \/ RunCopy \/ CollectAdd
  PROVE  Ordered'
<1>1. UNCHANGED <<menu, index, listOf, modIndex, modInfo, ask, offered, cleaning, adds,
                  entries, dirs, marked, inbox>>
  BY DEF StopCopy, RunCopy, CollectAdd, screen, card
<1>2. CASE StopCopy \/ RunCopy
  <2>1. /\ copy'.valid = copy.valid /\ copy'.op = copy.op /\ copy'.mod = copy.mod
        /\ UNCHANGED <<dialog, addTask>>
    BY <1>2 DEF StopCopy, RunCopy, Guarded, CopyShape
  <2>2. Alone' /\ Chosen' /\ AtCursor'
    BY <1>1, <2>1 DEF Ordered, Alone, Chosen, AtCursor, Running, Verb
  <2> QED
    BY <1>1, <2>2, SameFits DEF Ordered, Shown
<1>3. CASE CollectAdd
  <2>1. /\ addTask # 0 /\ ~Running(addTask) /\ addTask' = 0 /\ dialog' = "tell" /\ copy' = copy
    BY <1>3 DEF CollectAdd, AddReady
  <2>2. ~copy.valid /\ \A w \in DOMAIN adds : ~Running(w)
    BY <2>1 DEF Ordered, Alone
  <2>3. Alone' /\ Chosen' /\ AtCursor'
    BY <1>1, <2>1, <2>2 DEF Alone, Chosen, AtCursor, Running
  <2> QED
    BY <1>1, <2>3, SameFits DEF Ordered, Shown
<1> QED
  BY <1>2, <1>3

LEMMA OrderedCollect ==
  ASSUME Guarded, Typed, Typed', Ordered, CollectCopy
  PROVE  Ordered'
<1>1. PICK e \in Selected :
        /\ dialog = "progress" /\ copy.valid
        /\ copy' = [NoCopy EXCEPT !.n = copy.n] /\ dialog' = "tell"
        /\ ChangeModName(e) \/ UNCHANGED <<dirs, marked, modInfo>>
        /\ UNCHANGED <<menu, index, listOf, modIndex, ask, offered, adds, addTask, entries, inbox>>
  BY DEF CollectCopy, CopyReady, screen
<1>2. copy'.valid = FALSE
  BY <1>1 DEF NoCopy
<1>3. /\ addTask = 0 /\ menu = "modlist" /\ modIndex \in DOMAIN modInfo
      /\ \A w \in DOMAIN adds : ~Running(w)
  BY <1>1, AddsShape DEF Ordered, Alone, AtCursor
<1>4. Alone' /\ Chosen' /\ AtCursor'
  BY <1>1, <1>2, <1>3 DEF Alone, Chosen, AtCursor, Running
<1>5. e = modInfo[modIndex]
  BY <1>3, SelectedType
<1>6. ~ListedTwice' => Fits'
  <2> SUFFICES ASSUME ~ListedTwice' PROVE Fits'
    OBVIOUS
  <2>1. ~ListedTwice => Fits
    BY <1>3 DEF Ordered, Shown
  <2>2. CASE ChangeModName(e)
    BY <1>1, <1>3, <1>5, <2>1, <2>2, RenameFits
  <2>3. CASE UNCHANGED <<dirs, marked, modInfo>>
    BY <1>1, <2>1, <2>3, SameFits
  <2> QED
    BY <1>1, <2>2, <2>3
<1> QED
  BY <1>1, <1>3, <1>4, <1>6 DEF Ordered, Shown

LEMMA TailLists ==
  ASSUME NEW S, NEW s \in Seq(S), s # <<>>, IsInjective(s)
  PROVE  /\ IsInjective(Tail(s)) /\ Head(s) \in ToSet(s)
         /\ ToSet(Tail(s)) \subseteq ToSet(s) \ {Head(s)}
<1>1. /\ Tail(s) \in Seq(S) /\ Len(Tail(s)) = Len(s) - 1
      /\ \A i \in 1..Len(Tail(s)) : Tail(s)[i] = s[i + 1]
      /\ Head(s) = s[1]
  BY HeadTailProperties
<1>2. /\ Len(s) \in Nat \ {0} /\ DOMAIN s = 1..Len(s)
      /\ DOMAIN Tail(s) = 1..Len(Tail(s))
  BY <1>1, LenProperties, EmptySeq
<1>3. 1 \in DOMAIN s /\ \A i \in DOMAIN Tail(s) : i + 1 \in DOMAIN s /\ i + 1 # 1
  BY <1>1, <1>2
<1>4. \A i, j \in DOMAIN s : s[i] = s[j] => i = j
  BY DEF IsInjective
<1>5. IsInjective(Tail(s))
  <2> SUFFICES ASSUME NEW i \in DOMAIN Tail(s), NEW j \in DOMAIN Tail(s), Tail(s)[i] = Tail(s)[j]
               PROVE  i = j
    BY DEF IsInjective
  <2>1. s[i + 1] = s[j + 1] /\ i + 1 \in DOMAIN s /\ j + 1 \in DOMAIN s
    BY <1>1, <1>2, <1>3
  <2>2. i + 1 = j + 1 /\ i \in Int /\ j \in Int
    BY <1>2, <1>4, <2>1
  <2> QED
    BY <2>2
<1>6. ASSUME NEW i \in DOMAIN Tail(s)
      PROVE  Tail(s)[i] \in ToSet(s) \ {Head(s)}
  <2>1. Tail(s)[i] = s[i + 1] /\ i + 1 \in DOMAIN s /\ i + 1 # 1
    BY <1>1, <1>2, <1>3
  <2>2. s[i + 1] # s[1]
    BY <1>3, <1>4, <2>1
  <2> QED
    BY <1>1, <2>1, <2>2 DEF ToSet
<1> QED
  BY <1>1, <1>3, <1>5, <1>6 DEF ToSet

(* The one worker that runs works for the screen that is shown.             *)
LEMMA OrderedAdd ==
  ASSUME Guarded, Typed, Typed', Ordered, NEW w \in DOMAIN adds, AddStep(w)
  PROVE  Ordered'
<1>1. /\ DOMAIN adds' = DOMAIN adds /\ Running(w)
      /\ \A v \in DOMAIN adds : v # w => adds'[v] = adds[v]
      /\ adds'[w].new = adds[w].new /\ adds'[w].game = adds[w].game
  BY WorkerAdvances DEF Advances
<1>2. ~copy.valid /\ w = addTask /\ dialog = "progress"
  BY <1>1, BusyAdding DEF Ordered
<1>3. UNCHANGED <<menu, listOf, modIndex, dialog, ask, offered, cleaning, copy, addTask, marked>>
  BY DEF AddStep, AddDirectory, AddNext, FileZip, SkipZip, AddDone, ListGame, ResetIndex, uiOnly, card
<1>4. /\ menu = IF adds[w].new THEN "addgame" ELSE "modlist"
      /\ ~adds[w].new => adds[w].game = listOf
      /\ adds[w].pc \in {"list", "home"} => adds[w].new
      /\ ToSet(adds[w].todo) \subseteq inbox /\ IsInjective(adds[w].todo)
      /\ adds[w] \in Worker
      /\ adds[w].pc = "file" => adds[w].todo # <<>>
  BY <1>1, AddsShape DEF Ordered, Chosen, Typed
<1>5. /\ adds[w].todo \in Seq(Zips) /\ adds[w].game \in AllGames /\ adds[w].new \in BOOLEAN
  BY <1>4 DEF Worker
<1>6. adds[w].pc = "file" =>
        /\ Head(adds[w].todo) \in inbox /\ Head(adds[w].todo) \in Zips
        /\ IsInjective(Tail(adds[w].todo))
        /\ ToSet(Tail(adds[w].todo)) \subseteq inbox \ {Head(adds[w].todo)}
  BY <1>4, <1>5, TailLists, HeadTailProperties
<1>7. Alone'
  BY <1>1, <1>2, <1>3 DEF Alone, Ordered, Running
<1>8. AtCursor'
  BY <1>2, <1>3 DEF AtCursor
<1>9. Running(w)' =>
        /\ adds'[w].pc \in {"list", "home"} => adds[w].new
        /\ ToSet(adds'[w].todo) \subseteq inbox' /\ IsInjective(adds'[w].todo)
  <2>1. CASE AddDirectory(w) \/ AddNext(w) \/ AddDone(w) \/ ListGame(w) \/ ResetIndex(w)
    <3>1. /\ inbox' = inbox
          /\ \/ Moves(w, "next", adds[w].todo) \/ Moves(w, "file", adds[w].todo)
             \/ Moves(w, "list", adds[w].todo) /\ adds[w].new
             \/ Moves(w, "home", adds[w].todo) /\ adds[w].new
             \/ Moves(w, "ended", <<>>)
      BY <1>4, <2>1 DEF AddDirectory, AddNext, AddDone, ListGame, ResetIndex, End, Moves, card
    <3>2. ASSUME NEW p, NEW t, Moves(w, p, t)
          PROVE  adds'[w].pc = p /\ adds'[w].todo = t
      <4>1. adds' = [adds EXCEPT ![w] = Moved(w, p, t)]
        BY <3>2, WorkerMoved
      <4> QED
        BY <4>1, AddsShape DEF Moved
    <3> QED
      BY <1>4, <3>1, <3>2 DEF Running
  <2>2. CASE FileZip(w) \/ SkipZip(w)
    <3>1. /\ adds[w].pc = "file" /\ inbox' \in {inbox, inbox \ {Head(adds[w].todo)}}
          /\ Moves(w, "next", Tail(adds[w].todo))
      BY <2>2 DEF FileZip, SkipZip, Advanced, Moves
    <3>2. adds' = [adds EXCEPT ![w] = Moved(w, "next", Tail(adds[w].todo))]
      BY <3>1, WorkerMoved
    <3>3. adds'[w].pc = "next" /\ adds'[w].todo = Tail(adds[w].todo)
      BY <3>2, AddsShape DEF Moved
    <3> QED
      BY <1>6, <3>1, <3>3
  <2> QED
    BY <2>1, <2>2 DEF AddStep
<1>10. Chosen'
  <2>1. \A v \in DOMAIN adds' : Running(v)' => v = w
    BY <1>2, <1>3, <1>7 DEF Alone
  <2>2. dialog' # "pick"
    BY <1>2, <1>3
  <2> QED
    BY <1>1, <1>3, <1>4, <1>9, <2>1, <2>2 DEF Chosen
<1>11. Shown'
  <2> SUFFICES ASSUME menu' = "modlist"
               PROVE  /\ index' \in DOMAIN entries' /\ entries'[index'] = listOf'
                      /\ ~ListedTwice' => Fits'
    BY DEF Shown
  <2>1. ~adds[w].new /\ adds[w].game = listOf /\ adds[w].pc \notin {"list", "home"} /\ menu = "modlist"
    BY <1>3, <1>4
  <2>2. UNCHANGED <<index, entries>>
    BY <2>1 DEF AddStep, AddDirectory, AddNext, FileZip, SkipZip, AddDone, ListGame, ResetIndex, uiOnly
  <2>3. /\ index \in DOMAIN entries /\ entries[index] = listOf
        /\ ~ListedTwice => Fits
    BY <2>1 DEF Ordered, Shown
  <2>4. ~ListedTwice' => Fits'
    <3> SUFFICES ASSUME ~ListedTwice' PROVE Fits'
      OBVIOUS
    <3>1. CASE FileZip(w)
      <4> DEFINE zip == Head(adds[w].todo)
      <4>1. /\ zip \in Zips /\ listOf \in AllGames
            /\ dirs' = dirs \union {<<listOf, zip>>}
            /\ modInfo' = Append(modInfo, [game |-> listOf, name |-> zip, on |-> FALSE])
            /\ inbox' = inbox \ {zip}
        BY <1>5, <1>6, <2>1, <3>1 DEF FileZip, Destination
      <4> HIDE DEF zip
      <4> QED
        BY <1>3, <2>3, <4>1, FileFits
    <3>2. CASE SkipZip(w)
      <4> DEFINE zip == Head(adds[w].todo)
      <4>1. /\ zip \in inbox
            /\ dirs' \in {dirs, dirs \union {<<listOf, zip>>}}
            /\ UNCHANGED <<modInfo, inbox>>
        BY <1>6, <2>1, <3>2 DEF SkipZip, Destination
      <4> HIDE DEF zip
      <4> QED
        BY <1>3, <2>3, <4>1, SkipFits
    <3>3. CASE ~FileZip(w) /\ ~SkipZip(w)
      <4>1. UNCHANGED <<modInfo, dirs, inbox>>
        BY <3>3 DEF AddStep, AddDirectory, AddNext, AddDone, ListGame, ResetIndex, card
      <4> QED
        BY <1>3, <2>3, <4>1, SameFits
    <3> QED
      BY <3>1, <3>2, <3>3
  <2> QED
    BY <1>3, <2>2, <2>3, <2>4
<1> QED
  BY <1>7, <1>8, <1>10, <1>11 DEF Ordered

LEMMA IInvInit == Init => IInv
<1> SUFFICES ASSUME Init PROVE Ordered
  BY GuardedInit, TypedInit DEF IInv, Orderly
<1>1. /\ menu = "list" /\ dialog = "none" /\ addTask = 0 /\ DOMAIN adds = {}
      /\ copy.valid = FALSE
  BY EmptySeq DEF Init, NoCopy
<1> QED
  BY <1>1 DEF Ordered, Alone, Chosen, AtCursor, Shown

LEMMA IInvStep ==
  ASSUME IInv, [Next]_vars
  PROVE  IInv'
<1>1. Guarded' /\ Typed'
  BY GuardedStep, TypedStep DEF IInv
<1>2. ASSUME NoAddLeft' PROVE Ordered'
  <2>1. ~LeaveAdd /\ Ordered /\ Guarded /\ Typed
    BY <1>2, LeftForGood DEF IInv, Orderly
  <2>2. CASE UNCHANGED vars
    <3>1. UNCHANGED <<menu, index, listOf, modIndex, modInfo, dialog, ask, offered, cleaning,
                      copy, adds, addTask, entries, dirs, marked, inbox>>
      BY <2>2 DEF vars, screen, card
    <3>2. Alone' /\ Chosen' /\ AtCursor'
      BY <2>1, <3>1 DEF Ordered, Alone, Chosen, AtCursor, Running, Verb
    <3> QED
      BY <1>1, <2>1, <3>1, <3>2, SameFits DEF Ordered, Shown
  <2>3. CASE Next
    BY <1>1, <2>1, <2>3, OrderedMenu, OrderedStartCopy, OrderedStartAdd, OrderedTask,
       OrderedCollect, OrderedAdd DEF Next, Frame
  <2> QED
    BY <2>2, <2>3
<1> QED
  BY <1>1, <1>2 DEF IInv, Orderly

LEMMA IInvHolds == Spec => []IInv
BY IInvInit, IInvStep, PTL DEF Spec

(* The handlers of the mod list act on the game whose mods are shown: while *)
(* a worker resets index and prepends to entries, its dialog is there.      *)
THEOREM IndexNamesTheList == Spec => []IndexNamesList
<1>1. IInv => IndexNamesList
  BY DEF IInv, Orderly, Ordered, Shown, IndexNamesList
<1> QED
  BY <1>1, IInvHolds, PTL

(* The list of mods is that of the card, whatever failed on the way.        *)
THEOREM ListIsThatOfTheCard == Spec => []ListMatchesCard
<1>1. IInv => ListMatchesCard
  BY DEF IInv, Orderly, Ordered, Shown, Fits, ListMatchesCard
<1> QED
  BY <1>1, IInvHolds, PTL

Filed ==
  \A z \in inbox \ inbox' : \E w \in DOMAIN adds :
    adds[w].pc = "file" /\ z = Head(adds[w].todo) /\ dirs' = dirs \union {<<adds[w].game, z>>}

LEMMA FiledStep ==
  ASSUME [Next]_vars
  PROVE  Filed
<1>1. ASSUME NEW w \in DOMAIN adds, AddStep(w)
      PROVE  Filed
  <2>1. CASE FileZip(w)
    BY <2>1 DEF FileZip, Destination, Filed
  <2>2. CASE ~FileZip(w)
    <3>1. inbox' = inbox
      BY <1>1, <2>2 DEF AddStep, AddDirectory, AddNext, SkipZip, AddDone, ListGame, ResetIndex, card
    <3> QED
      BY <3>1 DEF Filed
  <2> QED
    BY <2>1, <2>2
<1>2. CASE inbox' = inbox
  BY <1>2 DEF Filed
<1>3. CASE OpenGame \/ ChangeMenu \/ MoveCursor \/ AskCopy \/ AskAdd \/ Dismiss \/ Refuse
  BY <1>2, <1>3 DEF OpenGame, ChangeMenu, MoveCursor, AskCopy, AskAdd, Dismiss, Refuse, card
<1>4. CASE StartCopy \/ NotReady \/ StartAdd \/ StopCopy \/ LeaveAdd \/ CollectAdd \/ RunCopy
  BY <1>2, <1>4 DEF StartCopy, NotReady, StartAdd, StopCopy, LeaveAdd, CollectAdd, RunCopy, card
<1>5. CASE CollectCopy
  BY <1>2, <1>5 DEF CollectCopy
<1>6. CASE UNCHANGED vars
  BY <1>2, <1>6 DEF vars, card
<1> QED
  BY <1>1, <1>3, <1>4, <1>5, <1>6 DEF Next, Frame

(* An archive leaves the drop folder for the game it was chosen for only,   *)
(* whatever game the user has opened since.                                 *)
THEOREM ArchivesEndWhereChosen == Spec => FiledWhereChosen
<1>1. [Next]_vars => [\A z \in inbox \ inbox' : \E w \in DOMAIN adds :
         adds[w].pc = "file" /\ z = Head(adds[w].todo) /\ dirs' = dirs \union {<<adds[w].game, z>>}]_vars
  BY FiledStep DEF Filed
<1> QED
  BY <1>1, PTL DEF Spec, FiledWhereChosen

(* The dialog of an installation or uninstallation is there until the task  *)
(* has ended, unless an add was left whose future it then waits for.        *)
THEOREM DialogOutlastsTheCopy == Spec => DialogStaysWhileCopying
<1>1. ASSUME IInv, [Next]_vars, NoAddLeft, dialog = "progress", copy.pc = "running"
      PROVE  dialog' = "progress"
  <2>1. copy.valid /\ addTask = 0
    BY <1>1 DEF IInv, Guarded, Orderly, Ordered, Alone
  <2>2. CASE dialog' = dialog
    BY <1>1, <2>2
  <2>3. ASSUME NEW w \in DOMAIN adds, AddStep(w)
        PROVE  dialog' = dialog
    BY <2>3 DEF AddStep, AddDirectory, AddNext, FileZip, SkipZip, AddDone, ListGame, ResetIndex, uiOnly
  <2>4. ~(OpenGame \/ ChangeMenu \/ MoveCursor \/ AskCopy \/ AskAdd)
    BY <1>1 DEF OpenGame, ChangeMenu, MoveCursor, AskCopy, AskAdd, MenuActive
  <2>5. ~(Dismiss \/ Refuse \/ StartCopy \/ NotReady \/ StartAdd)
    BY <1>1 DEF Dismiss, Refuse, StartCopy, NotReady, StartAdd
  <2>6. ~(LeaveAdd \/ CollectAdd \/ CollectCopy)
    BY <1>1, <2>1 DEF LeaveAdd, CollectAdd, CollectCopy, AddReady, CopyReady
  <2>7. StopCopy \/ RunCopy \/ UNCHANGED vars => dialog' = dialog
    BY DEF StopCopy, RunCopy, vars
  <2> QED
    BY <1>1, <2>2, <2>3, <2>4, <2>5, <2>6, <2>7 DEF Next, Frame
<1>2. IInv /\ [Next]_vars =>
        [NoAddLeft /\ dialog = "progress" /\ copy.pc = "running" => dialog' = "progress"]_vars
  BY <1>1
<1> QED
  BY <1>2, IInvHolds, PTL DEF Spec, DialogStaysWhileCopying

(* The outcome is recorded in the name of the mod the task was about: the   *)
(* cursor still names it when its future is collected.                      *)
THEOREM OutcomeIsRecorded == Spec => OutcomeRecordedUnlessLeft
<1>1. ASSUME IInv, [Next]_vars, NoAddLeft, ~ListedTwice, ~BothNamesThere,
             CopyReady, copy.result, ~copy.stop, ~copy'.valid \/ copy'.n # copy.n
      PROVE  (copy.mod \in marked') = (copy.op = "install")
  <2>1. Guarded /\ Typed /\ Ordered
    BY <1>1 DEF IInv, Orderly
  <2>2. copy.valid /\ dialog = "progress" /\ copy.valid \in BOOLEAN
    BY <1>1, <2>1 DEF CopyReady, Ordered, Alone, Guarded, CopyShape
  <2>3. CollectCopy
    <3>1. ~StartCopy
      BY <2>2 DEF StartCopy
    <3>2. ~StopCopy /\ ~RunCopy
      BY <1>1, <2>1, <2>2 DEF StopCopy, RunCopy, CopyReady, Guarded, CopyShape
    <3> QED
      BY <1>1, <2>2, <3>1, <3>2, OthersLeaveCopy DEF CopyLeft
  <2> DEFINE e == modInfo[modIndex]
             d == <<e.game, e.name>>
  <2>4. /\ modIndex \in DOMAIN modInfo /\ menu = "modlist"
        /\ copy.op = Verb /\ copy.mod = d
    BY <2>1, <2>2 DEF Ordered, AtCursor
  <2>5. e \in Listing(listOf)
    BY <1>1, <2>1, <2>4 DEF Ordered, Shown, Fits, ToSet
  <2>6. e \in [game : {listOf}, name : Names, on : BOOLEAN] /\ <<listOf, e.name>> \in IF e.on THEN marked ELSE dirs
    BY <2>1, <2>5, ListingIs
  <2>7. /\ e.on \in BOOLEAN /\ d \in IF e.on THEN marked ELSE dirs
        /\ d \notin dirs \/ d \notin marked
    BY <1>1, <2>2, <2>4, <2>6 DEF BothNamesThere
  <2>8. IF cleaning => e.on THEN ChangeModName(e) ELSE UNCHANGED <<dirs, marked, modInfo>>
    <3>1. PICK h \in Selected :
            IF copy.result /\ ~copy.stop /\ (cleaning => h.on)
            THEN ChangeModName(h) ELSE UNCHANGED <<dirs, marked, modInfo>>
      BY <2>3 DEF CollectCopy
    <3>2. h = e
      BY <2>1, <2>4, SelectedType
    <3> QED
      BY <1>1, <3>1, <3>2
  <2> HIDE DEF e
  <2>9. Verb = IF cleaning \/ e.on THEN "uninstall" ELSE "install"
    BY DEF Verb, e
  <2>10. CASE e.on
    <3>1. copy.op = "uninstall" /\ ChangeModName(e)
      BY <2>4, <2>8, <2>9, <2>10
    <3>2. d \notin marked'
      BY <2>7, <2>10, <3>1 DEF ChangeModName, Renamed, NotRenamed
    <3> QED
      BY <2>4, <3>1, <3>2
  <2>11. CASE ~e.on /\ cleaning
    <3>1. copy.op = "uninstall" /\ marked' = marked
      BY <2>4, <2>8, <2>9, <2>11
    <3>2. d \notin marked'
      BY <2>7, <2>11, <3>1
    <3> QED
      BY <2>4, <3>1, <3>2
  <2>12. CASE ~e.on /\ ~cleaning
    <3>1. copy.op = "install" /\ ChangeModName(e)
      BY <2>4, <2>8, <2>9, <2>12
    <3>2. d \in marked'
      BY <2>7, <2>12, <3>1 DEF ChangeModName, Renamed, NotRenamed
    <3> QED
      BY <2>4, <3>1, <3>2
  <2> QED
    BY <2>10, <2>11, <2>12
<1>2. IInv /\ [Next]_vars =>
        [NoAddLeft /\ ~ListedTwice /\ ~BothNamesThere => Recorded(copy')]_vars
  BY <1>1 DEF Recorded
<1> QED
  BY <1>2, IInvHolds, PTL DEF Spec, OutcomeRecordedUnlessLeft

=============================================================================
