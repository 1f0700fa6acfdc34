--------------------------- MODULE ModListProofs ---------------------------
(***************************************************************************)
(* Proofs about ModList for lists of every length and every history of     *)
(* moves, pages, names, types, removals and additions, with calls that     *)
(* fail.  First the cursor stays on a mod and on the screen; needed are    *)
(* only that the list is a sequence and that it is empty outside the menu, *)
(* from which no operation can begin then.  Then the list is that of the   *)
(* directories, the keys of mod_name.json are those of mods on the card,   *)
(* and the names and descriptions shown are those that were given.         *)
(***************************************************************************)
EXTENDS ModList, ObjectsProofs, FiniteSetTheorems

IsSeq(s) == \E S : s \in Seq(S)
IsCursor(c) == c = Cursor(c.index, c.start, c.ypos, c.yoff)
               /\ c.index \in Nat /\ c.start \in Nat /\ c.ypos \in Int /\ c.yoff \in Int

CursorInv ==
  /\ IsSeq(modInfo) /\ IsFiniteSet(DOMAIN dirs) /\ IsCursor(cursor)
  /\ menu \in {"list", "mods"}
  /\ menu = "list" => modInfo = <<>>
  /\ modInfo # <<>> => Shown(cursor, Len(modInfo))

-----------------------------------------------------------------------------
(* The cursor *)

(* Each key keeps the cursor shown, wherever it is in a list of n mods.     *)
LEMMA DownShown ==
  ASSUME NEW n \in Nat \ {0}, NEW c, IsCursor(c), Shown(c, n)
  PROVE  IsCursor(Down(c, n)) /\ Shown(Down(c, n), n)
BY DEF IsCursor, Shown, Down, Cursor, Row, Box, FirstRow, Bottom, Rows

LEMMA UpShown ==
  ASSUME NEW n \in Nat \ {0}, NEW c, IsCursor(c), Shown(c, n)
  PROVE  IsCursor(Up(c)) /\ Shown(Up(c), n)
BY DEF IsCursor, Shown, Up, Cursor, Row, Box, FirstRow, Top, Rows

LEMMA PageBackShown ==
  ASSUME NEW n \in Nat \ {0}, NEW c, IsCursor(c), Shown(c, n)
  PROVE  IsCursor(PageBack(c, n)) /\ Shown(PageBack(c, n), n)
<1>1. PICK i, st : i = c.index /\ st = c.start
  OBVIOUS
<1>2. i \in Nat /\ st \in Nat /\ i < n /\ st <= i /\ i < st + 4 /\ (st = 0 \/ st + 4 <= n)
  BY <1>1 DEF IsCursor, Shown, Rows
<1> DEFINE start == IF st >= 4 THEN st - 4 ELSE 0
           back  == IF i >= 4 THEN i - 4 ELSE 0
           index == IF back < start THEN start ELSE back
           last  == start + 3
           into  == IF index > last /\ last < n THEN last ELSE index
<1>3. start \in Nat /\ (start = 0 \/ start + 4 <= n)
  BY <1>2
<1>4. into \in Nat /\ into < n /\ start <= into /\ into < start + 4
  BY <1>2
<1>5. PageBack(c, n) = At(into, start)
  BY <1>1, <1>2 DEF PageBack, Back, Rows
<1> HIDE DEF into, start
<1> QED
  BY <1>3, <1>4, <1>5 DEF IsCursor, Shown, At, Cursor, Row, Box, FirstRow, Rows

LEMMA PageOnShown ==
  ASSUME NEW n \in Nat \ {0}, NEW c, IsCursor(c), Shown(c, n)
  PROVE  IsCursor(PageOn(c, n)) /\ Shown(PageOn(c, n), n)
BY DEF IsCursor, Shown, PageOn, At, Cursor, Row, Box, FirstRow, Rows

(* When one of the mods is removed and others are left, likewise.           *)
LEMMA ShrunkShown ==
  ASSUME NEW n \in Nat \ {0}, NEW c, IsCursor(c), Shown(c, n + 1)
  PROVE  IsCursor(Shrunk(c, n)) /\ Shown(Shrunk(c, n), n)
BY DEF IsCursor, Shown, Shrunk, Cursor, Row, Box, FirstRow, Rows

(* A list that grows at its end leaves it where it is.                      *)
LEMMA GrownShown ==
  ASSUME NEW n \in Nat \ {0}, NEW c, IsCursor(c), Shown(c, n)
  PROVE  Shown(c, n + 1)
BY DEF IsCursor, Shown, Row, Box, FirstRow, Rows

LEMMA TopShown == IsCursor(AtTop) /\ \A n \in Nat \ {0} : Shown(AtTop, n)
BY DEF IsCursor, AtTop, Shown, Cursor, Row, Box, FirstRow, Rows

-----------------------------------------------------------------------------
(* The list *)

LEMMA Seqs ==
  ASSUME NEW S, NEW s \in Seq(S)
  PROVE  IsSeq(s)
BY DEF IsSeq

LEMMA Removed ==
  ASSUME NEW s, IsSeq(s), NEW i \in 1..Len(s)
  PROVE  /\ IsSeq(RemoveAt(s, i)) /\ Len(RemoveAt(s, i)) = Len(s) - 1
         /\ \A j \in 1..(Len(s) - 1) : RemoveAt(s, i)[j] = IF j < i THEN s[j] ELSE s[j + 1]
<1>1. PICK S : s \in Seq(S)
  BY DEF IsSeq
<1>2. Len(s) \in Nat /\ \A j \in 1..Len(s) : s[j] \in S
  BY <1>1, LenProperties, ElementOfSeq
<1>3. /\ SubSeq(s, 1, i - 1) \in Seq(S) /\ Len(SubSeq(s, 1, i - 1)) = i - 1
      /\ \A j \in 1..(i - 1) : SubSeq(s, 1, i - 1)[j] = s[j]
  <2>1. \A j \in 1..(i - 1) : s[j] \in S
    BY <1>2
  <2>2. /\ SubSeq(s, 1, i - 1) \in Seq(S)
        /\ Len(SubSeq(s, 1, i - 1)) = IF 1 <= i - 1 THEN (i - 1) - 1 + 1 ELSE 0
        /\ \A j \in 1..((i - 1) - 1 + 1) : SubSeq(s, 1, i - 1)[j] = s[1 + j - 1]
    BY <1>2, <2>1, SubSeqProperties
  <2> QED BY <1>2, <2>2
<1>4. /\ SubSeq(s, i + 1, Len(s)) \in Seq(S) /\ Len(SubSeq(s, i + 1, Len(s))) = Len(s) - i
      /\ \A j \in 1..(Len(s) - i) : SubSeq(s, i + 1, Len(s))[j] = s[i + j]
  <2>1. \A j \in (i + 1)..Len(s) : s[j] \in S
    BY <1>2
  <2>2. /\ SubSeq(s, i + 1, Len(s)) \in Seq(S)
        /\ Len(SubSeq(s, i + 1, Len(s))) = IF i + 1 <= Len(s) THEN Len(s) - (i + 1) + 1 ELSE 0
        /\ \A j \in 1..(Len(s) - (i + 1) + 1) : SubSeq(s, i + 1, Len(s))[j] = s[(i + 1) + j - 1]
    BY <1>2, <2>1, SubSeqProperties
  <2> QED BY <1>2, <2>2
<1>5. /\ RemoveAt(s, i) \in Seq(S)
      /\ Len(RemoveAt(s, i)) = Len(SubSeq(s, 1, i - 1)) + Len(SubSeq(s, i + 1, Len(s)))
      /\ \A j \in 1..(Len(SubSeq(s, 1, i - 1)) + Len(SubSeq(s, i + 1, Len(s)))) :
           RemoveAt(s, i)[j] = IF j <= Len(SubSeq(s, 1, i - 1)) THEN SubSeq(s, 1, i - 1)[j]
                               ELSE SubSeq(s, i + 1, Len(s))[j - Len(SubSeq(s, 1, i - 1))]
  BY <1>3, <1>4, ConcatProperties DEF RemoveAt
<1>6. IsSeq(RemoveAt(s, i))
  BY <1>5, Seqs
<1>7. Len(RemoveAt(s, i)) = Len(s) - 1
  <2>1. i \in Int
    BY <1>2
  <2>2. Len(RemoveAt(s, i)) = (i - 1) + (Len(s) - i)
    BY <1>3, <1>4, <1>5
  <2> QED BY <1>2, <2>1, <2>2
<1>8. ASSUME NEW j \in 1..(Len(s) - 1)
      PROVE  RemoveAt(s, i)[j] = IF j < i THEN s[j] ELSE s[j + 1]
  <2>1. i \in Int /\ Len(s) \in Nat /\ j \in 1..((i - 1) + (Len(s) - i))
    BY <1>2
  <2>2. RemoveAt(s, i)[j] = IF j <= i - 1 THEN SubSeq(s, 1, i - 1)[j]
                            ELSE SubSeq(s, i + 1, Len(s))[j - (i - 1)]
    BY <1>3, <1>4, <1>5, <2>1
  <2>3. CASE j < i
    <3>1. j \in 1..(i - 1) /\ j <= i - 1
      BY <2>1, <2>3
    <3> QED BY <1>3, <2>2, <2>3, <3>1
  <2>4. CASE ~(j < i)
    <3>1. /\ j - (i - 1) \in 1..(Len(s) - i) /\ ~(j <= i - 1) /\ i + (j - (i - 1)) = j + 1
      BY <2>1, <2>4
    <3> QED BY <1>4, <2>2, <2>4, <3>1
  <2> QED BY <2>3, <2>4
<1> QED BY <1>6, <1>7, <1>8

LEMMA Appended ==
  ASSUME NEW s, IsSeq(s), NEW e
  PROVE  /\ IsSeq(Append(s, e)) /\ Len(Append(s, e)) = Len(s) + 1 /\ Append(s, e) # <<>>
         /\ Append(s, e)[Len(s) + 1] = e /\ \A j \in 1..Len(s) : Append(s, e)[j] = s[j]
<1>1. PICK S : s \in Seq(S)
  BY DEF IsSeq
<1>2. s \in Seq(S \union {e})
  BY <1>1, SeqMonotonic
<1>3. /\ Append(s, e) \in Seq(S \union {e}) /\ Len(Append(s, e)) = Len(s) + 1
      /\ Append(s, e)[Len(s) + 1] = e /\ \A j \in 1..Len(s) : Append(s, e)[j] = s[j]
  BY <1>2, AppendProperties
<1> QED BY <1>2, <1>3, EmptySeq, LenProperties DEF IsSeq

LEMMA Mapped ==
  ASSUME NEW n \in Nat, NEW f, f = [i \in 1..n |-> f[i]]
  PROVE  IsSeq(f) /\ Len(f) = n
<1>1. f \in [1..n -> {f[i] : i \in 1..n}]
  OBVIOUS
<1>2. f \in Seq({f[i] : i \in 1..n})
  BY <1>1, SeqDef
<1>3. Len(f) \in Nat /\ 1..n = 1..Len(f)
  BY <1>1, <1>2, LenProperties
<1>4. IsSeq(f)
  BY <1>2 DEF IsSeq
<1>5. Len(f) = n
  BY <1>3
<1> QED BY <1>4, <1>5

(* A list some of whose entries are changed.                                *)
LEMMA Excepted ==
  ASSUME NEW s, IsSeq(s), NEW t, t = [j \in DOMAIN s |-> t[j]]
  PROVE  IsSeq(t) /\ Len(t) = Len(s)
<1>1. PICK S : s \in Seq(S)
  BY DEF IsSeq
<1>2. Len(s) \in Nat /\ DOMAIN s = 1..Len(s)
  BY <1>1, LenProperties
<1> QED BY <1>2, Mapped

LEMMA IsFunction ==
  ASSUME NEW s, IsSeq(s)
  PROVE  s = [j \in DOMAIN s |-> s[j]]
<1>1. PICK S : s \in Seq(S)
  BY DEF IsSeq
<1>2. s \in [1..Len(s) -> S]
  BY <1>1, LenProperties
<1> QED BY <1>2

-----------------------------------------------------------------------------
(* The steps *)

LEMMA InitCursorInv == Init => CursorInv
<1> SUFFICES ASSUME Init PROVE CursorInv
  OBVIOUS
<1>1. IsSeq(<<>>)
  BY EmptySeq, Zenon DEF IsSeq
<1> QED BY <1>1, TopShown, ModsAssumption DEF Init, CursorInv

(* What an operation on the selected mod does to the list.                  *)
LEMMA ListKept ==
  ASSUME CursorInv, Ask, IsSeq(modInfo'), Len(modInfo') = Len(modInfo),
         cursor' = cursor, IsFiniteSet(DOMAIN dirs')
  PROVE  CursorInv'
BY DEF CursorInv, Ask

LEMMA Positioned ==
  ASSUME CursorInv, modInfo # <<>>
  PROVE  Len(modInfo) \in Nat \ {0} /\ Position \in 1..Len(modInfo)
<1>1. Len(modInfo) \in Nat \ {0}
  BY EmptySeq DEF CursorInv, IsSeq
<1> QED BY <1>1 DEF CursorInv, IsCursor, Shown, Position

LEMMA DirsFinite ==
  ASSUME IsFiniteSet(DOMAIN dirs), NEW d, NEW old, NEW new, NEW k
  PROVE  /\ IsFiniteSet(DOMAIN Renamed(old, new))
         /\ IsFiniteSet(DOMAIN Without(d))
         /\ IsFiniteSet(DOMAIN With(d, k))
         /\ IsFiniteSet(DOMAIN [dirs EXCEPT ![d] = k])
<1>1. IsFiniteSet(OnCard \ {old}) /\ IsFiniteSet(OnCard \ {d})
  BY FS_RemoveElement DEF OnCard
<1>2. IsFiniteSet((OnCard \ {old}) \union {new}) /\ IsFiniteSet(OnCard \union {d})
  BY <1>1, FS_AddElement DEF OnCard
<1> QED BY <1>1, <1>2 DEF Renamed, Without, With

LEMMA NextCursorInv == CursorInv /\ [Next]_vars => CursorInv'
<1> SUFFICES ASSUME CursorInv, [Next]_vars PROVE CursorInv'
  OBVIOUS
<1>0. CASE UNCHANGED vars
  BY <1>0 DEF vars, CursorInv
<1>1. CASE OpenGame
  <2>1. /\ modInfo' = [i \in 1..Cardinality(OnCard) |-> EntryOf(cache', Nth(i))]
        /\ cursor' = AtTop /\ dirs' = dirs /\ menu' = "mods"
    BY <1>1 DEF OpenGame, FastScanModInfo
  <2>2. Cardinality(OnCard) \in Nat
    BY FS_CardinalityType DEF CursorInv, OnCard
  <2>3. modInfo' = [i \in 1..Cardinality(OnCard) |-> modInfo'[i]]
    BY <2>1
  <2>4. IsSeq(modInfo') /\ Len(modInfo') = Cardinality(OnCard)
    BY <2>2, <2>3, Mapped
  <2>5. modInfo' # <<>> => Len(modInfo') \in Nat \ {0}
    BY <2>4, EmptySeq DEF IsSeq
  <2> QED BY <2>1, <2>4, <2>5, TopShown DEF CursorInv
<1>2. CASE Leave
  <2>1. IsSeq(<<>>)
    BY EmptySeq, Zenon DEF IsSeq
  <2> QED BY <1>2, <2>1, TopShown DEF Leave, CursorInv
<1>3. CASE Move
  <2>1. modInfo # <<>> /\ UNCHANGED <<menu, dirs, modInfo>>
        /\ cursor' \in Moves(cursor, Len(modInfo))
    BY <1>3 DEF Move
  <2>2. Len(modInfo) \in Nat \ {0} /\ IsCursor(cursor) /\ Shown(cursor, Len(modInfo))
    BY <2>1, Positioned DEF CursorInv
  <2>3. IsCursor(cursor') /\ Shown(cursor', Len(modInfo))
    BY <2>1, <2>2, DownShown, UpShown, PageBackShown, PageOnShown DEF Moves
  <2> QED BY <2>1, <2>3 DEF CursorInv
<1>4. CASE changemodname
  <2>1. Ask /\ UNCHANGED <<dirs, cursor>>
    BY <1>4 DEF changemodname
  <2>2. modInfo = [j \in DOMAIN modInfo |-> modInfo[j]]
    BY IsFunction DEF CursorInv
  <2>3. modInfo' = [j \in DOMAIN modInfo |-> modInfo'[j]]
    BY <1>4, <2>2 DEF changemodname
  <2>4. IsSeq(modInfo') /\ Len(modInfo') = Len(modInfo)
    BY <2>3, Excepted DEF CursorInv
  <2> QED BY <2>1, <2>4, ListKept DEF CursorInv
<1>5. CASE changemoddescription
  <2>1. Ask /\ UNCHANGED <<dirs, modInfo, cursor>>
    BY <1>5 DEF changemoddescription
  <2> QED BY <2>1, ListKept DEF CursorInv
<1>6. CASE Dialog_MODLIST_TYPE_Menu
  <2>1. Ask /\ UNCHANGED cursor
    BY <1>6 DEF Dialog_MODLIST_TYPE_Menu
  <2>2. \/ UNCHANGED dirs
        \/ \E old, new : dirs' = Renamed(old, new)
    BY <1>6 DEF Dialog_MODLIST_TYPE_Menu
  <2> modInfo = [j \in DOMAIN modInfo |-> modInfo[j]]
    BY IsFunction DEF CursorInv
  <2>3. modInfo' = [j \in DOMAIN modInfo |-> modInfo'[j]]
    BY <1>6 DEF Dialog_MODLIST_TYPE_Menu
  <2>4. IsSeq(modInfo') /\ Len(modInfo') = Len(modInfo)
    BY <2>3, Excepted DEF CursorInv
  <2>5. IsFiniteSet(DOMAIN dirs')
    BY <2>2, DirsFinite DEF CursorInv
  <2> QED BY <2>1, <2>4, <2>5, ListKept
<1>7. CASE RemoveMod
  <2>1. /\ menu' = menu /\ menu = "mods" /\ modInfo # <<>> /\ Len(modInfo) > 1
        /\ modInfo' = RemoveAt(modInfo, Position)
        /\ cursor' = Shrunk(cursor, Len(modInfo) - 1)
    BY <1>7 DEF RemoveMod, RemoveEntry, MayRemove, Ask
  <2>2. \/ dirs' = Without(Selected.path)
        \/ dirs' = [dirs EXCEPT ![Selected.path] = 0]
    BY <1>7 DEF RemoveMod
  <2>3. IsFiniteSet(DOMAIN dirs')
    BY <2>2, DirsFinite DEF CursorInv
  <2>4. /\ Len(modInfo) \in Nat \ {0} /\ Position \in 1..Len(modInfo)
        /\ IsCursor(cursor) /\ Shown(cursor, Len(modInfo)) /\ IsSeq(modInfo)
    BY <2>1, Positioned DEF CursorInv
  <2>5. IsSeq(modInfo') /\ Len(modInfo') = Len(modInfo) - 1
    BY <2>1, <2>4, Removed
  <2> DEFINE n == Len(modInfo) - 1
  <2>6. n \in Nat \ {0} /\ n + 1 = Len(modInfo)
    BY <2>1, <2>4
  <2>7. IsCursor(Shrunk(cursor, n)) /\ Shown(Shrunk(cursor, n), n)
    BY <2>4, <2>6, ShrunkShown
  <2> QED BY <2>1, <2>3, <2>5, <2>7 DEF CursorInv
<1>8. CASE ChangeModName
  <2>1. /\ Ask /\ UNCHANGED cursor
        /\ \E old, new : dirs' = Renamed(old, new)
    BY <1>8 DEF ChangeModName
  <2> modInfo = [j \in DOMAIN modInfo |-> modInfo[j]]
    BY IsFunction DEF CursorInv
  <2>4. modInfo' = [j \in DOMAIN modInfo |-> modInfo'[j]]
    BY <1>8 DEF ChangeModName
  <2>2. IsSeq(modInfo') /\ Len(modInfo') = Len(modInfo)
    BY <2>4, Excepted DEF CursorInv
  <2>3. IsFiniteSet(DOMAIN dirs')
    BY <2>1, DirsFinite DEF CursorInv
  <2> QED BY <2>1, <2>2, <2>3, ListKept
<1>9. CASE AppendMod
  <2>1. /\ Ask /\ UNCHANGED cursor
        /\ \E d, k : dirs' = With(d, k)
        /\ modInfo' = modInfo \/ \E e : modInfo' = Append(modInfo, e)
    BY <1>9 DEF AppendMod
  <2>2. IsFiniteSet(DOMAIN dirs')
    BY <2>1, DirsFinite DEF CursorInv
  <2>3. CASE modInfo' = modInfo
    BY <2>1, <2>2, <2>3, ListKept DEF CursorInv
  <2>4. CASE \E e : modInfo' = Append(modInfo, e)
    <3>1. menu' = "mods" /\ modInfo # <<>>
      BY <2>1 DEF Ask
    <3>2. IsSeq(modInfo') /\ Len(modInfo') = Len(modInfo) + 1
      BY <2>4, Appended DEF CursorInv
    <3>3. Len(modInfo) \in Nat \ {0} /\ IsCursor(cursor) /\ Shown(cursor, Len(modInfo))
      BY <3>1, Positioned DEF CursorInv
    <3>4. Shown(cursor, Len(modInfo) + 1)
      BY <3>3, GrownShown
    <3> QED BY <2>1, <2>2, <3>1, <3>2, <3>3, <3>4 DEF CursorInv
  <2> QED BY <2>1, <2>3, <2>4
<1> QED BY <1>0, <1>1, <1>2, <1>3, <1>4, <1>5, <1>6, <1>7, <1>8, <1>9 DEF Next

(* However many mods a game has and whatever is done to them, the cursor is *)
(* on one of them and it is on the screen.                                  *)
THEOREM CursorStaysShown == Spec => []CursorShown
<1>1. CursorInv => CursorShown
  BY DEF CursorInv, CursorShown
<1> QED BY <1>1, InitCursorInv, NextCursorInv, PTL DEF Spec

-----------------------------------------------------------------------------
(* What the list says of the card *)

(* An entry is made of the directory it stands for and a name.              *)
IsEntry(e) == \E d \in Dirs : \E s :
  e = [path |-> d, name |-> d[1], type |-> d[2], on |-> d[3], shown |-> s]
Of(d) == <<d[1], d[2]>>

(* Two entries of one directory, the same mod appended twice, are left half *)
(* way: what is done to one of them the other does not follow.              *)
PathInv ==
  /\ OnCard \subseteq Dirs /\ inbox \subseteq Mods
  /\ \A i \in DOMAIN modInfo : IsEntry(modInfo[i])
  /\ \A i \in DOMAIN modInfo : Of(modInfo[i].path) \in half \/ modInfo[i].path \in OnCard
  /\ \A i, j \in DOMAIN modInfo :
       modInfo[i].path = modInfo[j].path /\ i # j => Of(modInfo[i].path) \in half
  /\ menu = "mods" =>
       \A d \in OnCard : Of(d) \in half \/ \E i \in DOMAIN modInfo : modInfo[i].path = d

(* FastScanModInfo lists every directory, and each once.                    *)
LEMMA NthEnumerates ==
  ASSUME OnCard \subseteq Dirs, IsFiniteSet(OnCard)
  PROVE  /\ Cardinality(OnCard) \in Nat
         /\ \A i \in 1..Cardinality(OnCard) : Nth(i) \in OnCard
         /\ \A i, j \in 1..Cardinality(OnCard) : Nth(i) = Nth(j) => i = j
         /\ \A d \in OnCard : \E i \in 1..Cardinality(OnCard) : Nth(i) = d
<1> DEFINE n        == Cardinality(OnCard)
           Below(d) == {x \in OnCard : Place[x] < Place[d]}
           rank     == [d \in OnCard |-> Cardinality(Below(d))]
<1> HIDE DEF Below, rank
<1>1. n \in Nat
  BY FS_CardinalityType
<1>2. \A d \in OnCard : Place[d] \in Nat
  BY PlaceAssumption
<1>3. ASSUME NEW d \in OnCard
      PROVE  IsFiniteSet(Below(d)) /\ Cardinality(Below(d)) \in Nat /\ Cardinality(Below(d)) < n
  <2>1. Below(d) \in SUBSET OnCard /\ d \notin Below(d)
    BY <1>2 DEF Below
  <2>2. IsFiniteSet(Below(d)) /\ Cardinality(Below(d)) <= n /\ (n = Cardinality(Below(d)) => OnCard = Below(d))
    BY <2>1, FS_Subset
  <2>3. Cardinality(Below(d)) \in Nat
    BY <2>2, FS_CardinalityType
  <2>4. n # Cardinality(Below(d))
    BY <2>1, <2>2
  <2> QED BY <1>1, <2>2, <2>3, <2>4
<1>4. ASSUME NEW d \in OnCard, NEW e \in OnCard, Place[d] < Place[e]
      PROVE  Cardinality(Below(d)) < Cardinality(Below(e))
  <2>1. Below(d) \in SUBSET Below(e) /\ d \in Below(e) /\ d \notin Below(d)
    BY <1>2, <1>4 DEF Below
  <2>2. /\ Cardinality(Below(d)) <= Cardinality(Below(e))
        /\ Cardinality(Below(e)) = Cardinality(Below(d)) => Below(e) = Below(d)
    BY <1>3, <2>1, FS_Subset
  <2>3. Cardinality(Below(d)) # Cardinality(Below(e))
    BY <2>1, <2>2
  <2> QED BY <1>3, <2>2, <2>3
<1>5. \A d \in OnCard : rank[d] \in 0..(n - 1) /\ rank[d] = Cardinality(Below(d))
  BY <1>1, <1>3 DEF rank
<1>6. ASSUME NEW d \in OnCard, NEW e \in OnCard, rank[d] = rank[e]
      PROVE  d = e
  <2>1. ~(Place[d] < Place[e]) /\ ~(Place[e] < Place[d])
    BY <1>3, <1>4, <1>5, <1>6
  <2>2. Place[d] = Place[e]
    BY <1>2, <2>1
  <2> QED BY <2>2, PlaceAssumption
<1>7. rank \in Injection(OnCard, 0..(n - 1))
  BY <1>5, <1>6 DEF Injection, IsInjective, rank
<1>8. IsFiniteSet(0..(n - 1)) /\ Cardinality(0..(n - 1)) = n
  BY <1>1, FS_Interval, SMTT(30)
<1>9. rank \in Surjection(OnCard, 0..(n - 1))
  BY <1>7, <1>8, FS_Injection
<1>10. ASSUME NEW i \in 1..n
       PROVE  Nth(i) \in OnCard /\ rank[Nth(i)] = i - 1
  <2>1. i - 1 \in 0..(n - 1)
    BY <1>1
  <2>2. \E d \in OnCard : rank[d] = i - 1
    BY <1>9, <2>1 DEF Surjection
  <2>3. \E d \in OnCard : Cardinality({x \in OnCard : Place[x] < Place[d]}) = i - 1
    BY <1>5, <2>2 DEF Below
  <2>4. Nth(i) \in OnCard /\ Cardinality({x \in OnCard : Place[x] < Place[Nth(i)]}) = i - 1
    BY <2>3 DEF Nth
  <2> QED BY <1>5, <2>4 DEF Below
<1>11. ASSUME NEW i \in 1..n, NEW j \in 1..n, Nth(i) = Nth(j)
       PROVE  i = j
  <2>1. i - 1 = j - 1 /\ i \in Nat /\ j \in Nat
    BY <1>1, <1>10, <1>11
  <2> QED BY <2>1
<1>12. ASSUME NEW d \in OnCard
       PROVE  \E i \in 1..n : Nth(i) = d
  <2>1. rank[d] + 1 \in 1..n /\ (rank[d] + 1) - 1 = rank[d]
    BY <1>1, <1>5
  <2>2. Nth(rank[d] + 1) \in OnCard /\ rank[Nth(rank[d] + 1)] = rank[d]
    BY <1>10, <2>1
  <2> QED BY <1>6, <2>1, <2>2
<1> QED BY <1>1, <1>10, <1>11, <1>12

LEMMA EntryFacts ==
  ASSUME NEW e, IsEntry(e)
  PROVE  e.path \in Dirs /\ e.path = <<e.name, e.type, e.on>> /\ Id(e) = Of(e.path)
BY DEF IsEntry, Dirs, Id, Of

LEMMA EntryRenamed ==
  ASSUME NEW e, IsEntry(e), NEW t
  PROVE  IsEntry([e EXCEPT !.shown = t]) /\ [e EXCEPT !.shown = t].path = e.path
<1>a. PICK d \in Dirs : \E s :
        e = [path |-> d, name |-> d[1], type |-> d[2], on |-> d[3], shown |-> s]
  BY DEF IsEntry
<1>1. PICK s : e = [path |-> d, name |-> d[1], type |-> d[2], on |-> d[3], shown |-> s]
  BY <1>a
<1>2. [e EXCEPT !.shown = t] = [path |-> d, name |-> d[1], type |-> d[2], on |-> d[3], shown |-> t]
  BY <1>1
<1> QED BY <1>1, <1>2 DEF IsEntry

LEMMA EntryRetyped ==
  ASSUME NEW e, IsEntry(e), NEW ty \in Types
  PROVE  /\ IsEntry([[e EXCEPT !.path = Retyped(e, ty)] EXCEPT !.type = ty])
         /\ [[e EXCEPT !.path = Retyped(e, ty)] EXCEPT !.type = ty].path = Retyped(e, ty)
         /\ Retyped(e, ty) \in Dirs /\ Id(e) = Of(e.path) /\ <<e.name, ty>> = Of(Retyped(e, ty))
<1>a. PICK d \in Dirs : \E s :
        e = [path |-> d, name |-> d[1], type |-> d[2], on |-> d[3], shown |-> s]
  BY DEF IsEntry
<1>1. PICK s : e = [path |-> d, name |-> d[1], type |-> d[2], on |-> d[3], shown |-> s]
  BY <1>a
<1> DEFINE new == Retyped(e, ty)
<1>2. /\ new = <<d[1], ty, d[3]>> /\ new \in Dirs
      /\ new[1] = d[1] /\ new[2] = ty /\ new[3] = d[3]
  BY <1>1 DEF Dirs, Retyped
<1> DEFINE f == [[e EXCEPT !.path = new] EXCEPT !.type = ty]
<1>3. f = [path |-> new, name |-> new[1], type |-> new[2], on |-> new[3], shown |-> s]
  <2>1. f = [[e EXCEPT !.path = new] EXCEPT !.type = ty]
    OBVIOUS
  <2> HIDE DEF f, new
  <2> QED BY <1>1, <1>2, <2>1
<1>4. IsEntry(f) /\ f.path = new
  <2> HIDE DEF f, new
  <2> QED BY <1>2, <1>3 DEF IsEntry
<1>5. <<e.name, ty>> = Of(new)
  BY <1>1, <1>2 DEF Of
<1> QED BY <1>2, <1>4, <1>5, EntryFacts

LEMMA EntrySwitched ==
  ASSUME NEW e, IsEntry(e), NEW new, new = <<e.path[1], e.path[2], ~e.on>>
  PROVE  /\ IsEntry([[e EXCEPT !.path = new] EXCEPT !.on = ~e.on])
         /\ [[e EXCEPT !.path = new] EXCEPT !.on = ~e.on].path = new /\ new \in Dirs /\ Of(new) = Of(e.path) /\ new # e.path
<1>a. PICK d \in Dirs : \E s :
        e = [path |-> d, name |-> d[1], type |-> d[2], on |-> d[3], shown |-> s]
  BY DEF IsEntry
<1>1. PICK s : e = [path |-> d, name |-> d[1], type |-> d[2], on |-> d[3], shown |-> s]
  BY <1>a
<1>2. /\ new = <<d[1], d[2], ~d[3]>> /\ new \in Dirs /\ e.path = d /\ d[3] \in BOOLEAN
      /\ new[1] = d[1] /\ new[2] = d[2] /\ new[3] = ~d[3] /\ e.on = d[3]
  BY <1>1 DEF Dirs
<1> DEFINE f == [[e EXCEPT !.path = new] EXCEPT !.on = ~e.on]
<1>3. f = [path |-> new, name |-> new[1], type |-> new[2], on |-> new[3], shown |-> s]
  <2>1. f = [[e EXCEPT !.path = new] EXCEPT !.on = ~e.on]
    OBVIOUS
  <2> HIDE DEF f
  <2> QED BY <1>1, <1>2, <2>1
<1>4. IsEntry(f) /\ f.path = new
  BY <1>2, <1>3 DEF IsEntry
<1>5. Of(new) = Of(e.path) /\ new # e.path
  BY <1>2 DEF Of
<1> QED BY <1>2, <1>4, <1>5

(* What the steps keep as they rewrite one entry.                           *)
LEMMA Rewriting ==
  ASSUME IsSeq(modInfo), NEW p \in DOMAIN modInfo, NEW a, NEW b, NEW t
  PROVE  /\ [modInfo EXCEPT ![p].shown = t] =
              [j \in DOMAIN modInfo |-> IF j = p THEN [modInfo[p] EXCEPT !.shown = t] ELSE modInfo[j]]
         /\ [modInfo EXCEPT ![p].path = a, ![p].type = b] =
              [j \in DOMAIN modInfo |-> IF j = p THEN [[modInfo[p] EXCEPT !.path = a] EXCEPT !.type = b]
                                         ELSE modInfo[j]]
         /\ [modInfo EXCEPT ![p].path = a, ![p].on = b] =
              [j \in DOMAIN modInfo |-> IF j = p THEN [[modInfo[p] EXCEPT !.path = a] EXCEPT !.on = b]
                                         ELSE modInfo[j]]
BY IsFunction

(* The steps that leave the card alone.                                     *)
LEMMA SamePaths ==
  ASSUME PathInv, IsSeq(modInfo), UNCHANGED <<dirs, inbox, half>>, menu' = menu,
         DOMAIN modInfo' = DOMAIN modInfo,
         \A i \in DOMAIN modInfo : IsEntry(modInfo'[i]) /\ modInfo'[i].path = modInfo[i].path
  PROVE  PathInv'
BY DEF PathInv, OnCard

LEMMA RetypePaths ==
  ASSUME PathInv, CursorInv, Dialog_MODLIST_TYPE_Menu
  PROVE  PathInv'
<1>1. PICK type \in Types :
        LET old == Selected.path  new == Retyped(Selected, type)
            ids == {Id(Selected), <<Selected.name, type>>}
        IN  /\ Ask /\ UNCHANGED inbox
            /\ \/ UNCHANGED <<dirs, modInfo, half>>
               \/ /\ MayRename(old, new) /\ dirs' = Renamed(old, new)
                  /\ \/ /\ modInfo' = [modInfo EXCEPT ![Position].path = new,
                                                      ![Position].type = type]
                        /\ half' = IF Id(Selected) \in half THEN half \union ids ELSE half
                     \/ half' = half \union ids /\ UNCHANGED modInfo
  BY DEF Dialog_MODLIST_TYPE_Menu
<1> DEFINE p   == Position
           e   == modInfo[p]
           new == Retyped(e, type)
<1>2. Selected = e
  BY DEF Selected
<1>3. menu' = menu /\ menu = "mods" /\ modInfo # <<>> /\ inbox' = inbox
  BY <1>1 DEF Ask
<1>4. p \in DOMAIN modInfo /\ IsSeq(modInfo)
  BY <1>3, Positioned DEF CursorInv, IsSeq
<1>5. IsEntry(e)
  BY <1>4 DEF PathInv
<1> DEFINE f == [[e EXCEPT !.path = new] EXCEPT !.type = type]
<1> HIDE DEF new, e, p
<1>7. IsEntry(f) /\ f.path = new /\ new \in Dirs /\ Id(e) = Of(e.path) /\ <<e.name, type>> = Of(new)
  BY <1>1, <1>5, EntryRetyped, Zenon DEF new
<1>8. CASE UNCHANGED <<dirs, modInfo, half>>
  BY <1>3, <1>8 DEF PathInv, OnCard
<1>9. CASE MayRename(e.path, new) /\ dirs' = Renamed(e.path, new)
  <2>1. /\ OnCard' = (OnCard \ {e.path}) \union {new}
        /\ e.path \in OnCard /\ (new \notin OnCard \/ new = e.path)
    BY <1>9 DEF OnCard, Renamed, MayRename
  <2>2. CASE /\ modInfo' = [modInfo EXCEPT ![p].path = new, ![p].type = type]
             /\ half' = IF Id(e) \in half THEN half \union {Id(e), <<e.name, type>>} ELSE half
    <3>1. modInfo' = [j \in DOMAIN modInfo |-> IF j = p THEN f ELSE modInfo[j]]
      BY <1>4, <2>2, Rewriting DEF e
    <3> HIDE DEF f
    <3>2. DOMAIN modInfo' = DOMAIN modInfo /\ modInfo'[p] = f
          /\ \A j \in DOMAIN modInfo : j # p => modInfo'[j] = modInfo[j]
      BY <1>4, <3>1
    <3>3. \A i \in DOMAIN modInfo' : IsEntry(modInfo'[i])
      BY <1>7, <3>2 DEF PathInv
    <3>4. half \subseteq half' /\ (Of(e.path) \in half => Of(new) \in half')
      BY <1>7, <2>2
    <3>5. \A i \in DOMAIN modInfo : i # p => Of(modInfo[i].path) \in half
                                           \/ (modInfo[i].path \in OnCard /\ modInfo[i].path # e.path)
      BY <1>4 DEF PathInv, e
    <3>6. \A i \in DOMAIN modInfo' : Of(modInfo'[i].path) \in half' \/ modInfo'[i].path \in OnCard'
      BY <1>7, <2>1, <3>2, <3>4, <3>5
    <3>7. \A i \in DOMAIN modInfo : i # p /\ modInfo[i].path = new => Of(new) \in half
      BY <2>1, <3>5
    <3>8. \A i, j \in DOMAIN modInfo' :
            modInfo'[i].path = modInfo'[j].path /\ i # j => Of(modInfo'[i].path) \in half'
      <4> SUFFICES ASSUME NEW i \in DOMAIN modInfo, NEW j \in DOMAIN modInfo, i # j,
                          modInfo'[i].path = modInfo'[j].path
                   PROVE  Of(modInfo'[i].path) \in half'
        BY <3>2
      <4>1. CASE i = p
        BY <1>7, <3>2, <3>4, <3>7, <4>1
      <4>2. CASE j = p
        BY <1>7, <3>2, <3>4, <3>7, <4>2
      <4>3. CASE i # p /\ j # p
        BY <3>2, <3>4, <4>3 DEF PathInv
      <4> QED BY <4>1, <4>2, <4>3
    <3>9. \A d \in OnCard' : Of(d) \in half' \/ \E i \in DOMAIN modInfo' : modInfo'[i].path = d
      <4> SUFFICES ASSUME NEW d \in OnCard'
                   PROVE  Of(d) \in half' \/ \E i \in DOMAIN modInfo' : modInfo'[i].path = d
        OBVIOUS
      <4>1. CASE d = new
        BY <1>4, <1>7, <3>2, <4>1
      <4>2. CASE d \in OnCard /\ d # e.path
        <5>1. Of(d) \in half \/ \E i \in DOMAIN modInfo : modInfo[i].path = d
          BY <1>3, <4>2 DEF PathInv
        <5> QED BY <3>2, <3>4, <4>2, <5>1 DEF e
      <4> QED BY <2>1, <4>1, <4>2
    <3>10. OnCard' \subseteq Dirs
      BY <1>7, <2>1 DEF PathInv
    <3> QED BY <1>3, <3>3, <3>6, <3>8, <3>9, <3>10 DEF PathInv
  <2>3. CASE half' = half \union {Id(e), <<e.name, type>>} /\ UNCHANGED modInfo
    <3>1. half \subseteq half' /\ Of(e.path) \in half' /\ Of(new) \in half'
      BY <1>7, <2>3
    <3>2. \A i \in DOMAIN modInfo : Of(modInfo[i].path) \in half' \/ modInfo[i].path \in OnCard'
      BY <2>1, <3>1 DEF PathInv
    <3>3. OnCard' \subseteq Dirs
      BY <1>7, <2>1 DEF PathInv
    <3>4. \A d \in OnCard' : Of(d) \in half' \/ \E i \in DOMAIN modInfo : modInfo[i].path = d
      BY <1>3, <2>1, <3>1 DEF PathInv
    <3> QED BY <1>3, <2>3, <3>1, <3>2, <3>3, <3>4 DEF PathInv
  <2> QED BY <1>1, <1>2, <1>8, <2>2, <2>3 DEF p, new
<1> QED BY <1>1, <1>2, <1>8, <1>9 DEF p, new

LEMMA SwitchPaths ==
  ASSUME PathInv, CursorInv, ChangeModName
  PROVE  PathInv'
<1> DEFINE p   == Position
           e   == modInfo[p]
           new == <<e.path[1], e.path[2], ~e.on>>
           f   == [[e EXCEPT !.path = new] EXCEPT !.on = ~e.on]
<1>1. /\ Ask /\ MayRename(e.path, new) /\ dirs' = Renamed(e.path, new)
      /\ UNCHANGED <<half, inbox>>
      /\ modInfo' = [modInfo EXCEPT ![p].path = new, ![p].on = ~e.on]
  BY DEF ChangeModName, Selected
<1>2. menu' = menu /\ menu = "mods" /\ modInfo # <<>>
  BY <1>1 DEF Ask
<1>3. p \in DOMAIN modInfo /\ IsSeq(modInfo)
  BY <1>2, Positioned DEF CursorInv, IsSeq
<1>4. IsEntry(e)
  BY <1>3 DEF PathInv
<1>5. IsEntry(f) /\ f.path = new /\ new \in Dirs /\ Of(new) = Of(e.path) /\ new # e.path
  <2>1. new = <<e.path[1], e.path[2], ~e.on>>
    OBVIOUS
  <2> HIDE DEF new, e
  <2> QED BY <1>4, <2>1, EntrySwitched, ZenonT(40)
<1>6. modInfo' = [j \in DOMAIN modInfo |-> IF j = p THEN f ELSE modInfo[j]]
  BY <1>1, <1>3, Rewriting
<1>7. /\ OnCard' = (OnCard \ {e.path}) \union {new}
      /\ e.path \in OnCard /\ new \notin OnCard
  BY <1>1, <1>5 DEF OnCard, Renamed, MayRename
<1> HIDE DEF f, new, e, p
<1>8. DOMAIN modInfo' = DOMAIN modInfo /\ modInfo'[p] = f
      /\ \A j \in DOMAIN modInfo : j # p => modInfo'[j] = modInfo[j]
  BY <1>3, <1>6
<1>9. \A i \in DOMAIN modInfo : i # p => Of(modInfo[i].path) \in half
                                       \/ (modInfo[i].path \in OnCard /\ modInfo[i].path # e.path)
  BY <1>3 DEF PathInv, e
<1>10. \A i \in DOMAIN modInfo' : IsEntry(modInfo'[i])
  BY <1>5, <1>8 DEF PathInv
<1>11. \A i \in DOMAIN modInfo' : Of(modInfo'[i].path) \in half' \/ modInfo'[i].path \in OnCard'
  BY <1>1, <1>5, <1>7, <1>8, <1>9
<1>12. \A i, j \in DOMAIN modInfo' :
         modInfo'[i].path = modInfo'[j].path /\ i # j => Of(modInfo'[i].path) \in half'
  <2> SUFFICES ASSUME NEW i \in DOMAIN modInfo, NEW j \in DOMAIN modInfo, i # j,
                      modInfo'[i].path = modInfo'[j].path
               PROVE  Of(modInfo'[i].path) \in half'
    BY <1>8
  <2>1. CASE i = p
    BY <1>1, <1>5, <1>7, <1>8, <1>9, <2>1
  <2>2. CASE j = p
    BY <1>1, <1>5, <1>7, <1>8, <1>9, <2>2
  <2>3. CASE i # p /\ j # p
    BY <1>1, <1>8, <2>3 DEF PathInv
  <2> QED BY <2>1, <2>2, <2>3
<1>13. \A d \in OnCard' : Of(d) \in half' \/ \E i \in DOMAIN modInfo' : modInfo'[i].path = d
  <2> SUFFICES ASSUME NEW d \in OnCard'
               PROVE  Of(d) \in half' \/ \E i \in DOMAIN modInfo' : modInfo'[i].path = d
    OBVIOUS
  <2>1. CASE d = new
    BY <1>3, <1>5, <1>8, <2>1
  <2>2. CASE d \in OnCard /\ d # e.path
    <3>1. Of(d) \in half \/ \E i \in DOMAIN modInfo : modInfo[i].path = d
      BY <1>2, <2>2 DEF PathInv
    <3> QED BY <1>1, <1>8, <2>2, <3>1 DEF e
  <2> QED BY <1>7, <2>1, <2>2
<1>14. OnCard' \subseteq Dirs
  BY <1>5, <1>7 DEF PathInv
<1> QED BY <1>1, <1>10, <1>11, <1>12, <1>13, <1>14 DEF PathInv

LEMMA RemovePaths ==
  ASSUME PathInv, CursorInv, RemoveMod
  PROVE  PathInv'
<1> DEFINE p == Position
           n == Len(modInfo)
           g == modInfo[p].path
<1>1. /\ menu' = menu /\ menu = "mods" /\ modInfo # <<>> /\ n > 1
      /\ modInfo' = RemoveAt(modInfo, p) /\ g \in OnCard
      /\ \/ dirs' = Without(g) /\ half' = half
         \/ dirs' = [dirs EXCEPT ![g] = 0] /\ half' = half \union {Id(modInfo[p])}
  BY DEF RemoveMod, MayRemove, RemoveEntry, Ask, Selected
<1>2. n \in Nat \ {0} /\ p \in 1..n /\ IsSeq(modInfo) /\ DOMAIN modInfo = 1..n
  BY <1>1, Positioned DEF CursorInv, IsSeq
<1>3. IsEntry(modInfo[p]) /\ Id(modInfo[p]) = Of(g)
  BY <1>2, EntryFacts DEF PathInv
<1>4. /\ OnCard' = OnCard \/ OnCard' = OnCard \ {g}
      /\ OnCard' = OnCard => Of(g) \in half' \/ half' = half
      /\ half \subseteq half'
  BY <1>1, <1>3 DEF OnCard, Without
<1>5. OnCard' = OnCard => Of(g) \in half'
  BY <1>1, <1>3, <1>4 DEF OnCard, Without
<1>6. /\ IsSeq(modInfo') /\ DOMAIN modInfo' = 1..(n - 1)
      /\ \A j \in 1..(n - 1) : modInfo'[j] = IF j < p THEN modInfo[j] ELSE modInfo[j + 1]
  <2>1. /\ IsSeq(modInfo') /\ Len(modInfo') = n - 1
        /\ \A j \in 1..(n - 1) : modInfo'[j] = IF j < p THEN modInfo[j] ELSE modInfo[j + 1]
    BY <1>1, <1>2, Removed
  <2>2. DOMAIN modInfo' = 1..Len(modInfo')
    BY <2>1 DEF IsSeq
  <2> QED BY <2>1, <2>2
<1> DEFINE was(j) == IF j < p THEN j ELSE j + 1
<1>7. \A j \in 1..(n - 1) : was(j) \in 1..n /\ was(j) # p /\ modInfo'[j] = modInfo[was(j)]
  BY <1>2, <1>6
<1>8. \A i, j \in 1..(n - 1) : i # j => was(i) # was(j)
  BY <1>2
<1>9. \A k \in 1..n : k # p => \E j \in 1..(n - 1) : was(j) = k
  <2> SUFFICES ASSUME NEW k \in 1..n, k # p
               PROVE  \E j \in 1..(n - 1) : was(j) = k
    OBVIOUS
  <2>1. CASE k < p
    BY <1>2, <2>1
  <2>2. CASE k > p
    <3>1. k - 1 \in 1..(n - 1) /\ was(k - 1) = k
      BY <1>2, <2>2
    <3> QED BY <3>1
  <2> QED BY <1>2, <2>1, <2>2
<1> HIDE DEF was, g, p, n
<1>10. \A i \in 1..n : i # p => Of(modInfo[i].path) \in half
                             \/ (modInfo[i].path \in OnCard /\ modInfo[i].path # g)
  BY <1>2 DEF PathInv, g
<1>11. \A i \in 1..(n - 1) : Of(modInfo'[i].path) \in half' \/ modInfo'[i].path \in OnCard'
  BY <1>4, <1>7, <1>10
<1>12. \A i \in 1..(n - 1) : IsEntry(modInfo'[i])
  BY <1>2, <1>7 DEF PathInv
<1>13. \A i, j \in 1..(n - 1) :
         modInfo'[i].path = modInfo'[j].path /\ i # j => Of(modInfo'[i].path) \in half'
  BY <1>2, <1>4, <1>7, <1>8 DEF PathInv
<1>14. \A d \in OnCard' : Of(d) \in half' \/ \E i \in 1..(n - 1) : modInfo'[i].path = d
  <2> SUFFICES ASSUME NEW d \in OnCard', Of(d) \notin half'
               PROVE  \E i \in 1..(n - 1) : modInfo'[i].path = d
    OBVIOUS
  <2>1. d \in OnCard /\ Of(d) \notin half /\ d # g
    BY <1>4, <1>5
  <2>2. PICK k \in 1..n : modInfo[k].path = d
    BY <1>1, <1>2, <2>1 DEF PathInv
  <2>3. k # p
    BY <2>1, <2>2 DEF g
  <2> QED BY <1>7, <1>9, <2>2, <2>3
<1>15. OnCard' \subseteq Dirs
  BY <1>4 DEF PathInv
<1>16. inbox' \subseteq Mods
  <2>1. modInfo[p].name \in Mods
    BY <1>2 DEF PathInv, IsEntry, Dirs
  <2>2. MovedBack(modInfo[p].name)
    BY DEF RemoveMod, Selected, p
  <2> QED BY <2>1, <2>2 DEF MovedBack, PathInv
<1> QED BY <1>6, <1>11, <1>12, <1>13, <1>14, <1>15, <1>16 DEF PathInv

LEMMA AppendPaths ==
  ASSUME PathInv, CursorInv, AppendMod
  PROVE  PathInv'
<1>1. PICK m \in inbox :
        LET new == <<m, NoType, FALSE>>
        IN  /\ Ask /\ \E k : dirs' = With(new, k)
            /\ \/ /\ modInfo' = Append(modInfo, [path |-> new, name |-> m, type |-> NoType,
                                                on |-> FALSE, shown |-> m])
                  /\ inbox' = inbox \ {m}
                  /\ half' = IF new \in OnCard \/ <<m, NoType, TRUE>> \in OnCard
                             THEN half \union {<<m, NoType>>} ELSE half
               \/ /\ half' = half \union {<<m, NoType>>}
                  /\ UNCHANGED <<inbox, modInfo>>
  BY DEF AppendMod
<1> DEFINE new == <<m, NoType, FALSE>>
           e   == [path |-> new, name |-> m, type |-> NoType, on |-> FALSE, shown |-> m]
           n   == Len(modInfo)
<1>2. menu' = menu /\ menu = "mods" /\ modInfo # <<>>
  BY <1>1 DEF Ask
<1>3. n \in Nat \ {0} /\ IsSeq(modInfo) /\ DOMAIN modInfo = 1..n
  BY <1>2, Positioned DEF CursorInv, IsSeq
<1>4. new \in Dirs /\ IsEntry(e) /\ e.path = new /\ Of(new) = <<m, NoType>>
  <2>1. new \in Dirs
    BY DEF Dirs, PathInv
  <2>2. e = [path |-> new, name |-> new[1], type |-> new[2], on |-> new[3], shown |-> m]
    OBVIOUS
  <2> QED BY <2>1, <2>2 DEF IsEntry, Of
<1>5. OnCard' = OnCard \union {new} /\ half \subseteq half'
  BY <1>1 DEF OnCard, With
<1> HIDE DEF new, e, n
<1>6. OnCard' \subseteq Dirs /\ inbox' \subseteq Mods
  BY <1>1, <1>4, <1>5 DEF PathInv
<1>7. CASE modInfo' = modInfo /\ Of(new) \in half'
  BY <1>2, <1>5, <1>6, <1>7 DEF PathInv
<1>8. CASE modInfo' = Append(modInfo, e) /\ (new \in OnCard => Of(new) \in half')
  <2>1. /\ DOMAIN modInfo' = 1..(n + 1) /\ modInfo'[n + 1] = e
        /\ \A j \in 1..n : modInfo'[j] = modInfo[j]
    <3>1. /\ IsSeq(modInfo') /\ Len(modInfo') = n + 1 /\ modInfo'[n + 1] = e
          /\ \A j \in 1..n : modInfo'[j] = modInfo[j]
      BY <1>3, <1>8, Appended DEF n
    <3>2. DOMAIN modInfo' = 1..Len(modInfo')
      BY <3>1 DEF IsSeq
    <3> QED BY <3>1, <3>2
  <2>2. \A i \in 1..(n + 1) : i = n + 1 \/ i \in 1..n
    BY <1>3
  <2>3. \A i \in 1..(n + 1) : IsEntry(modInfo'[i])
    BY <1>3, <1>4, <2>1, <2>2 DEF PathInv
  <2>4. \A i \in 1..(n + 1) : Of(modInfo'[i].path) \in half' \/ modInfo'[i].path \in OnCard'
    BY <1>3, <1>4, <1>5, <2>1, <2>2 DEF PathInv
  <2>5. \A i \in 1..n : modInfo[i].path = new => Of(new) \in half'
    BY <1>3, <1>5, <1>8 DEF PathInv
  <2>6. \A i, j \in 1..(n + 1) :
          modInfo'[i].path = modInfo'[j].path /\ i # j => Of(modInfo'[i].path) \in half'
    <3> SUFFICES ASSUME NEW i \in 1..(n + 1), NEW j \in 1..(n + 1), i # j,
                        modInfo'[i].path = modInfo'[j].path
                 PROVE  Of(modInfo'[i].path) \in half'
      OBVIOUS
    <3>1. CASE i = n + 1 \/ j = n + 1
      BY <1>4, <2>1, <2>2, <2>5, <3>1
    <3>2. CASE i \in 1..n /\ j \in 1..n
      BY <1>3, <1>5, <2>1, <3>2 DEF PathInv
    <3> QED BY <2>2, <3>1, <3>2
  <2>7. \A d \in OnCard' : Of(d) \in half' \/ \E i \in 1..(n + 1) : modInfo'[i].path = d
    <3> SUFFICES ASSUME NEW d \in OnCard', Of(d) \notin half'
                 PROVE  \E i \in 1..(n + 1) : modInfo'[i].path = d
      OBVIOUS
    <3>1. n + 1 \in 1..(n + 1) /\ \A i \in 1..n : i \in 1..(n + 1)
      BY <1>3
    <3>2. CASE d = new
      BY <1>4, <2>1, <3>1, <3>2
    <3>3. CASE d \in OnCard
      BY <1>2, <1>3, <1>5, <2>1, <3>1, <3>3 DEF PathInv
    <3> QED BY <1>5, <3>2, <3>3
  <2> QED BY <1>6, <2>1, <2>3, <2>4, <2>6, <2>7 DEF PathInv
<1> QED BY <1>1, <1>4, <1>7, <1>8 DEF new, e

LEMMA OpenPaths ==
  ASSUME PathInv, CursorInv, OpenGame
  PROVE  PathInv'
<1>1. /\ modInfo' = [i \in 1..Cardinality(OnCard) |-> EntryOf(cache', Nth(i))]
      /\ UNCHANGED <<dirs, inbox, half>>
  BY DEF OpenGame, FastScanModInfo, ghosts
<1>2. OnCard \subseteq Dirs /\ IsFiniteSet(OnCard) /\ OnCard' = OnCard
  BY <1>1 DEF PathInv, CursorInv, OnCard
<1> DEFINE n == Cardinality(OnCard)
<1>3. /\ \A i \in 1..n : Nth(i) \in OnCard
      /\ \A i, j \in 1..n : Nth(i) = Nth(j) => i = j
      /\ \A d \in OnCard : \E i \in 1..n : Nth(i) = d
  BY <1>2, NthEnumerates
<1>4. DOMAIN modInfo' = 1..n /\ \A i \in 1..n : modInfo'[i] = EntryOf(cache', Nth(i))
  BY <1>1
<1>5. \A d \in OnCard : IsEntry(EntryOf(cache', d)) /\ EntryOf(cache', d).path = d
  BY <1>2 DEF IsEntry, EntryOf
<1> HIDE DEF n
<1>6. \A i \in 1..n : IsEntry(modInfo'[i]) /\ modInfo'[i].path = Nth(i)
  BY <1>3, <1>4, <1>5
<1>7. \A i, j \in 1..n : modInfo'[i].path = modInfo'[j].path => i = j
  BY <1>3, <1>6
<1>8. \A d \in OnCard : \E i \in 1..n : modInfo'[i].path = d
  BY <1>3, <1>6
<1>9. \A i \in 1..n : modInfo'[i].path \in OnCard'
  BY <1>2, <1>3, <1>6
<1>10. OnCard' \subseteq Dirs /\ inbox' \subseteq Mods
  BY <1>1, <1>2 DEF PathInv
<1> QED BY <1>2, <1>4, <1>6, <1>7, <1>8, <1>9, <1>10 DEF PathInv

LEMMA InitPathInv == Init => PathInv
BY ModsAssumption DEF Init, PathInv, OnCard

LEMMA NextPathInv == CursorInv /\ PathInv /\ [Next]_vars => PathInv'
<1> SUFFICES ASSUME CursorInv, PathInv, [Next]_vars PROVE PathInv'
  OBVIOUS
<1>0. CASE UNCHANGED vars
  BY <1>0 DEF vars, ghosts, PathInv, OnCard
<1>1. CASE Leave
  BY <1>1 DEF Leave, PathInv, OnCard
<1>2. CASE Move
  BY <1>2 DEF Move, ghosts, PathInv, OnCard
<1>3. CASE changemodname
  <2>1. PICK t \in Texts :
          /\ Ask /\ UNCHANGED <<dirs, inbox, half>>
          /\ modInfo' = modInfo \/ modInfo' = [modInfo EXCEPT ![Position].shown = t]
    BY <1>3 DEF changemodname
  <2>2. menu' = menu /\ modInfo # <<>>
    BY <2>1 DEF Ask
  <2>3. Position \in DOMAIN modInfo /\ IsSeq(modInfo)
    BY <2>2, Positioned DEF CursorInv, IsSeq
  <2>4. IsEntry([modInfo[Position] EXCEPT !.shown = t])
        /\ [modInfo[Position] EXCEPT !.shown = t].path = modInfo[Position].path
    BY <2>3, EntryRenamed DEF PathInv
  <2>5. DOMAIN modInfo' = DOMAIN modInfo
        /\ \A j \in DOMAIN modInfo : modInfo'[j] = modInfo[j]
             \/ (j = Position /\ modInfo'[j] = [modInfo[Position] EXCEPT !.shown = t])
    BY <2>1, <2>3, Rewriting
  <2> QED BY <2>1, <2>2, <2>3, <2>4, <2>5, SamePaths DEF PathInv
<1>4. CASE changemoddescription
  BY <1>4 DEF changemoddescription, Ask, PathInv, OnCard
<1> QED BY <1>0, <1>1, <1>2, <1>3, <1>4, OpenPaths, RetypePaths, RemovePaths, SwitchPaths,
           AppendPaths DEF Next

(* Whatever is done in the list, what the handlers take from it is on the   *)
(* card, and the list leaves no mod out.                                    *)
THEOREM ListIsWhatIsOnCard == Spec => []PathsOnCard
<1>1. CursorInv /\ PathInv => PathsOnCard
  <2> SUFFICES ASSUME CursorInv, PathInv, menu = "mods" PROVE PathsOnCard
    BY DEF PathsOnCard
  <2>1. \A i \in DOMAIN modInfo : /\ Id(modInfo[i]) = Of(modInfo[i].path)
                                  /\ modInfo[i].path = <<modInfo[i].name, modInfo[i].type, modInfo[i].on>>
    BY EntryFacts DEF PathInv
  <2> QED BY <2>1 DEF PathsOnCard, PathInv, Of
<1> QED BY <1>1, InitCursorInv, NextCursorInv, InitPathInv, NextPathInv, PTL DEF Spec

-----------------------------------------------------------------------------
(* What the file tells of a mod *)

Ids    == Mods \X (Types \union {NoType})
Key(m) == <<m[1], m[2], FALSE>>
Object == Seq(Fields \X Texts)
File   == [torn : BOOLEAN, members : Seq(Member)]

(* Under the key k the text v is told in the field f.                       *)
Told(o, k, f, v) == \E i \in DOMAIN o :
  o[i][1] = k /\ IsObject(o[i][2]) /\ Has(o[i][2], f) /\ Value(o[i][2], f) = v

(* y is x with the value v for the key k.                                   *)
IsPut(y, S, x, k, v) ==
  /\ y \in Seq(S) /\ Has(y, k) /\ SameBut(y, x, {k}) /\ Once(y, k)
  /\ \A i \in DOMAIN y : y[i][1] = k => y[i][2] = v

LEMMA PutIs ==
  ASSUME NEW S, NEW x \in Seq(S), NEW k, NEW v, <<k, v>> \in S
  PROVE  IsPut(Put(x, k, v), S, x, k, v)
<1>1. /\ Put(x, k, v) \in Seq(S) /\ Has(Put(x, k, v), k) /\ SameBut(Put(x, k, v), x, {k})
      /\ \A i \in DOMAIN Put(x, k, v) : Put(x, k, v)[i][1] = k => Put(x, k, v)[i] = <<k, v>>
      /\ Once(Put(x, k, v), k)
  BY PutSame
<1> QED BY <1>1 DEF IsPut

(* Of m there is at most one record, and what was given is in it.           *)
Claim(o, m, g) ==
  /\ Once(o, Key(m))
  /\ \A f \in Fields : g[f] = "nothing" \/ Told(o, Key(m), f, g[f])

LEMMA SameTold ==
  ASSUME NEW o, NEW t, NEW K, SameBut(t, o, K), NEW k, k \notin K, NEW f, NEW v, Told(o, k, f, v)
  PROVE  Told(t, k, f, v)
<1>1. PICK i \in DOMAIN o :
        o[i][1] = k /\ IsObject(o[i][2]) /\ Has(o[i][2], f) /\ Value(o[i][2], f) = v
  BY DEF Told
<1>2. PICK e : SameButBy(e, t, o, K)
  BY DEF SameBut
<1>3. PICK j \in DOMAIN t : t[j] = o[i]
  BY <1>1, <1>2 DEF SameButBy, Others
<1> QED BY <1>1, <1>3 DEF Told

LEMMA SameClaim ==
  ASSUME NEW o \in Seq(Member), NEW t \in Seq(Member), NEW K, SameBut(t, o, K),
         NEW m, Key(m) \notin K, NEW g, Claim(o, m, g)
  PROVE  Claim(t, m, g)
<1>1. Once(t, Key(m))
  BY SameOnce DEF Claim
<1> QED BY <1>1, SameTold DEF Claim

LEMMA Unchanged == ASSUME NEW o \in Seq(Member) PROVE SameBut(o, o, {})
<1>1. DOMAIN o \subseteq Nat
  BY LenProperties
<1> QED BY <1>1, MappedSame

LEMMA MemberIs ==
  ASSUME NEW o \in Seq(Member), NEW i \in DOMAIN o
  PROVE  /\ o[i] \in Member /\ o[i] = <<o[i][1], o[i][2]>> /\ o[i][1] \in Dirs
         /\ o[i][2] \in Texts \union Object
         /\ IsObject(o[i][2]) => o[i][2] \in Object
<1>1. o[i] \in Member
  BY LenProperties, ElementOfSeq
<1> QED BY <1>1 DEF Member, Object, IsObject

LEMMA PutValue ==
  ASSUME NEW x \in Object, NEW f \in Fields, NEW t \in Texts
  PROVE  /\ Put(x, f, t) \in Object /\ IsObject(Put(x, f, t))
         /\ Has(Put(x, f, t), f) /\ Value(Put(x, f, t), f) = t
         /\ \A g \in Fields \ {f} : Has(x, g) =>
              Has(Put(x, f, t), g) /\ Value(Put(x, f, t), g) = Value(x, g)
<1> DEFINE P == Fields \X Texts
           y == Put(x, f, t)
<1>1. x \in Seq(P) /\ <<f, t>> \in P
  BY DEF Object
<1>2. /\ y \in Seq(P) /\ Has(y, f) /\ SameBut(y, x, {f})
      /\ \A i \in DOMAIN y : y[i][1] = f => y[i][2] = t
  <2>1. IsPut(Put(x, f, t), P, x, f, t)
    BY <1>1, PutIs
  <2> HIDE DEF P
  <2> QED BY <2>1 DEF IsPut
<1> HIDE DEF y, P
<1>3. Find(y, f) \in 1..Len(y) /\ y[Find(y, f)][1] = f
  BY <1>2, FindFirst
<1>4. Value(y, f) = t
  <2>1. y[Find(y, f)][2] = t
    BY <1>2, <1>3, LenProperties
  <2> QED BY <2>1 DEF Value
<1>5. ASSUME NEW g \in Fields \ {f}, Has(x, g)
      PROVE  Has(y, g) /\ Value(y, g) = Value(x, g)
  <2>1. g \notin {f}
    OBVIOUS
  <2>2. y[Find(y, g)] = x[Find(x, g)]
    BY <1>1, <1>2, <1>5, <2>1, SameFirst
  <2> QED BY <1>2, <1>5, <2>1, <2>2, SameHas DEF Value
<1>6. y \in Object /\ IsObject(y)
  BY <1>2, TextsAssumption DEF P, Object, IsObject
<1> QED BY <1>2, <1>4, <1>5, <1>6 DEF y

LEMMA NewObject ==
  ASSUME NEW f \in Fields, NEW t \in Texts
  PROVE  /\ <<<<f, t>>>> \in Object /\ IsObject(<<<<f, t>>>>)
         /\ Has(<<<<f, t>>>>, f) /\ Value(<<<<f, t>>>>, f) = t
<1> DEFINE c == <<f, t>>
           P == Fields \X Texts
           x == <<c>>
<1>1. c \in P /\ c[1] = f /\ c[2] = t
  OBVIOUS
<1> HIDE DEF c, P
<1>2. x \in Seq(P) /\ DOMAIN x = {1} /\ x[1] = c
  BY <1>1, OneElement
<1> HIDE DEF x
<1>3. Has(x, f)
  BY <1>1, <1>2 DEF Has
<1>4. Find(x, f) = 1
  <2>1. Find(x, f) \in 1..Len(x)
    BY <1>2, <1>3, FindFirst
  <2>2. Find(x, f) \in DOMAIN x
    BY <1>2, <2>1, LenProperties
  <2> QED BY <1>2, <2>2
<1>5. Value(x, f) = t
  BY <1>1, <1>2, <1>4 DEF Value
<1>6. x \in Object /\ IsObject(x)
  BY <1>2, TextsAssumption DEF P, Object, IsObject
<1> QED BY <1>3, <1>5, <1>6 DEF x, c

(* A member <<k, x>> put in place of those with the key k.                  *)
LEMMA PutMember ==
  ASSUME NEW o \in Seq(Member), NEW k \in Dirs, NEW x \in Object
  PROVE  /\ Put(o, k, x) \in Seq(Member) /\ SameBut(Put(o, k, x), o, {k})
         /\ Has(Put(o, k, x), k) /\ Once(Put(o, k, x), k)
         /\ \A f, v : IsObject(x) /\ Has(x, f) /\ Value(x, f) = v => Told(Put(o, k, x), k, f, v)
<1> DEFINE t == Put(o, k, x)
<1>1. <<k, x>> \in Member
  BY DEF Member, Object
<1>2. /\ t \in Seq(Member) /\ Has(t, k) /\ SameBut(t, o, {k}) /\ Once(t, k)
      /\ \A i \in DOMAIN t : t[i][1] = k => t[i] = <<k, x>>
  BY <1>1, PutSame
<1> HIDE DEF t
<1>3. PICK i \in DOMAIN t : t[i][1] = k
  BY <1>2 DEF Has
<1>4. t[i] = <<k, x>>
  BY <1>2, <1>3
<1>5. \A f, v : IsObject(x) /\ Has(x, f) /\ Value(x, f) = v => Told(t, k, f, v)
  BY <1>3, <1>4 DEF Told
<1> QED BY <1>2, <1>5 DEF t

LEMMA ValueReplaced ==
  ASSUME NEW a, NEW b, NEW x
  PROVE  [<<a, b>> EXCEPT ![2] = x] = <<a, x>>
OBVIOUS

(* The value of the first member with the key k replaced.                   *)
Replaces(t, o, p) ==
  /\ t = [i \in DOMAIN o |-> t[i]] /\ t[p] \in Member /\ t[p][1] = o[p][1]
  /\ \A i \in DOMAIN o : i # p => t[i] = o[i]

SameKeys(t, o, k) ==
  /\ t \in Seq(Member) /\ SameBut(t, o, {k}) /\ DOMAIN t = DOMAIN o
  /\ \A i \in DOMAIN o : t[i][1] = o[i][1]

LEMMA ObjectReplaced ==
  ASSUME NEW o \in Seq(Member), NEW k, Has(o, k), NEW t, Replaces(t, o, Find(o, k))
  PROVE  SameKeys(t, o, k)
<1> DEFINE p == Find(o, k)
           m == t[p]
<1>1. DOMAIN o = 1..Len(o) /\ Len(o) \in Nat /\ DOMAIN o \subseteq Nat
  BY LenProperties
<1>2. p \in 1..Len(o) /\ o[p][1] = k
  BY FindFirst
<1>5. m \in Member /\ m[1] = k
  BY <1>2 DEF Replaces
<1> HIDE DEF p, m
<1>7. DOMAIN t = DOMAIN o /\ t[p] = m /\ \A i \in DOMAIN o : i # p => t[i] = o[i]
  BY DEF p, m, Replaces
<1>6. t \in Seq(Member)
  <2>1. \A i \in 1..Len(o) : t[i] \in Member
    BY <1>1, <1>5, <1>7, ElementOfSeq
  <2>2. t = [i \in 1..Len(o) |-> t[i]]
    BY <1>1 DEF Replaces
  <2>3. t \in [1..Len(o) -> Member]
    BY <2>1, <2>2
  <2> QED BY <1>1, <2>3, SeqDef
<1>8. \A i \in DOMAIN o : t[i] = o[i] \/ (o[i][1] \in {k} /\ t[i][1] \in {k})
  BY <1>2, <1>5, <1>7
<1>9. SameBut(t, o, {k})
  BY <1>1, <1>7, <1>8, MappedSame
<1>10. \A i \in DOMAIN o : t[i][1] = o[i][1]
  BY <1>8
<1> QED BY <1>6, <1>7, <1>9, <1>10 DEF SameKeys

(* changemodname and changemoddescription in the file: the text is told,    *)
(* what was told in the other field is, and the rest is as it was.          *)
LEMMA PutNestedTells ==
  ASSUME NEW o \in Seq(Member), NEW k \in Dirs, NEW f \in Fields, NEW t \in Texts
  PROVE  LET w == PutNested(o, k, f, t) IN
         /\ w \in Seq(Member) /\ SameBut(w, o, {k}) /\ Has(w, k)
         /\ Once(o, k) => Once(w, k) /\ Told(w, k, f, t)
         /\ \A g \in Fields \ {f} : \A v : Once(o, k) /\ Told(o, k, g, v) => Told(w, k, g, v)
<1> DEFINE w == PutNested(o, k, f, t)
           n == <<<<f, t>>>>
           p == Find(o, k)
<1>1. n \in Object /\ IsObject(n) /\ Has(n, f) /\ Value(n, f) = t
  BY NewObject
<1>2. CASE ~Has(o, k)
  <2>1. w = Put(o, k, n)
    <3>1. k # NoFavorites
      BY TextsAssumption
    <3> QED BY <1>2, <3>1 DEF PutNested, AddNested, Put
  <2>2. \A g, v : ~Told(o, k, g, v)
    BY <1>2 DEF Told, Has
  <2> HIDE DEF n, w
  <2>3. /\ w \in Seq(Member) /\ SameBut(w, o, {k}) /\ Has(w, k) /\ Once(w, k)
        /\ Told(w, k, f, t)
    BY <1>1, <2>1, PutMember
  <2> QED BY <2>2, <2>3 DEF w
<1>3. CASE Has(o, k) /\ ~IsObject(o[p][2])
  <2>1. w = Put(o, k, n)
    BY <1>3 DEF PutNested
  <2>2. p \in DOMAIN o /\ o[p][1] = k
    BY <1>3, FindFirst, LenProperties
  <2>3. \A g, v : ~(Once(o, k) /\ Told(o, k, g, v))
    <3> HIDE DEF p
    <3> QED BY <1>3, <2>2 DEF Told, Once
  <2> HIDE DEF n, w, p
  <2>4. /\ w \in Seq(Member) /\ SameBut(w, o, {k}) /\ Has(w, k) /\ Once(w, k)
        /\ Told(w, k, f, t)
    BY <1>1, <2>1, PutMember
  <2> QED BY <2>3, <2>4 DEF w
<1>4. CASE Has(o, k) /\ IsObject(o[p][2])
  <2> DEFINE b == o[p][2]
             x == Put(b, f, t)
  <2>1. w = [o EXCEPT ![p][2] = x]
    BY <1>4 DEF PutNested
  <2>2. p \in DOMAIN o /\ o[p][1] = k
    BY <1>4, FindFirst, LenProperties
  <2>3. b \in Object
    <3> HIDE DEF p
    <3> QED BY <1>4, <2>2, MemberIs
  <2> HIDE DEF b
  <2>4. /\ x \in Object /\ IsObject(x) /\ Has(x, f) /\ Value(x, f) = t
        /\ \A g \in Fields \ {f} : Has(b, g) => Has(x, g) /\ Value(x, g) = Value(b, g)
    BY <2>3, PutValue
  <2> HIDE DEF x, w
  <2>5. /\ w \in Seq(Member) /\ SameBut(w, o, {k}) /\ DOMAIN w = DOMAIN o
        /\ w[p] = <<k, x>> /\ \A i \in DOMAIN o : w[i][1] = o[i][1]
    <3>1. o[p] = <<k, b>>
      <4> HIDE DEF p
      <4> QED BY <2>2, MemberIs DEF b
    <3>2. w = [o EXCEPT ![p] = <<k, x>>]
      <4>1. w = [o EXCEPT ![p] = [o[p] EXCEPT ![2] = x]]
        BY <2>1
      <4>2. [o[p] EXCEPT ![2] = x] = <<k, x>>
        BY <3>1, ValueReplaced
      <4> QED BY <4>1, <4>2
    <3> DEFINE m == <<k, x>>
    <3>3. w = [o EXCEPT ![p] = m]
      BY <3>2
    <3>4. o = [i \in DOMAIN o |-> o[i]]
      BY LenProperties
    <3>5. m \in Member /\ m[1] = k
      BY <2>4 DEF Member, Object
    <3> HIDE DEF m
    <3>6. /\ w = [i \in DOMAIN o |-> w[i]] /\ w[p] = m
          /\ \A i \in DOMAIN o : i # p => w[i] = o[i]
      <4> HIDE DEF p
      <4> QED BY <2>2, <3>3, <3>4
    <3>7. /\ w \in Seq(Member) /\ SameBut(w, o, {k}) /\ DOMAIN w = DOMAIN o
          /\ \A i \in DOMAIN o : w[i][1] = o[i][1]
      <4>1. Replaces(w, o, p)
        BY <2>2, <3>5, <3>6 DEF Replaces
      <4>2. Has(o, k) /\ Replaces(w, o, Find(o, k))
        BY <1>4, <4>1
      <4>3. SameKeys(w, o, k)
        BY <4>2, ObjectReplaced
      <4> QED BY <4>3 DEF SameKeys
    <3> QED BY <3>6, <3>7 DEF m
  <2> HIDE DEF p
  <2>6. Has(w, k) /\ Told(w, k, f, t)
    BY <2>2, <2>4, <2>5 DEF Has, Told
  <2>7. Once(o, k) => Once(w, k)
    BY <2>5 DEF Once
  <2>8. ASSUME NEW g \in Fields \ {f}, NEW v, Once(o, k), Told(o, k, g, v)
        PROVE  Told(w, k, g, v)
    <3>1. PICK i \in DOMAIN o : o[i][1] = k /\ Has(o[i][2], g) /\ Value(o[i][2], g) = v
      BY <2>8 DEF Told
    <3>2. i = p
      BY <2>2, <2>8, <3>1 DEF Once
    <3>3. Has(x, g) /\ Value(x, g) = v
      BY <2>4, <3>1, <3>2 DEF b
    <3> QED BY <2>2, <2>4, <2>5, <3>3 DEF Told
  <2> QED BY <2>5, <2>6, <2>7, <2>8 DEF w
<1> QED BY <1>2, <1>3, <1>4

LEMMA SameWider ==
  ASSUME NEW o, NEW t, NEW K, NEW J, K \subseteq J, SameBut(t, o, K)
  PROVE  SameBut(t, o, J)
<1>1. PICK e : SameButBy(e, t, o, K)
  BY DEF SameBut
<1> DEFINE d == [j \in Others(t, J) |-> e[j]]
<1>2. Others(t, J) \subseteq Others(t, K) /\ Others(o, J) \subseteq Others(o, K)
  BY DEF Others
<1>3. \A j \in Others(t, J) : e[j] \in Others(o, J)
  BY <1>1, <1>2 DEF SameButBy, Others
<1>4. \A i \in Others(o, J) : \E j \in Others(t, J) : e[j] = i
  BY <1>1, <1>2 DEF SameButBy, Others
<1>5. SameButBy(d, t, o, J)
  BY <1>1, <1>2, <1>3, <1>4 DEF SameButBy
<1> QED BY <1>5 DEF SameBut

(* Dialog_MODLIST_TYPE_Menu in the file: what was told under the old key is *)
(* told under the new one.                                                  *)
Renames(w, o, old, new) ==
  /\ w \in Seq(Member) /\ SameBut(w, o, {old, new})
  /\ new # old => ~Has(w, old)
  /\ Once(o, old) /\ (new = old \/ ~Has(o, new)) => Once(w, new)
  /\ \A f, v : Told(o, old, f, v) => Told(w, new, f, v)

LEMMA RenameTells ==
  ASSUME NEW o \in Seq(Member), NEW old \in Dirs, NEW new \in Dirs
  PROVE  Renames(RenameOrCreate(o, old, new), o, old, new)
<1> DEFINE w == RenameOrCreate(o, old, new)
           K == {old, new}
<1>1. Len(o) \in Nat /\ DOMAIN o = 1..Len(o) /\ DOMAIN o \subseteq Nat
  BY LenProperties
<1>2. CASE Has(o, old)
  <2>1. w = [i \in DOMAIN o |-> IF o[i][1] = old THEN <<new, o[i][2]>> ELSE o[i]]
    BY <1>2 DEF RenameOrCreate
  <2> HIDE DEF w
  <2>2. /\ DOMAIN w = DOMAIN o
        /\ \A i \in DOMAIN o : o[i][1] = old => w[i] = <<new, o[i][2]>>
        /\ \A i \in DOMAIN o : o[i][1] # old => w[i] = o[i]
    BY <2>1
  <2>3. \A i \in DOMAIN o : /\ o[i][1] = old => w[i][1] = new /\ w[i][2] = o[i][2]
                            /\ o[i][1] # old => w[i] = o[i]
    BY <2>2
  <2>4. w \in Seq(Member)
    <3>1. \A i \in DOMAIN o : o[i][1] = old => <<new, o[i][2]>> \in Member
      BY MemberIs DEF Member, Object
    <3>2. \A i \in 1..Len(o) : w[i] \in Member
      BY <1>1, <2>2, <3>1, MemberIs
    <3>3. w = [i \in 1..Len(o) |-> w[i]]
      BY <1>1, <2>1
    <3>4. w \in [1..Len(o) -> Member]
      BY <3>2, <3>3
    <3> QED BY <1>1, <3>4, SeqDef
  <2>5. SameBut(w, o, K)
    BY <1>1, <2>2, <2>3, MappedSame
  <2>6. new # old => ~Has(w, old)
    BY <2>2, <2>3 DEF Has
  <2>7. ASSUME Once(o, old), new = old \/ ~Has(o, new)
        PROVE  Once(w, new)
    <3>1. \A i \in DOMAIN w : w[i][1] = new => o[i][1] = old
      BY <2>2, <2>3, <2>7 DEF Has
    <3> QED BY <2>2, <2>7, <3>1 DEF Once
  <2>8. ASSUME NEW f, NEW v, Told(o, old, f, v)
        PROVE  Told(w, new, f, v)
    BY <2>2, <2>3, <2>8 DEF Told
  <2> QED BY <2>4, <2>5, <2>6, <2>7, <2>8 DEF Renames, w
<1>3. CASE ~Has(o, old)
  <2>1. w = Put(o, new, <<>>)
    BY <1>3 DEF RenameOrCreate
  <2> HIDE DEF w
  <2>2. <<>> \in Object
    BY EmptySeq DEF Object
  <2>3. w \in Seq(Member) /\ SameBut(w, o, {new}) /\ Once(w, new)
    BY <2>1, <2>2, PutMember
  <2>4. SameBut(w, o, K)
    BY <2>3, SameWider
  <2>5. new # old => ~Has(w, old)
    BY <1>3, <2>3, SameHas
  <2>6. \A f, v : ~Told(o, old, f, v)
    BY <1>3 DEF Told, Has
  <2> QED BY <2>3, <2>4, <2>5, <2>6 DEF Renames, w
<1> QED BY <1>2, <1>3

(* LoadModNameMapping finds what is told.                                   *)
LEMMA LoadedTells ==
  ASSUME NEW fl \in File, fl.torn = FALSE, NEW m \in Ids, NEW f, NEW v,
         Once(fl.members, Key(m)), Told(fl.members, Key(m), f, v)
  PROVE  LET c == LoadModNameMapping(fl)
         IN  /\ Known(c, m[1], m[2])
             /\ Has(Record(c, m[1], m[2]), f) /\ Value(Record(c, m[1], m[2]), f) = v
<1> DEFINE o == fl.members
           c == LoadModNameMapping(fl)
           I == {i \in DOMAIN o : IsObject(o[i][2])}
           k == Key(m)
           J == {i \in DOMAIN c : c[i][1] = <<m[1], m[2], FALSE>>}
<1>1. o \in Seq(Member)
  BY DEF File
<1>2. c = Keep(o, I)
  BY DEF LoadModNameMapping
<1>3. c \in Seq(Member) /\ Picks(c, o, I)
  <2>1. I \intersect DOMAIN o = I
    OBVIOUS
  <2> HIDE DEF I, o, c
  <2> QED BY <1>1, <1>2, <2>1, KeepPicks
<1>4. PICK e : PicksBy(e, c, o, I)
  BY <1>3 DEF Picks
<1>5. PICK i \in DOMAIN o : o[i][1] = k /\ IsObject(o[i][2]) /\ Has(o[i][2], f) /\ Value(o[i][2], f) = v
  BY DEF Told
<1>6. i \in I
  BY <1>5
<1>7. \A x \in I : x \in DOMAIN o
  OBVIOUS
<1>8. J = {x \in DOMAIN c : c[x][1] = k}
  BY DEF Key
<1>9. \A x, y \in DOMAIN o : o[x][1] = k /\ o[y][1] = k => x = y
  BY DEF Once
<1>10. DOMAIN c \subseteq Int
  <2> HIDE DEF c
  <2> QED BY <1>3, LenProperties
<1> HIDE DEF I, o, c, k, J
<1>11. /\ e \in [DOMAIN c -> I]
       /\ \A x, y \in DOMAIN c : x < y => e[x] < e[y]
       /\ \A x \in DOMAIN c : c[x] = o[e[x]]
  BY <1>4 DEF PicksBy
<1>12. PICK j \in DOMAIN c : e[j] = i
  BY <1>4, <1>6 DEF PicksBy
<1>13. j \in J
  BY <1>5, <1>8, <1>11, <1>12
<1>14. \A x \in J : x = j
  <2> SUFFICES ASSUME NEW x \in J PROVE x = j
    OBVIOUS
  <2>1. x \in DOMAIN c /\ c[x][1] = k
    BY <1>8
  <2>2. e[x] = i
    BY <1>5, <1>7, <1>9, <1>11, <2>1
  <2>3. ~(x < j) /\ ~(j < x)
    <3>1. e[x] = e[j] /\ i \in Int
      BY <1>1, <1>12, <2>2, LenProperties
    <3>2. ~(i < i)
      BY <3>1
    <3> QED BY <1>11, <1>12, <2>1, <2>2, <3>2
  <2> QED BY <1>10, <1>12, <2>1, <2>3
<1>15. J = {j}
  BY <1>13, <1>14
<1>16. (CHOOSE x \in J : \A y \in J : y <= x) = j
  <2>1. j <= j
    BY <1>10
  <2> QED BY <1>15, <2>1
<1>17. c[j][2] = o[i][2]
  BY <1>11, <1>12
<1>18. Known(c, m[1], m[2])
  BY <1>13, <1>8 DEF Known, J
<1>19. Record(c, m[1], m[2]) = c[j][2]
  BY <1>13, <1>16 DEF Record, J
<1> QED BY <1>5, <1>17, <1>18, <1>19 DEF c

(* So the list shows what was given, when the file has it.                  *)
LEMMA LoadedNames ==
  ASSUME NEW fl \in File, fl.torn = FALSE, NEW m \in Ids, NEW g, Claim(fl.members, m, g),
         NEW c, c = LoadModNameMapping(fl)
  PROVE  /\ g["display_name"] \in {"nothing", GetMappedModName(c, m[1], m[2])}
         /\ g["description"] \in {"nothing", GetModDescription(c, m[1], m[2])}
<1>1. ASSUME NEW f \in Fields, g[f] # "nothing"
      PROVE  /\ Known(c, m[1], m[2])
             /\ Has(Record(c, m[1], m[2]), f) /\ Value(Record(c, m[1], m[2]), f) = g[f]
  BY <1>1, LoadedTells DEF Claim
<1>2. "display_name" \in Fields /\ "description" \in Fields
  BY DEF Fields
<1>3. g["display_name"] # "nothing" => GetMappedModName(c, m[1], m[2]) = g["display_name"]
  BY <1>1, <1>2 DEF GetMappedModName
<1>4. g["description"] # "nothing" => GetModDescription(c, m[1], m[2]) = g["description"]
  BY <1>1, <1>2 DEF GetModDescription
<1> QED BY <1>3, <1>4

-----------------------------------------------------------------------------
(* The file and the card *)

Giving    == [Ids -> [Fields -> Texts \union {"nothing"}]]
Housed(m) == \E on \in BOOLEAN : <<m[1], m[2], on>> \in OnCard
KeyOK(k)  == Has(file.members, k) => Of(k) \in spoiled \/ (k[3] = FALSE /\ Housed(Of(k)))

(* The keys are those of mods on the card, and of each mod that is not      *)
(* spoiled the file has one record at most, with what the user gave.        *)
FileInv ==
  /\ file \in File /\ given \in Giving
  /\ file.torn = FALSE =>
       /\ \A k \in Dirs : KeyOK(k)
       /\ \A m \in Ids : m \in spoiled \/ Claim(file.members, m, given[m])

(* What rewriting the file f with the members o comes to.                   *)
Outcome(r, f, o) ==
  /\ r.file \in File
  /\ \/ r.ok = TRUE /\ f.torn = FALSE /\ r.file.members = o
     \/ r.ok = FALSE /\ r.file.members = f.members /\ (f.torn = TRUE => r.file.torn = TRUE)

LEMMA RewrittenIs ==
  ASSUME NEW f \in File, NEW o \in Seq(Member), NEW r \in Rewritten(f, o)
  PROVE  Outcome(r, f, o)
<1> DEFINE g == [f EXCEPT !.members = o]
           h == [f EXCEPT !.torn = TRUE]
           k == [torn |-> TRUE, members |-> o]
<1>1. g \in File /\ g.torn = f.torn /\ g.members = o
  BY DEF File
<1>2. h \in File /\ h.torn = TRUE /\ h.members = f.members
  BY DEF File
<1>3. k \in File /\ k.members = o
  BY DEF File
<1>4. \/ ~f.torn /\ r = [file |-> g, ok |-> TRUE]
      \/ r = [file |-> f, ok |-> FALSE]
      \/ r = [file |-> h, ok |-> FALSE]
      \/ ~f.torn /\ r = [file |-> k, ok |-> TRUE]
  BY DEF Rewritten
<1> HIDE DEF g, h, k
<1>5. CASE ~f.torn /\ r = [file |-> g, ok |-> TRUE]
  <2>1. f.torn = FALSE
    BY <1>5 DEF File
  <2> QED BY <1>1, <1>5, <2>1 DEF Outcome
<1>6. CASE r = [file |-> f, ok |-> FALSE]
  BY <1>6 DEF Outcome
<1>7. CASE r = [file |-> h, ok |-> FALSE]
  BY <1>2, <1>7 DEF Outcome
<1>8. CASE ~f.torn /\ r = [file |-> k, ok |-> TRUE]
  <2>1. f.torn = FALSE
    BY <1>8 DEF File
  <2> QED BY <1>3, <1>8, <2>1 DEF Outcome
<1> QED BY <1>4, <1>5, <1>6, <1>7, <1>8

LEMMA PrunedIs ==
  ASSUME NEW f \in File, NEW o \in Seq(Member), NEW r \in Pruned(f, o)
  PROVE  Outcome(r, f, o)
<1>1. CASE ~f.torn /\ o = f.members
  <2>1. r = [file |-> f, ok |-> TRUE]
    BY <1>1 DEF Pruned
  <2>2. f.torn = FALSE
    BY <1>1 DEF File
  <2> QED BY <1>1, <2>1, <2>2 DEF Outcome
<1>2. CASE ~(~f.torn /\ o = f.members)
  BY <1>2, RewrittenIs DEF Pruned
<1> QED BY <1>1, <1>2

LEMMA Keys ==
  /\ \A m \in Ids : Key(m) \in Dirs /\ Of(Key(m)) = m
  /\ \A k \in Dirs : Of(k) \in Ids /\ (k[3] = FALSE => Key(Of(k)) = k)
  /\ \A k \in Dirs : k = <<k[1], k[2], k[3]>> /\ k[3] \in BOOLEAN
<1>1. \A k \in Dirs : k = <<k[1], k[2], k[3]>> /\ k[3] \in BOOLEAN
                       /\ k[1] \in Mods /\ k[2] \in Types \union {NoType}
  BY DEF Dirs
<1>2. ASSUME NEW m \in Ids
      PROVE  Key(m) \in Dirs /\ Of(Key(m)) = m
  <2>1. m = <<m[1], m[2]>> /\ m[1] \in Mods /\ m[2] \in Types \union {NoType}
    BY DEF Ids
  <2>2. Key(m)[1] = m[1] /\ Key(m)[2] = m[2]
    BY DEF Key
  <2>3. Key(m) \in Dirs
    BY <2>1 DEF Key, Dirs
  <2>4. Of(Key(m)) = <<m[1], m[2]>>
    BY <2>2 DEF Of
  <2> QED BY <2>1, <2>3, <2>4
<1>3. ASSUME NEW k \in Dirs
      PROVE  Of(k) \in Ids /\ (k[3] = FALSE => Key(Of(k)) = k)
  <2>1. Of(k) \in Ids /\ Of(k)[1] = k[1] /\ Of(k)[2] = k[2]
    BY <1>1 DEF Of, Ids
  <2>2. Key(Of(k)) = <<k[1], k[2], FALSE>>
    BY <2>1 DEF Key
  <2>3. k = <<k[1], k[2], k[3]>>
    BY <1>1
  <2>4. k[3] = FALSE => Key(Of(k)) = k
    BY <2>2, <2>3
  <2> QED BY <2>1, <2>4
<1> QED BY <1>1, <1>2, <1>3

(* A step that changes the records with the keys K only.                    *)
LEMMA FileStep ==
  ASSUME FileInv, NEW K, file' \in File, given' \in Giving, spoiled \subseteq spoiled',
         file'.torn = FALSE => file.torn = FALSE /\ SameBut(file'.members, file.members, K),
         \A m \in Ids : Key(m) \notin K =>
           m \in spoiled' \/ (given'[m] = given[m] /\ (Housed(m) => Housed(m)')),
         file'.torn = FALSE => \A k \in Dirs : k \in K => KeyOK(k)',
         file'.torn = FALSE => \A m \in Ids : Key(m) \in K =>
           m \in spoiled' \/ Claim(file'.members, m, given'[m])
  PROVE  FileInv'
<1> SUFFICES ASSUME file'.torn = FALSE
             PROVE  /\ \A k \in Dirs : KeyOK(k)'
                    /\ \A m \in Ids : m \in spoiled' \/ Claim(file'.members, m, given'[m])
  BY DEF FileInv
<1>1. file.torn = FALSE /\ SameBut(file'.members, file.members, K)
  OBVIOUS
<1>2. file.members \in Seq(Member) /\ file'.members \in Seq(Member)
  BY DEF FileInv, File
<1>3. ASSUME NEW k \in Dirs, k \notin K
      PROVE  KeyOK(k)'
  <2>1. Has(file'.members, k) <=> Has(file.members, k)
    BY <1>1, <1>3, SameHas
  <2>2. KeyOK(k)
    BY <1>1 DEF FileInv
  <2>3. k[3] = FALSE => Of(k) \in spoiled' \/ (Housed(Of(k)) => Housed(Of(k))')
    BY <1>3, Keys
  <2> QED BY <2>1, <2>2, <2>3 DEF KeyOK
<1>4. ASSUME NEW m \in Ids, Key(m) \notin K, m \notin spoiled'
      PROVE  Claim(file'.members, m, given'[m])
  <2>1. Claim(file.members, m, given[m]) /\ given'[m] = given[m]
    BY <1>1, <1>4 DEF FileInv
  <2> QED BY <1>1, <1>2, <1>4, <2>1, SameClaim
<1> QED BY <1>3, <1>4

(* A step that leaves the members as they are.                              *)
LEMMA FileAsWas ==
  ASSUME FileInv, file' \in File, file'.members = file.members,
         file.torn = TRUE => file'.torn = TRUE,
         given' \in Giving, spoiled \subseteq spoiled',
         \A m \in Ids : m \in spoiled' \/ (given'[m] = given[m] /\ (Housed(m) => Housed(m)'))
  PROVE  FileInv'
<1>1. file.members \in Seq(Member) /\ file.torn \in BOOLEAN /\ file'.torn \in BOOLEAN
  BY DEF FileInv, File
<1>2. SameBut(file'.members, file.members, {})
  BY <1>1, Unchanged
<1>3. file'.torn = FALSE => file.torn = FALSE
  BY <1>1
<1> DEFINE K == {}
<1>4. SameBut(file'.members, file.members, K) /\ \A x : x \notin K
  BY <1>2
<1> HIDE DEF K
<1> QED BY <1>3, <1>4, FileStep

(* A text given to the selected mod: d is its directory, f the field.       *)
LEMMA GiveFile ==
  ASSUME FileInv, NEW d \in Dirs, NEW f \in Fields, NEW t \in Texts, NEW g,
         g \in [Fields -> Texts \union {"nothing"}], g[f] = t,
         \A h \in Fields \ {f} : g[h] = given[Of(d)][h],
         given' \in Giving, given'[Of(d)] = g,
         \A m \in Ids : m # Of(d) => given'[m] = given[m],
         file.torn = FALSE, file' \in File,
         file'.members = PutNested(file.members, d, f, t), dirs' = dirs,
         \/ spoiled' = spoiled \union {Of(d)}
         \/ spoiled' = spoiled /\ d[3] = FALSE /\ d \in OnCard
  PROVE  FileInv'
<1> DEFINE o == file.members
           K == {d}
<1>1. o \in Seq(Member) /\ Of(d) \in Ids
  BY Keys DEF FileInv, File
<1>3. /\ file'.members \in Seq(Member) /\ SameBut(file'.members, o, {d})
      /\ Once(o, d) => Once(file'.members, d) /\ Told(file'.members, d, f, t)
      /\ \A h \in Fields \ {f} : \A v : Once(o, d) /\ Told(o, d, h, v) => Told(file'.members, d, h, v)
  <2> DEFINE w == PutNested(o, d, f, t)
  <2>1. /\ w \in Seq(Member) /\ SameBut(w, o, {d}) /\ Has(w, d)
        /\ Once(o, d) => Once(w, d) /\ Told(w, d, f, t)
        /\ \A h \in Fields \ {f} : \A v : Once(o, d) /\ Told(o, d, h, v) => Told(w, d, h, v)
    <3> HIDE DEF o
    <3> QED BY <1>1, PutNestedTells
  <2>2. file'.members = w
    OBVIOUS
  <2> HIDE DEF w
  <2> QED BY <2>1, <2>2
<1>4. ASSUME NEW m \in Ids, Key(m) \notin K
      PROVE  m \in spoiled' \/ (given'[m] = given[m] /\ (Housed(m) => Housed(m)'))
  <2>1. Housed(m) => Housed(m)'
    BY DEF Housed, OnCard
  <2>2. m # Of(d) => given'[m] = given[m]
    OBVIOUS
  <2>3. m = Of(d) => m \in spoiled'
    BY <1>4, Keys
  <2> QED BY <2>1, <2>2, <2>3
<1>5. KeyOK(d)'
  <2>1. CASE Of(d) \in spoiled'
    BY <2>1 DEF KeyOK
  <2>2. CASE d[3] = FALSE /\ d \in OnCard
    <3>1. d = <<d[1], d[2], d[3]>> /\ d[3] \in BOOLEAN
      BY Keys
    <3>2. <<d[1], d[2], d[3]>> \in OnCard'
      BY <2>2, <3>1 DEF OnCard
    <3>3. Of(d)[1] = d[1] /\ Of(d)[2] = d[2]
      BY DEF Of
    <3>4. Housed(Of(d))'
      BY <3>1, <3>2, <3>3 DEF Housed
    <3> QED BY <2>2, <3>4 DEF KeyOK
  <2> QED BY <2>1, <2>2
<1>6. ASSUME NEW m \in Ids, Key(m) \in K, m \notin spoiled'
      PROVE  Claim(file'.members, m, given'[m])
  <2>1. m = Of(d) /\ Key(m) = d
    BY <1>6, Keys
  <2>2. m \notin spoiled /\ given'[m] = g
    BY <1>6, <2>1
  <2>3. Once(o, d) /\ \A h \in Fields : given[m][h] = "nothing" \/ Told(o, d, h, given[m][h])
    BY <2>1, <2>2 DEF FileInv, Claim
  <2>4. \A h \in Fields : g[h] = "nothing" \/ Told(file'.members, d, h, g[h])
    <3> SUFFICES ASSUME NEW h \in Fields, g[h] # "nothing"
                 PROVE  Told(file'.members, d, h, g[h])
      OBVIOUS
    <3>1. CASE h = f
      BY <1>3, <2>3, <3>1
    <3>2. CASE h # f
      <4>1. g[h] = given[m][h]
        BY <2>1, <3>2
      <4> HIDE DEF o
      <4> QED BY <1>3, <2>3, <3>2, <4>1
    <3> QED BY <3>1, <3>2
  <2>5. Once(file'.members, d)
    BY <1>3, <2>3
  <2> QED BY <2>1, <2>2, <2>4, <2>5 DEF Claim
<1>7. SameBut(file'.members, file.members, K) /\ \A k \in Dirs : k \in K => KeyOK(k)'
  <2>1. \A k : k \in K => k = d
    OBVIOUS
  <2>2. \A k \in Dirs : k = d => KeyOK(k)'
    BY <1>5
  <2> QED BY <1>3, <2>1, <2>2
<1>8. spoiled \subseteq spoiled'
  OBVIOUS
<1> HIDE DEF K, o
<1> QED BY <1>4, <1>6, <1>7, <1>8, FileStep

(* Selected is an entry of the list.                                        *)
LEMMA SelectedIs ==
  ASSUME PathInv, CursorInv, Ask
  PROVE  /\ Position \in DOMAIN modInfo /\ Selected = modInfo[Position]
         /\ Selected.path \in Dirs /\ Selected.path = <<Selected.name, Selected.type, Selected.on>>
         /\ Id(Selected) = Of(Selected.path) /\ Id(Selected) \in Ids
<1>1. Position \in DOMAIN modInfo
  BY Positioned DEF CursorInv, IsSeq, Ask
<1>2. IsEntry(modInfo[Position])
  BY <1>1 DEF PathInv
<1> QED BY <1>1, <1>2, EntryFacts, Keys DEF Selected

LEMMA Regiven ==
  ASSUME given \in Giving, NEW m \in Ids, NEW t \in Texts
  PROVE  \E g \in [Fields -> Texts \union {"nothing"}] :
           /\ [given EXCEPT ![m].display_name = t] = [given EXCEPT ![m] = g]
           /\ g["display_name"] = t /\ g["description"] = given[m]["description"]
<1> DEFINE g == [given[m] EXCEPT !["display_name"] = t]
<1>1. given[m] \in [Fields -> Texts \union {"nothing"}]
  BY DEF Giving
<1>2. g \in [Fields -> Texts \union {"nothing"}]
  BY <1>1
<1>3. g["display_name"] = t /\ g["description"] = given[m]["description"]
  BY <1>1 DEF Fields
<1>4. [given EXCEPT ![m].display_name = t] = [given EXCEPT ![m] = g]
  OBVIOUS
<1> QED BY <1>2, <1>3, <1>4

LEMMA Redescribed ==
  ASSUME given \in Giving, NEW m \in Ids, NEW t \in Texts
  PROVE  \E g \in [Fields -> Texts \union {"nothing"}] :
           /\ [given EXCEPT ![m].description = t] = [given EXCEPT ![m] = g]
           /\ g["description"] = t /\ g["display_name"] = given[m]["display_name"]
<1> DEFINE g == [given[m] EXCEPT !["description"] = t]
<1>1. given[m] \in [Fields -> Texts \union {"nothing"}]
  BY DEF Giving
<1>2. g \in [Fields -> Texts \union {"nothing"}]
  BY <1>1
<1>3. g["description"] = t /\ g["display_name"] = given[m]["display_name"]
  BY <1>1 DEF Fields
<1>4. [given EXCEPT ![m].description = t] = [given EXCEPT ![m] = g]
  OBVIOUS
<1> QED BY <1>2, <1>3, <1>4

(* The two handlers that take a text do the same to the file.               *)
LEMMA TextFile ==
  ASSUME FileInv, PathInv, CursorInv, Ask, dirs' = dirs, NEW f \in Fields, NEW t \in Texts,
         NEW w \in Rewritten(file, PutNested(file.members, Selected.path, f, t)),
         file' = w.file,
         NEW g \in [Fields -> Texts \union {"nothing"}], g[f] = t,
         \A h \in Fields \ {f} : g[h] = given[Id(Selected)][h],
         given' = IF w.ok THEN [given EXCEPT ![Id(Selected)] = g] ELSE given,
         Spoil({Id(Selected)}, w.ok /\ Unkept)
  PROVE  FileInv'
<1> DEFINE d == Selected.path
           o == PutNested(file.members, d, f, t)
<1>1. d \in Dirs /\ Id(Selected) = Of(d) /\ Id(Selected) \in Ids
  BY SelectedIs
<1>2. file \in File /\ file.members \in Seq(Member) /\ given \in Giving
  BY DEF FileInv, File
<1>3. o \in Seq(Member)
  <2> HIDE DEF d
  <2> QED BY <1>1, <1>2, PutNestedTells
<1>4. Outcome(w, file, o)
  <2>1. w \in Rewritten(file, o)
    OBVIOUS
  <2> HIDE DEF o
  <2> QED BY <1>2, <1>3, <2>1, RewrittenIs
<1> HIDE DEF o
<1>5. CASE w.ok = TRUE /\ file.torn = FALSE /\ file'.members = o
  <2>1. /\ file' \in File /\ given' \in Giving /\ given'[Of(d)] = g
        /\ \A m \in Ids : m # Of(d) => given'[m] = given[m]
    BY <1>1, <1>2, <1>4, <1>5 DEF Outcome, Giving
  <2>2. \/ spoiled' = spoiled \union {Of(d)}
        \/ spoiled' = spoiled /\ d[3] = FALSE /\ d \in OnCard
    <3>1. d[3] \in BOOLEAN
      BY <1>1, Keys
    <3> QED BY <1>1, <1>5, <3>1 DEF Spoil, Unkept
  <2>3. file'.members = PutNested(file.members, d, f, t)
    BY <1>5 DEF o
  <2>4. \A h \in Fields \ {f} : g[h] = given[Of(d)][h]
    BY <1>1
  <2> HIDE DEF d
  <2> QED BY <1>1, <1>5, <2>1, <2>2, <2>3, <2>4, GiveFile
<1>6. CASE w.ok = FALSE /\ file'.members = file.members /\ (file.torn = TRUE => file'.torn = TRUE)
  <2>1. given' = given /\ spoiled' = spoiled /\ file' \in File
    BY <1>4, <1>6 DEF Outcome, Spoil
  <2>2. \A m \in Ids : Housed(m) => Housed(m)'
    BY DEF Housed, OnCard
  <2> QED BY <1>2, <1>6, <2>1, <2>2, FileAsWas
<1> QED BY <1>4, <1>5, <1>6 DEF Outcome

LEMMA NameFile ==
  ASSUME FileInv, PathInv, CursorInv, changemodname
  PROVE  FileInv'
<1>1. PICK t \in Texts : /\ Ask /\ dirs' = dirs
        /\ \E w \in Rewritten(file, PutNested(file.members, Selected.path, "display_name", t)) :
             /\ file' = w.file
             /\ given' = IF w.ok THEN [given EXCEPT ![Id(Selected)].display_name = t] ELSE given
             /\ Spoil({Id(Selected)}, w.ok /\ Unkept)
  BY DEF changemodname, GetModDirName
<1>2. PICK w \in Rewritten(file, PutNested(file.members, Selected.path, "display_name", t)) :
        /\ file' = w.file
        /\ given' = IF w.ok THEN [given EXCEPT ![Id(Selected)].display_name = t] ELSE given
        /\ Spoil({Id(Selected)}, w.ok /\ Unkept)
  BY <1>1
<1>3. given \in Giving /\ Id(Selected) \in Ids
  BY <1>1, SelectedIs DEF FileInv
<1>4. PICK g \in [Fields -> Texts \union {"nothing"}] :
        /\ [given EXCEPT ![Id(Selected)].display_name = t] = [given EXCEPT ![Id(Selected)] = g]
        /\ g["display_name"] = t /\ g["description"] = given[Id(Selected)]["description"]
  BY <1>3, Regiven
<1>5. /\ "display_name" \in Fields
      /\ \A h \in Fields \ {"display_name"} : g[h] = given[Id(Selected)][h]
  BY <1>4 DEF Fields
<1>6. given' = IF w.ok THEN [given EXCEPT ![Id(Selected)] = g] ELSE given
  BY <1>2, <1>4
<1> QED BY <1>1, <1>2, <1>4, <1>5, <1>6, TextFile, ZenonT(60)

LEMMA DescribeFile ==
  ASSUME FileInv, PathInv, CursorInv, changemoddescription
  PROVE  FileInv'
<1>1. PICK t \in Texts : /\ Ask /\ dirs' = dirs
        /\ \E w \in Rewritten(file, PutNested(file.members, Selected.path, "description", t)) :
             /\ file' = w.file
             /\ given' = IF w.ok THEN [given EXCEPT ![Id(Selected)].description = t] ELSE given
             /\ Spoil({Id(Selected)}, w.ok /\ Unkept)
  BY DEF changemoddescription, GetModDirName
<1>2. PICK w \in Rewritten(file, PutNested(file.members, Selected.path, "description", t)) :
        /\ file' = w.file
        /\ given' = IF w.ok THEN [given EXCEPT ![Id(Selected)].description = t] ELSE given
        /\ Spoil({Id(Selected)}, w.ok /\ Unkept)
  BY <1>1
<1>3. given \in Giving /\ Id(Selected) \in Ids
  BY <1>1, SelectedIs DEF FileInv
<1>4. PICK g \in [Fields -> Texts \union {"nothing"}] :
        /\ [given EXCEPT ![Id(Selected)].description = t] = [given EXCEPT ![Id(Selected)] = g]
        /\ g["description"] = t /\ g["display_name"] = given[Id(Selected)]["display_name"]
  BY <1>3, Redescribed
<1>5. /\ "description" \in Fields
      /\ \A h \in Fields \ {"description"} : g[h] = given[Id(Selected)][h]
  BY <1>4 DEF Fields
<1>6. given' = IF w.ok THEN [given EXCEPT ![Id(Selected)] = g] ELSE given
  BY <1>2, <1>4
<1> QED BY <1>1, <1>2, <1>4, <1>5, <1>6, TextFile, ZenonT(60)

(* A directory old becomes new, which differs in the type or in the state.  *)
LEMMA HousedRenamed ==
  ASSUME NEW old \in Dirs, NEW new \in Dirs, OnCard' = (OnCard \ {old}) \union {new}
  PROVE  Housed(Of(new))' /\ \A m \in Ids : m # Of(old) => (Housed(m) => Housed(m)')
<1>1. Housed(Of(new))'
  <2>1. new = <<new[1], new[2], new[3]>> /\ new[3] \in BOOLEAN
    BY Keys
  <2>2. Of(new)[1] = new[1] /\ Of(new)[2] = new[2]
    BY DEF Of
  <2>3. <<Of(new)[1], Of(new)[2], new[3]>> \in OnCard'
    BY <2>1, <2>2
  <2> QED BY <2>1, <2>3 DEF Housed
<1>2. ASSUME NEW m \in Ids, m # Of(old), Housed(m)
      PROVE  Housed(m)'
  <2>1. PICK on \in BOOLEAN : <<m[1], m[2], on>> \in OnCard
    BY <1>2 DEF Housed
  <2>2. m = <<m[1], m[2]>>
    BY DEF Ids
  <2>3. <<m[1], m[2], on>> # old
    BY <1>2, <2>2 DEF Of
  <2> QED BY <2>1, <2>3 DEF Housed
<1> QED BY <1>1, <1>2

LEMMA RetypedGiven ==
  ASSUME given \in Giving, NEW a \in Ids, NEW b \in Ids,
         given' = [given EXCEPT ![a] = NotGiven, ![b] = given[a]]
  PROVE  /\ given' \in Giving /\ given'[b] = given[a] /\ (a # b => given'[a] = NotGiven)
         /\ \A m \in Ids : m # a /\ m # b => given'[m] = given[m]
<1>1. NotGiven \in [Fields -> Texts \union {"nothing"}]
  BY DEF NotGiven
<1>2. given[a] \in [Fields -> Texts \union {"nothing"}]
  BY DEF Giving
<1> QED BY <1>1, <1>2 DEF Giving

LEMMA NothingClaimed ==
  ASSUME NEW o, NEW m, ~Has(o, Key(m))
  PROVE  Claim(o, m, NotGiven)
BY DEF Claim, Once, Has, NotGiven

(* A directory old of the mod a becomes new, of the mod b, and the record   *)
(* of a that of b.                                                          *)
Retypes(old, new, a, b, o, w) ==
  /\ old \in Dirs /\ new \in Dirs /\ a \in Ids /\ b \in Ids
  /\ a = Of(old) /\ b = Of(new) /\ (old[3] = FALSE => new = Key(b))
  /\ OnCard' = (OnCard \ {old}) \union {new} /\ (new = old \/ new \notin OnCard)
  /\ Renames(o, file.members, old, Key(b)) /\ Outcome(w, file, o) /\ file' = w.file
  /\ w.ok = TRUE => given' = [given EXCEPT ![a] = NotGiven, ![b] = given[a]]
  /\ w.ok = FALSE => given' = given
  /\ \/ spoiled' = spoiled \union {a, b}
     \/ /\ spoiled' = spoiled /\ w.ok = TRUE /\ old[3] = FALSE /\ a \notin spoiled
        /\ <<b[1], b[2], TRUE>> \notin OnCard

LEMMA RenamedFile ==
  ASSUME FileInv, NEW old, NEW new, NEW a, NEW b, NEW o, NEW w, Retypes(old, new, a, b, o, w)
  PROVE  FileInv'
<1> DEFINE key == Key(b)
<1> USE DEF Retypes
<1>1. /\ file \in File /\ file.members \in Seq(Member) /\ given \in Giving
  BY DEF FileInv, File
<1>2. key \in Dirs /\ Of(key) = b /\ key[3] = FALSE /\ key = <<b[1], b[2], FALSE>>
  BY Keys DEF Key
<1> HIDE DEF key
<1>3. spoiled \subseteq spoiled'
  OBVIOUS
<1>4. Housed(b)' /\ \A m \in Ids : m # a => (Housed(m) => Housed(m)')
  BY HousedRenamed
<1>5. CASE w.ok = FALSE /\ file'.members = file.members /\ (file.torn = TRUE => file'.torn = TRUE)
  <2>1. file' \in File /\ given' = given /\ a \in spoiled'
    BY <1>5 DEF Outcome
  <2> QED BY <1>1, <1>3, <1>4, <1>5, <2>1, FileAsWas
<1>6. CASE w.ok = TRUE /\ file.torn = FALSE /\ file'.members = o
  <2>1. file' \in File
    BY DEF Outcome
  <2>2. /\ given' \in Giving /\ given'[b] = given[a] /\ (a # b => given'[a] = NotGiven)
        /\ \A m \in Ids : m # a /\ m # b => given'[m] = given[m]
    BY <1>1, <1>6, RetypedGiven
  <2> DEFINE K == {old, key}
  <2>3. SameBut(file'.members, file.members, K)
    BY <1>6 DEF Renames, key
  <2>4. ASSUME NEW m \in Ids, Key(m) \notin K
        PROVE  m \in spoiled' \/ (given'[m] = given[m] /\ (Housed(m) => Housed(m)'))
    <3>1. m # b
      BY <2>4 DEF key
    <3>2. m = a => m \in spoiled'
      <4>1. old[3] = FALSE => m # a
        BY <2>4, Keys
      <4> QED BY <4>1
    <3> QED BY <1>4, <2>2, <3>1, <3>2
  <2>5. KeyOK(key)'
    BY <1>2, <1>4 DEF KeyOK
  <2>6. ASSUME old # key
        PROVE  KeyOK(old)'
    <3>1. ~Has(file'.members, old)
      BY <1>6, <2>6 DEF Renames, key
    <3> QED BY <3>1 DEF KeyOK
  <2>7. \A k \in Dirs : k \in K => KeyOK(k)'
    <3>1. \A k \in Dirs : k \in K => k = key \/ k = old
      OBVIOUS
    <3> QED BY <2>5, <2>6, <3>1
  <2>8. ASSUME NEW m \in Ids, Key(m) \in K, m \notin spoiled'
        PROVE  Claim(file'.members, m, given'[m])
    <3>1. m = a \/ m = b
      BY <1>2, <2>8, Keys
    <3>2. /\ spoiled' = spoiled /\ old[3] = FALSE /\ a \notin spoiled
          /\ <<b[1], b[2], TRUE>> \notin OnCard
      BY <2>8, <3>1
    <3>3. Key(a) = old /\ Claim(file.members, a, given[a]) /\ new = key
      BY <1>6, <3>2, Keys DEF FileInv, key
    <3>4. CASE m = b
      <4>1. key = old \/ ~Has(file.members, key)
        <5> SUFFICES ASSUME Has(file.members, key), key # old PROVE FALSE
          OBVIOUS
        <5>1. KeyOK(key)
          BY <1>2, <1>6 DEF FileInv
        <5>2. Housed(b)
          BY <1>2, <2>8, <3>2, <3>4, <5>1 DEF KeyOK
        <5>3. key \notin OnCard
          BY <3>3
        <5> QED BY <1>2, <3>2, <5>2, <5>3 DEF Housed
      <4>2. Once(file'.members, key)
        BY <1>6, <3>3, <4>1 DEF Renames, Claim, key
      <4>3. \A f \in Fields : given[a][f] = "nothing" \/ Told(file'.members, key, f, given[a][f])
        BY <1>6, <3>3 DEF Renames, Claim, key
      <4> QED BY <2>2, <3>4, <4>2, <4>3 DEF Claim, key
    <3>5. CASE m = a /\ a # b
      <4>1. old # key
        BY <1>2, <3>5
      <4>2. ~Has(file'.members, Key(a))
        BY <1>6, <3>3, <4>1 DEF Renames, key
      <4> QED BY <2>2, <3>5, <4>2, NothingClaimed
    <3> QED BY <3>1, <3>4, <3>5
  <2> HIDE DEF K
  <2> QED BY <1>3, <1>6, <2>1, <2>2, <2>3, <2>4, <2>7, <2>8, FileStep
<1> QED BY <1>5, <1>6 DEF Outcome

LEMMA TypeFile ==
  ASSUME FileInv, PathInv, CursorInv, Dialog_MODLIST_TYPE_Menu
  PROVE  FileInv'
<1>1. PICK type \in Types :
        LET old == Selected.path  new == Retyped(Selected, type)
            ids == {Id(Selected), <<Selected.name, type>>}
        IN  /\ Ask
            /\ \/ UNCHANGED <<dirs, file, given, spoiled>>
               \/ /\ MayRename(old, new)
                  /\ dirs' = Renamed(old, new)
                  /\ \E w \in Rewritten(file, RenameOrCreate(file.members, old,
                                                  <<Selected.name, type, FALSE>>)) :
                       /\ file' = w.file
                       /\ IF w.ok THEN given' = [given EXCEPT ![Id(Selected)] = NotGiven,
                                        ![<<Selected.name, type>>] = given[Id(Selected)]]
                                  ELSE UNCHANGED given
                       /\ Spoil(ids, ~w.ok \/ Selected.path[3] \/ Id(Selected) \in spoiled
                                     \/ <<Selected.name, type, TRUE>> \in OnCard)
  BY DEF Dialog_MODLIST_TYPE_Menu, GetModDirName
<1>2. PICK e : e = Selected
  OBVIOUS
<1> DEFINE old == e.path
           new == Retyped(e, type)
           a   == Id(e)
           b   == <<e.name, type>>
           key == <<e.name, type, FALSE>>
           o   == RenameOrCreate(file.members, old, key)
<1>3. file \in File /\ file.members \in Seq(Member) /\ given \in Giving
  BY DEF FileInv, File
<1>4. /\ old \in Dirs /\ a \in Ids /\ a = Of(old) /\ old[3] = e.on
      /\ old = <<old[1], old[2], old[3]>> /\ old[3] \in BOOLEAN /\ old[3] = e.on
      /\ old = <<e.name, e.type, e.on>>
  BY <1>1, <1>2, SelectedIs, Keys
<1>5. /\ b \in Ids /\ key = Key(b) /\ key \in Dirs /\ new \in Dirs /\ b = Of(new)
      /\ (old[3] = FALSE => new = Key(b)) /\ <<b[1], b[2], TRUE>> = <<e.name, type, TRUE>>
  <2>1. e.name \in Mods /\ e.on \in BOOLEAN
    BY <1>4 DEF Dirs
  <2>2. b \in Ids /\ key = Key(b)
    BY <2>1 DEF Ids, Key
  <2>3. key \in Dirs
    BY <2>2, Keys
  <2>4. new \in Dirs /\ Of(new) = b
    BY <2>1 DEF Retyped, Dirs, Of
  <2>5. old[3] = FALSE => new = key
    BY <1>4 DEF Retyped
  <2> QED BY <2>2, <2>3, <2>4, <2>5
<1>6. CASE UNCHANGED <<dirs, file, given, spoiled>>
  <2>1. \A m \in Ids : Housed(m) => Housed(m)'
    BY <1>6 DEF Housed, OnCard
  <2> QED BY <1>3, <1>6, <2>1, FileAsWas
<1>7. CASE /\ MayRename(old, new)
           /\ dirs' = Renamed(old, new)
           /\ \E w \in Rewritten(file, o) :
                /\ file' = w.file
                /\ IF w.ok THEN given' = [given EXCEPT ![a] = NotGiven, ![b] = given[a]]
                           ELSE UNCHANGED given
                /\ Spoil({a, b}, ~w.ok \/ old[3] \/ a \in spoiled
                                 \/ <<e.name, type, TRUE>> \in OnCard)
  <2>1. PICK w \in Rewritten(file, o) :
                /\ file' = w.file
                /\ IF w.ok THEN given' = [given EXCEPT ![a] = NotGiven, ![b] = given[a]]
                           ELSE UNCHANGED given
                /\ Spoil({a, b}, ~w.ok \/ old[3] \/ a \in spoiled
                                 \/ <<e.name, type, TRUE>> \in OnCard)
    BY <1>7
  <2>2. w \in Rewritten(file, o)
    OBVIOUS
  <2>3. OnCard' = (OnCard \ {old}) \union {new} /\ (new = old \/ new \notin OnCard)
    BY <1>7 DEF OnCard, Renamed, MayRename
  <2>4. Renames(o, file.members, old, Key(b))
    <3> HIDE DEF old, b
    <3> QED BY <1>3, <1>4, <1>5, RenameTells
  <2> HIDE DEF old, new, a, b, key, o
  <2>5. Outcome(w, file, o)
    BY <1>3, <2>2, <2>4, RewrittenIs DEF Renames
  <2>6. /\ w.ok = TRUE => given' = [given EXCEPT ![a] = NotGiven, ![b] = given[a]]
        /\ w.ok = FALSE => given' = given
    BY <2>1
  <2>7. w.ok \in BOOLEAN
    BY <2>5 DEF Outcome
  <2>8. \/ spoiled' = spoiled \union {a, b}
        \/ /\ spoiled' = spoiled /\ w.ok = TRUE /\ old[3] = FALSE /\ a \notin spoiled
           /\ <<b[1], b[2], TRUE>> \notin OnCard
    BY <1>4, <1>5, <2>1, <2>7 DEF Spoil
  <2>9. Retypes(old, new, a, b, o, w)
    BY <1>4, <1>5, <2>1, <2>3, <2>4, <2>5, <2>6, <2>8 DEF Retypes
  <2> QED BY <2>9, RenamedFile
<1> QED BY <1>1, <1>2, <1>6, <1>7

LEMMA RemoveFile ==
  ASSUME FileInv, PathInv, CursorInv, RemoveMod
  PROVE  FileInv'
<1>1. PICK e : e = Selected
  OBVIOUS
<1> DEFINE d == e.path
           a == Id(e)
           o == Drop(file.members, d)
<1>2. /\ Ask /\ ~e.on /\ d \in OnCard /\ given' = [given EXCEPT ![a] = NotGiven]
      /\ dirs' = Without(d) \/ dirs' = [dirs EXCEPT ![d] = 0]
      /\ \E w \in Pruned(file, o) :
           file' = w.file /\ Spoil({a}, ~w.ok \/ d \in DOMAIN dirs')
  BY <1>1 DEF RemoveMod, MayRemove, RemoveEntry
<1>3. PICK w \in Pruned(file, o) : file' = w.file /\ Spoil({a}, ~w.ok \/ d \in DOMAIN dirs')
  BY <1>2
<1>4. w \in Pruned(file, o)
  OBVIOUS
<1>5. d \in Dirs /\ d[3] = e.on /\ a = Of(d) /\ a \in Ids
  <2>1. d \in Dirs /\ d = <<e.name, e.type, e.on>> /\ a = Of(d) /\ a \in Ids
    BY <1>1, <1>2, SelectedIs
  <2> QED BY <2>1
<1>6. d[3] = FALSE /\ Key(a) = d
  BY <1>2, <1>5, Keys
<1>7. file \in File /\ file.members \in Seq(Member) /\ given \in Giving
  BY DEF FileInv, File
<1>8. o \in Seq(Member) /\ ~Has(o, d) /\ SameBut(o, file.members, {d})
  BY <1>7, DropSame
<1>9. OnCard \ {d} \subseteq OnCard'
  BY <1>2 DEF OnCard, Without
<1> HIDE DEF a, d, o
<1>10. Outcome(w, file, o)
  BY <1>4, <1>7, <1>8, PrunedIs
<1>11. file' \in File /\ w.ok \in BOOLEAN
  BY <1>3, <1>10 DEF Outcome
<1>12. /\ spoiled \subseteq spoiled' /\ (w.ok = FALSE => a \in spoiled')
  BY <1>3 DEF Spoil
<1>13. /\ given' \in Giving /\ given'[a] = NotGiven /\ \A m \in Ids : m # a => given'[m] = given[m]
  <2>1. NotGiven \in [Fields -> Texts \union {"nothing"}]
    BY DEF NotGiven
  <2> QED BY <1>2, <1>5, <1>7, <2>1 DEF Giving
<1>14. \A m \in Ids : m # a => (Housed(m) => Housed(m)')
  <2> SUFFICES ASSUME NEW m \in Ids, m # a, Housed(m) PROVE Housed(m)'
    OBVIOUS
  <2>1. PICK on \in BOOLEAN : <<m[1], m[2], on>> \in OnCard
    BY DEF Housed
  <2>2. <<m[1], m[2], on>> # d
    <3>1. m = <<m[1], m[2]>>
      BY DEF Ids
    <3> QED BY <1>5, <3>1 DEF Of
  <2> QED BY <1>9, <2>1, <2>2 DEF Housed
<1>15. CASE w.ok = FALSE /\ w.file.members = file.members /\ (file.torn = TRUE => w.file.torn = TRUE)
  BY <1>3, <1>11, <1>12, <1>13, <1>14, <1>15, FileAsWas
<1>16. CASE w.ok = TRUE /\ file.torn = FALSE /\ w.file.members = o
  <2> DEFINE K == {d}
  <2>1. SameBut(file'.members, file.members, K)
    BY <1>3, <1>8, <1>16
  <2>2. ASSUME NEW m \in Ids, Key(m) \notin K
        PROVE  m \in spoiled' \/ (given'[m] = given[m] /\ (Housed(m) => Housed(m)'))
    BY <1>6, <1>13, <1>14, <2>2
  <2>3. KeyOK(d)'
    BY <1>3, <1>8, <1>16 DEF KeyOK
  <2>4. \A k \in Dirs : k \in K => KeyOK(k)'
    <3>1. \A k \in Dirs : k \in K => k = d
      OBVIOUS
    <3> QED BY <2>3, <3>1
  <2>5. ASSUME NEW m \in Ids, Key(m) \in K, m \notin spoiled'
        PROVE  Claim(file'.members, m, given'[m])
    <3>1. Key(m) = d /\ m = a
      BY <1>5, <2>5, Keys
    <3>2. ~Has(file'.members, Key(m))
      BY <1>3, <1>8, <1>16, <3>1
    <3> QED BY <1>13, <3>1, <3>2, NothingClaimed
  <2> HIDE DEF K
  <2> QED BY <1>11, <1>12, <1>13, <1>16, <2>1, <2>2, <2>4, <2>5, FileStep
<1> QED BY <1>10, <1>15, <1>16 DEF Outcome

LEMMA SwitchFile ==
  ASSUME FileInv, PathInv, CursorInv, ChangeModName
  PROVE  FileInv'
<1>1. PICK e : e = Selected
  OBVIOUS
<1> DEFINE old == e.path
           new == <<old[1], old[2], ~e.on>>
<1>2. /\ Ask /\ old[3] = e.on /\ MayRename(old, new) /\ dirs' = Renamed(old, new)
      /\ UNCHANGED <<file, given, spoiled>>
  BY <1>1 DEF ChangeModName
<1>3. old \in Dirs /\ new \in Dirs /\ Of(new) = Of(old)
  <2>1. old \in Dirs /\ old = <<e.name, e.type, e.on>>
    BY <1>1, <1>2, SelectedIs
  <2> QED BY <2>1 DEF Dirs, Of
<1>4. OnCard' = (OnCard \ {old}) \union {new}
  BY <1>2 DEF OnCard, Renamed
<1> HIDE DEF old, new
<1>5. \A m \in Ids : Housed(m) => Housed(m)'
  BY <1>3, <1>4, HousedRenamed
<1>6. file \in File /\ given \in Giving
  BY DEF FileInv
<1> QED BY <1>2, <1>5, <1>6, FileAsWas

LEMMA AppendFile ==
  ASSUME FileInv, AppendMod
  PROVE  FileInv'
<1>1. PICK m \in inbox : /\ \E n : dirs' = With(<<m, NoType, FALSE>>, n)
                         /\ UNCHANGED <<file, given, spoiled>>
  BY DEF AppendMod
<1>2. OnCard \subseteq OnCard'
  BY <1>1 DEF OnCard, With
<1>3. \A i \in Ids : Housed(i) => Housed(i)'
  BY <1>2 DEF Housed
<1>4. file \in File /\ given \in Giving
  BY DEF FileInv
<1> QED BY <1>1, <1>3, <1>4, FileAsWas

LEMMA RestFile ==
  ASSUME FileInv, UNCHANGED <<dirs, file, given, spoiled>>
  PROVE  FileInv'
<1>1. file \in File /\ given \in Giving
  BY DEF FileInv
<1>2. \A m \in Ids : Housed(m) => Housed(m)'
  BY DEF Housed, OnCard
<1> QED BY <1>1, <1>2, FileAsWas

LEMMA InitFileInv == Init => FileInv
<1> SUFFICES ASSUME Init PROVE FileInv
  OBVIOUS
<1>1. PICK o \in FirstFiles : file = [torn |-> FALSE, members |-> o]
  BY DEF Init
<1>2. /\ o \in Seq(Member) /\ \A d \in Dirs : Once(o, d)
      /\ \A d \in Dirs : Has(o, d) =>
           ~d[3] /\ \E on \in BOOLEAN : <<d[1], d[2], on>> \in OnCard
  BY FilesAssumption DEF Init, OnCard
<1>3. NotGiven \in [Fields -> Texts \union {"nothing"}] /\ \A f \in Fields : NotGiven[f] = "nothing"
  BY DEF NotGiven
<1>4. given \in Giving /\ \A m \in Ids : given[m] = NotGiven
  BY <1>3 DEF Init, Giving, Ids
<1>5. ASSUME NEW k \in Dirs
      PROVE  KeyOK(k)
  <2>1. Of(k)[1] = k[1] /\ Of(k)[2] = k[2]
    BY DEF Of
  <2>2. k[3] \in BOOLEAN
    BY Keys
  <2> QED BY <1>1, <1>2, <2>1, <2>2 DEF KeyOK, Housed
<1>6. \A m \in Ids : Claim(file.members, m, given[m])
  BY <1>1, <1>2, <1>3, <1>4, Keys DEF Claim
<1>7. file \in File
  BY <1>1, <1>2 DEF File
<1> QED BY <1>4, <1>5, <1>6, <1>7 DEF FileInv

LEMMA NextFileInv == CursorInv /\ PathInv /\ FileInv /\ [Next]_vars => FileInv'
<1> SUFFICES ASSUME CursorInv, PathInv, FileInv, [Next]_vars PROVE FileInv'
  OBVIOUS
<1>1. CASE OpenGame \/ Leave \/ Move \/ UNCHANGED vars
  <2>1. UNCHANGED <<dirs, file, given, spoiled>>
    BY <1>1 DEF OpenGame, Leave, Move, vars, ghosts
  <2> QED BY <2>1, RestFile
<1> QED BY <1>1, NameFile, DescribeFile, TypeFile, RemoveFile, SwitchFile, AppendFile DEF Next

(* Whatever is named, retyped, installed, removed and added, mod_name.json  *)
(* has records of mods on the card only, under their directories without    *)
(* the '$'.                                                                 *)
THEOREM FileNamesTheMods == Spec => []KeysNameMods
<1>1. FileInv => KeysNameMods
  <2> SUFFICES ASSUME FileInv, file.torn = FALSE, NEW i \in DOMAIN file.members,
                      NEW k, k = file.members[i][1]
               PROVE  <<k[1], k[2]>> \in spoiled
                      \/ (~k[3] /\ \E on \in BOOLEAN : <<k[1], k[2], on>> \in OnCard)
    BY DEF KeysNameMods, FileInv, File
  <2>1. k \in Dirs
    BY MemberIs DEF FileInv, File
  <2>2. Has(file.members, k)
    BY DEF Has
  <2>3. KeyOK(k)
    BY <2>1 DEF FileInv
  <2>4. Of(k) = <<k[1], k[2]>> /\ Of(k)[1] = k[1] /\ Of(k)[2] = k[2]
    BY DEF Of
  <2> QED BY <2>2, <2>3, <2>4 DEF KeyOK, Housed
<1>2. Init => CursorInv /\ PathInv /\ FileInv
  BY InitCursorInv, InitPathInv, InitFileInv
<1>3. CursorInv /\ PathInv /\ FileInv /\ [Next]_vars => (CursorInv /\ PathInv /\ FileInv)'
  BY NextCursorInv, NextPathInv, NextFileInv
<1> QED BY <1>1, <1>2, <1>3, PTL DEF Spec


-----------------------------------------------------------------------------
(* The names and the descriptions *)

Shows(e, c, g) == /\ g["display_name"] \in {"nothing", e.shown}
                  /\ g["description"] \in {"nothing", GetModDescription(c, e.name, e.type)}

NamesInv ==
  menu = "mods" /\ file.torn = FALSE =>
    \A i \in DOMAIN modInfo :
      \/ Id(modInfo[i]) \in spoiled \union half
      \/ Shows(modInfo[i], cache, given[Id(modInfo[i])])

(* Fields of an entry that is rewritten.                                    *)
LEMMA RewrittenFields ==
  ASSUME NEW e, IsEntry(e), NEW a, NEW b, NEW t
  PROVE  /\ LET f == [e EXCEPT !.shown = t]
            IN  f.name = e.name /\ f.type = e.type /\ f.shown = t
         /\ LET f == [[e EXCEPT !.path = a] EXCEPT !.type = b]
            IN  f.name = e.name /\ f.type = b /\ f.shown = e.shown
         /\ LET f == [[e EXCEPT !.path = a] EXCEPT !.on = b]
            IN  f.name = e.name /\ f.type = e.type /\ f.shown = e.shown
<1>1. PICK d \in Dirs : \E s :
        e = [path |-> d, name |-> d[1], type |-> d[2], on |-> d[3], shown |-> s]
  BY DEF IsEntry
<1>2. PICK s : e = [path |-> d, name |-> d[1], type |-> d[2], on |-> d[3], shown |-> s]
  BY <1>1
<1> QED BY <1>2

(* Two entries of one mod are its two directories, installed and not.       *)
LEMMA Twins ==
  ASSUME PathInv, NEW i \in DOMAIN modInfo, NEW j \in DOMAIN modInfo, i # j,
         Id(modInfo[i]) = Id(modInfo[j]), Id(modInfo[i]) \notin half
  PROVE  Twin(modInfo[i].name, modInfo[i].type)
<1> DEFINE x == modInfo[i]
           y == modInfo[j]
<1>1. /\ x.path \in Dirs /\ x.path = <<x.name, x.type, x.on>> /\ Id(x) = Of(x.path)
      /\ y.path \in Dirs /\ y.path = <<y.name, y.type, y.on>> /\ Id(y) = Of(y.path)
  BY EntryFacts DEF PathInv
<1>2. x.path \in OnCard /\ y.path \in OnCard /\ x.path # y.path
  BY <1>1 DEF PathInv
<1>3. Id(x) = Id(y)
  OBVIOUS
<1> HIDE DEF x, y
<1>4. x.name = y.name /\ x.type = y.type
  BY <1>3 DEF Id
<1>5. x.on \in BOOLEAN /\ y.on \in BOOLEAN
  BY <1>1 DEF Dirs
<1>6. x.on # y.on
  BY <1>1, <1>2, <1>4
<1>7. \A on \in BOOLEAN : <<x.name, x.type, on>> \in OnCard
  BY <1>1, <1>2, <1>4, <1>5, <1>6
<1> QED BY <1>7 DEF Twin, x

(* The cache just loaded describes every mod of the list as it was given.   *)
LEMMA Described ==
  ASSUME NEW fl \in File, fl.torn = FALSE, NEW c, c = LoadModNameMapping(fl),
         NEW e, IsEntry(e), NEW g, Claim(fl.members, Id(e), g)
  PROVE  g["description"] \in {"nothing", GetModDescription(c, e.name, e.type)}
<1>1. e.path \in Dirs /\ Id(e) = Of(e.path)
  BY EntryFacts
<1>2. PICK m : m = Id(e)
  OBVIOUS
<1>3. m \in Ids /\ m[1] = e.name /\ m[2] = e.type
  BY <1>1, <1>2, Keys DEF Id
<1>4. g["description"] \in {"nothing", GetModDescription(c, m[1], m[2])}
  BY <1>2, <1>3, LoadedNames
<1> QED BY <1>3, <1>4

LEMMA Reloaded ==
  ASSUME FileInv', PathInv', file'.torn = FALSE, cache' = LoadModNameMapping(file'),
         NEW i \in DOMAIN modInfo', Id(modInfo'[i]) \notin spoiled'
  PROVE  given'[Id(modInfo'[i])]["description"] \in
           {"nothing", GetModDescription(cache', modInfo'[i].name, modInfo'[i].type)}
<1>1. PICK x : x = modInfo'[i]
  OBVIOUS
<1>2. IsEntry(x)
  BY <1>1 DEF PathInv
<1>3. Id(x) \in Ids
  BY <1>2, EntryFacts, Keys
<1>4. PICK fl, g, c : fl = file' /\ g = given'[Id(x)] /\ c = cache'
  OBVIOUS
<1>5. Claim(fl.members, Id(x), g) /\ fl \in File /\ fl.torn = FALSE
  BY <1>1, <1>3, <1>4 DEF FileInv
<1>6. g["description"] \in {"nothing", GetModDescription(c, x.name, x.type)}
  BY <1>2, <1>4, <1>5, Described
<1> QED BY <1>1, <1>4, <1>6

LEMMA OpenNames ==
  ASSUME FileInv, CursorInv, PathInv, OpenGame
  PROVE  NamesInv'
<1> SUFFICES ASSUME file'.torn = FALSE, NEW i \in DOMAIN modInfo',
                    Id(modInfo'[i]) \notin spoiled'
             PROVE  Shows(modInfo'[i], cache', given'[Id(modInfo'[i])])
  BY DEF NamesInv
<1>1. /\ cache' = LoadModNameMapping(file) /\ file' = file /\ given' = given /\ spoiled' = spoiled
      /\ modInfo' = [j \in 1..Cardinality(OnCard) |-> EntryOf(cache', Nth(j))]
  BY DEF OpenGame, FastScanModInfo, ghosts
<1>2. OnCard \subseteq Dirs /\ IsFiniteSet(OnCard)
  BY DEF PathInv, CursorInv, OnCard
<1>3. i \in 1..Cardinality(OnCard) /\ modInfo'[i] = EntryOf(cache', Nth(i))
  BY <1>1
<1>4. PICK d : d = Nth(i)
  OBVIOUS
<1>5. d \in Dirs
  BY <1>2, <1>3, <1>4, NthEnumerates
<1>6. PICK c : c = cache'
  OBVIOUS
<1>7. PICK m : m = Of(d)
  OBVIOUS
<1>8. m \in Ids /\ m[1] = d[1] /\ m[2] = d[2]
  BY <1>5, <1>7, Keys DEF Of
<1>9. /\ Id(modInfo'[i]) = m /\ modInfo'[i].name = m[1] /\ modInfo'[i].type = m[2]
      /\ modInfo'[i].shown = GetMappedModName(c, m[1], m[2])
  BY <1>3, <1>4, <1>6, <1>7, <1>8 DEF EntryOf, Id, Of
<1>10. PICK g : g = given[m]
  OBVIOUS
<1>11. Claim(file.members, m, g) /\ file \in File /\ file.torn = FALSE
  BY <1>1, <1>8, <1>9, <1>10 DEF FileInv
<1>12. /\ g["display_name"] \in {"nothing", GetMappedModName(c, m[1], m[2])}
       /\ g["description"] \in {"nothing", GetModDescription(c, m[1], m[2])}
  BY <1>1, <1>6, <1>8, <1>11, LoadedNames
<1> QED BY <1>1, <1>6, <1>9, <1>10, <1>12 DEF Shows


(* What the steps that take a text, rename or remove do to the file's end.  *)
LEMMA NotMended ==
  ASSUME NEW f \in File, NEW o, NEW w, Outcome(w, f, o), w.file.torn = FALSE
  PROVE  f.torn = FALSE /\ w.ok \in BOOLEAN
BY DEF Outcome, File

LEMMA NameNames ==
  ASSUME FileInv, NamesInv, CursorInv, PathInv, changemodname
  PROVE  NamesInv'
<1>1. PICK t \in Texts : /\ Ask /\ UNCHANGED <<cache, half>>
        /\ \E w \in Rewritten(file, PutNested(file.members, Selected.path, "display_name", t)) :
             /\ file' = w.file
             /\ modInfo' = IF w.ok THEN [modInfo EXCEPT ![Position].shown = t] ELSE modInfo
             /\ given' = IF w.ok THEN [given EXCEPT ![Id(Selected)].display_name = t] ELSE given
             /\ Spoil({Id(Selected)}, w.ok /\ Unkept)
  BY DEF changemodname, GetModDirName
<1>2. PICK w \in Rewritten(file, PutNested(file.members, Selected.path, "display_name", t)) :
             /\ file' = w.file
             /\ modInfo' = IF w.ok THEN [modInfo EXCEPT ![Position].shown = t] ELSE modInfo
             /\ given' = IF w.ok THEN [given EXCEPT ![Id(Selected)].display_name = t] ELSE given
             /\ Spoil({Id(Selected)}, w.ok /\ Unkept)
  BY <1>1
<1> SUFFICES ASSUME file'.torn = FALSE
             PROVE  \A i \in DOMAIN modInfo' :
                      \/ Id(modInfo'[i]) \in spoiled' \union half'
                      \/ Shows(modInfo'[i], cache', given'[Id(modInfo'[i])])
  BY DEF NamesInv
<1>3. PICK p, e : p = Position /\ e = Selected
  OBVIOUS
<1> DEFINE a == Id(e)
<1>4. p \in DOMAIN modInfo /\ e = modInfo[p] /\ e.path \in Dirs /\ a \in Ids /\ IsEntry(e)
  BY <1>1, <1>3, SelectedIs DEF PathInv
<1>5. menu = "mods" /\ IsSeq(modInfo) /\ given \in Giving
  BY <1>1 DEF Ask, CursorInv, FileInv
<1>6. file.torn = FALSE
  <2>1. file \in File /\ file.members \in Seq(Member)
    BY DEF FileInv, File
  <2>2. PICK o : o = PutNested(file.members, Selected.path, "display_name", t)
    OBVIOUS
  <2>3. o \in Seq(Member)
    <3>1. "display_name" \in Fields
      BY DEF Fields
    <3> QED BY <1>3, <1>4, <2>1, <2>2, <3>1, PutNestedTells
  <2>4. Outcome(w, file, o)
    BY <1>2, <2>1, <2>2, <2>3, RewrittenIs
  <2> QED BY <1>2, <2>1, <2>4, NotMended
<1>7. \A i \in DOMAIN modInfo : \/ Id(modInfo[i]) \in spoiled \union half
                                \/ Shows(modInfo[i], cache, given[Id(modInfo[i])])
  BY <1>5, <1>6 DEF NamesInv
<1>8. spoiled \subseteq spoiled' /\ half' = half /\ cache' = cache
  BY <1>1, <1>2 DEF Spoil
<1>9. CASE ~w.ok
  BY <1>2, <1>7, <1>8, <1>9
<1>10. CASE w.ok
  <2> DEFINE f == [e EXCEPT !.shown = t]
  <2>1. modInfo' = [j \in DOMAIN modInfo |-> IF j = p THEN f ELSE modInfo[j]]
    BY <1>2, <1>3, <1>4, <1>5, <1>10, Rewriting
  <2>2. f.name = e.name /\ f.type = e.type /\ f.shown = t
    BY <1>4, RewrittenFields
  <2>3. PICK g \in [Fields -> Texts \union {"nothing"}] :
                 /\ given' = [given EXCEPT ![a] = g]
                 /\ g["display_name"] = t /\ g["description"] = given[a]["description"]
    <3>1. given' = [given EXCEPT ![a].display_name = t]
      BY <1>2, <1>3, <1>10
    <3> HIDE DEF a
    <3> QED BY <1>4, <1>5, <3>1, Regiven
  <2>4. given'[a] = g /\ \A m : m # a => given'[m] = given[m]
    BY <1>4, <1>5, <2>3 DEF Giving
  <2>5. Unkept => a \in spoiled'
    BY <1>2, <1>3, <1>10 DEF Spoil
  <2> HIDE DEF f
  <2>6. DOMAIN modInfo' = DOMAIN modInfo /\ modInfo'[p] = f
        /\ \A j \in DOMAIN modInfo : j # p => modInfo'[j] = modInfo[j]
    BY <1>4, <2>1
  <2>7. Id(f) = a
    BY <2>2 DEF Id
  <2>8. a \in spoiled' \union half' \/ Shows(f, cache', given'[a])
    BY <1>4, <1>7, <1>8, <2>2, <2>3, <2>4 DEF Shows
  <2>9. ASSUME NEW i \in DOMAIN modInfo, i # p, Id(modInfo[i]) = a
        PROVE  a \in spoiled' \union half'
    <3>1. a \in half \/ Twin(e.name, e.type)
      BY <1>4, <2>9, Twins
    <3> QED BY <1>3, <1>8, <2>5, <3>1 DEF Unkept
  <2> HIDE DEF a
  <2>10. ASSUME NEW i \in DOMAIN modInfo
         PROVE  \/ Id(modInfo'[i]) \in spoiled' \union half'
                \/ Shows(modInfo'[i], cache', given'[Id(modInfo'[i])])
    <3>1. CASE i = p
      BY <2>6, <2>7, <2>8, <3>1
    <3>2. CASE i # p /\ Id(modInfo[i]) = a
      BY <2>6, <2>9, <3>2
    <3>3. CASE i # p /\ Id(modInfo[i]) # a
      BY <1>7, <1>8, <2>4, <2>6, <3>3
    <3> QED BY <3>1, <3>2, <3>3
  <2> QED BY <2>6, <2>10
<1> QED BY <1>9, <1>10

LEMMA DescribeNames ==
  ASSUME FileInv, FileInv', NamesInv, CursorInv, PathInv, PathInv', changemoddescription
  PROVE  NamesInv'
<1>1. PICK t \in Texts : /\ Ask /\ UNCHANGED <<modInfo, half>>
        /\ \E w \in Rewritten(file, PutNested(file.members, Selected.path, "description", t)) :
             /\ file' = w.file
             /\ cache' = IF w.ok THEN LoadModNameMapping(w.file) ELSE cache
             /\ given' = IF w.ok THEN [given EXCEPT ![Id(Selected)].description = t] ELSE given
             /\ Spoil({Id(Selected)}, w.ok /\ Unkept)
  BY DEF changemoddescription, GetModDirName
<1>2. PICK w \in Rewritten(file, PutNested(file.members, Selected.path, "description", t)) :
             /\ file' = w.file
             /\ cache' = IF w.ok THEN LoadModNameMapping(w.file) ELSE cache
             /\ given' = IF w.ok THEN [given EXCEPT ![Id(Selected)].description = t] ELSE given
             /\ Spoil({Id(Selected)}, w.ok /\ Unkept)
  BY <1>1
<1> SUFFICES ASSUME file'.torn = FALSE
             PROVE  \A i \in DOMAIN modInfo' :
                      \/ Id(modInfo'[i]) \in spoiled' \union half'
                      \/ Shows(modInfo'[i], cache', given'[Id(modInfo'[i])])
  BY DEF NamesInv
<1>3. PICK e : e = Selected
  OBVIOUS
<1>4. e.path \in Dirs /\ Id(e) \in Ids
  BY <1>1, <1>3, SelectedIs
<1>5. menu = "mods" /\ given \in Giving
  BY <1>1 DEF Ask, FileInv
<1>6. file.torn = FALSE
  <2>1. file \in File /\ file.members \in Seq(Member)
    BY DEF FileInv, File
  <2>2. PICK o : o = PutNested(file.members, Selected.path, "description", t)
    OBVIOUS
  <2>3. o \in Seq(Member)
    <3>1. "description" \in Fields
      BY DEF Fields
    <3> QED BY <1>3, <1>4, <2>1, <2>2, <3>1, PutNestedTells
  <2>4. Outcome(w, file, o)
    BY <1>2, <2>1, <2>2, <2>3, RewrittenIs
  <2> QED BY <1>2, <2>1, <2>4, NotMended
<1>7. \A i \in DOMAIN modInfo : \/ Id(modInfo[i]) \in spoiled \union half
                                \/ Shows(modInfo[i], cache, given[Id(modInfo[i])])
  BY <1>5, <1>6 DEF NamesInv
<1>8. spoiled \subseteq spoiled' /\ half' = half /\ modInfo' = modInfo
  BY <1>1, <1>2 DEF Spoil
<1>9. CASE ~w.ok
  BY <1>2, <1>7, <1>8, <1>9
<1>10. CASE w.ok
  <2>1. PICK g \in [Fields -> Texts \union {"nothing"}] :
                 /\ given' = [given EXCEPT ![Id(e)] = g]
                 /\ g["description"] = t /\ g["display_name"] = given[Id(e)]["display_name"]
    <3>1. given' = [given EXCEPT ![Id(e)].description = t]
      BY <1>2, <1>3, <1>10
    <3> QED BY <1>4, <1>5, <3>1, Redescribed
  <2>2. \A m : given'[m]["display_name"] = given[m]["display_name"]
    BY <1>4, <1>5, <2>1 DEF Giving
  <2>3. cache' = LoadModNameMapping(file')
    BY <1>2, <1>10
  <2>4. ASSUME NEW i \in DOMAIN modInfo', Id(modInfo'[i]) \notin spoiled'
        PROVE  given'[Id(modInfo'[i])]["description"] \in
                 {"nothing", GetModDescription(cache', modInfo'[i].name, modInfo'[i].type)}
    BY <2>3, <2>4, Reloaded
  <2> QED BY <1>7, <1>8, <2>2, <2>4 DEF Shows
<1> QED BY <1>9, <1>10


(* The selected mod, of which old is the path, becomes new of the type ty.  *)
RetypesEntry(p, e, ty, a, b) ==
  /\ p \in DOMAIN modInfo /\ e = modInfo[p] /\ ty \in Types /\ a = Id(e) /\ b = <<e.name, ty>>
  /\ MayRename(e.path, Retyped(e, ty))
  /\ modInfo' = [modInfo EXCEPT ![p].path = Retyped(e, ty), ![p].type = ty]
  /\ given'[b] = given[a] /\ (a # b => given'[a] = NotGiven)
  /\ \A m \in Ids : m # a /\ m # b => given'[m] = given[m]
  /\ half' = IF a \in half THEN half \union {a, b} ELSE half
  /\ spoiled' = IF e.path[3] \/ a \in spoiled \/ <<e.name, ty, TRUE>> \in OnCard
                THEN spoiled \union {a, b} ELSE spoiled

LEMMA RetypedNames ==
  ASSUME FileInv', NamesInv, CursorInv, PathInv, PathInv', menu = "mods",
         file.torn = FALSE, file'.torn = FALSE, cache' = LoadModNameMapping(file'),
         NEW p, NEW e, NEW ty, NEW a, NEW b, RetypesEntry(p, e, ty, a, b)
  PROVE  NamesInv'
<1> USE DEF RetypesEntry
<1> DEFINE new == Retyped(e, ty)
           f   == [[e EXCEPT !.path = new] EXCEPT !.type = ty]
<1>1. /\ IsEntry(e) /\ IsEntry(f) /\ f.path = new /\ new \in Dirs
      /\ a = Of(e.path) /\ b = Of(new) /\ new = <<e.name, ty, e.on>>
  <2>1. IsEntry(e)
    BY DEF PathInv
  <2> QED BY <2>1, EntryRetyped, EntryFacts DEF Retyped
<1>2. /\ e.path \in Dirs /\ e.path = <<e.name, e.type, e.on>> /\ e.path[3] = e.on
  <2>1. e.path \in Dirs /\ e.path = <<e.name, e.type, e.on>>
    BY <1>1, EntryFacts
  <2> QED BY <2>1
<1>3. a \in Ids /\ b \in Ids
  BY <1>1, <1>2, Keys
<1>4. modInfo' = [j \in DOMAIN modInfo |-> IF j = p THEN f ELSE modInfo[j]]
  <2>1. IsSeq(modInfo)
    BY DEF CursorInv
  <2> QED BY <2>1, Rewriting
<1>5. f.name = e.name /\ f.type = ty /\ f.shown = e.shown
  BY <1>1, RewrittenFields
<1> HIDE DEF f, new
<1>6. DOMAIN modInfo' = DOMAIN modInfo /\ modInfo'[p] = f
      /\ \A j \in DOMAIN modInfo : j # p => modInfo'[j] = modInfo[j]
  BY <1>4
<1>7. Id(f) = b
  BY <1>5 DEF Id
<1>8. /\ given'[b] = given[a] /\ (a # b => given'[a] = NotGiven)
      /\ \A m \in Ids : m # a /\ m # b => given'[m] = given[m]
  OBVIOUS
<1>9. spoiled \subseteq spoiled' /\ half \subseteq half'
  OBVIOUS
<1>10. \A i \in DOMAIN modInfo : \/ Id(modInfo[i]) \in spoiled \union half
                                 \/ Shows(modInfo[i], cache, given[Id(modInfo[i])])
  BY DEF NamesInv
<1>11. \A i \in DOMAIN modInfo : Id(modInfo[i]) \in Ids
  BY EntryFacts, Keys DEF PathInv
<1>12. ASSUME NEW i \in DOMAIN modInfo, i # p, Id(modInfo[i]) = b
       PROVE  b \in spoiled' \union half'
  <2> SUFFICES ASSUME b \notin spoiled', b \notin half' PROVE FALSE
    OBVIOUS
  <2>1. e.on = FALSE /\ <<e.name, ty, TRUE>> \notin OnCard
    BY <1>2 DEF Dirs
  <2>2. PICK x : x = modInfo[i]
    OBVIOUS
  <2>3. x.path \in Dirs /\ x.path = <<x.name, x.type, x.on>> /\ Of(x.path) = b
    BY <1>12, <2>2, EntryFacts DEF PathInv
  <2>4. x.path \in OnCard
    <3>1. b \notin half
      BY <1>9
    <3>2. Of(modInfo[i].path) \in half \/ modInfo[i].path \in OnCard
      BY DEF PathInv
    <3> HIDE DEF RetypesEntry
    <3> QED BY <2>2, <2>3, <3>1, <3>2
  <2>5. x.name = e.name /\ x.type = ty /\ x.on \in BOOLEAN
    BY <1>12, <2>2, <2>3 DEF Id, Dirs
  <2>6. x.path = new
    BY <1>1, <2>1, <2>3, <2>4, <2>5
  <2>7. new = e.path
    BY <2>4, <2>6 DEF MayRename, new
  <2>8. x.path # e.path
    <3>1. b \notin half
      BY <1>9
    <3>2. modInfo[i].path = modInfo[p].path /\ i # p => Of(modInfo[i].path) \in half
      BY DEF PathInv
    <3> QED BY <1>12, <2>2, <2>3, <3>1, <3>2
  <2> QED BY <2>6, <2>7, <2>8
<1>13. ASSUME NEW i \in DOMAIN modInfo', Id(modInfo'[i]) \notin spoiled' \union half'
       PROVE  given'[Id(modInfo'[i])]["display_name"] \in {"nothing", modInfo'[i].shown}
  <2>1. CASE i = p
    <3>1. b \notin spoiled' \union half' /\ a \notin spoiled \union half
      BY <1>6, <1>7, <1>13, <2>1
    <3>2. given[a]["display_name"] \in {"nothing", e.shown}
      BY <1>10, <3>1 DEF Shows
    <3>3. modInfo'[i] = f /\ Id(modInfo'[i]) = b /\ modInfo'[i].shown = e.shown
      BY <1>5, <1>6, <1>7, <2>1
    <3> QED BY <1>8, <3>2, <3>3
  <2>2. CASE i # p
    <3>1. PICK m : m = Id(modInfo[i])
      OBVIOUS
    <3>2. i \in DOMAIN modInfo /\ modInfo'[i] = modInfo[i] /\ m \in Ids /\ m # b
          /\ m \notin spoiled \union half
      BY <1>6, <1>9, <1>11, <1>12, <1>13, <2>2, <3>1
    <3>3. CASE m = a
      <4>1. given'[m]["display_name"] = "nothing"
        BY <1>8, <3>2, <3>3 DEF NotGiven, Fields
      <4> QED BY <3>1, <3>2, <4>1
    <3>4. CASE m # a
      BY <1>8, <1>10, <3>1, <3>2, <3>4 DEF Shows
    <3> QED BY <3>3, <3>4
  <2> QED BY <2>1, <2>2
<1> QED BY <1>13, Reloaded DEF Shows, NamesInv

LEMMA TypeNames ==
  ASSUME FileInv, FileInv', NamesInv, CursorInv, PathInv, PathInv', Dialog_MODLIST_TYPE_Menu
  PROVE  NamesInv'
<1> SUFFICES ASSUME file'.torn = FALSE
             PROVE  NamesInv'
  BY DEF NamesInv
<1>1. PICK type \in Types :
        LET old == Selected.path  new == Retyped(Selected, type)
            ids == {Id(Selected), <<Selected.name, type>>}
        IN  /\ Ask
            /\ \/ UNCHANGED <<file, cache, modInfo, given, spoiled, half>>
               \/ /\ MayRename(old, new)
                  /\ \E w \in Rewritten(file, RenameOrCreate(file.members, old,
                                                  <<Selected.name, type, FALSE>>)) :
                       /\ file' = w.file
                       /\ IF w.ok
                          THEN /\ modInfo' = [modInfo EXCEPT ![Position].path = new,
                                                             ![Position].type = type]
                               /\ cache' = LoadModNameMapping(w.file)
                               /\ given' = [given EXCEPT ![Id(Selected)] = NotGiven,
                                        ![<<Selected.name, type>>] = given[Id(Selected)]]
                               /\ half' = IF Id(Selected) \in half THEN half \union ids
                                          ELSE half
                          ELSE /\ half' = half \union ids
                               /\ UNCHANGED <<modInfo, cache, given>>
                       /\ Spoil(ids, ~w.ok \/ Selected.path[3] \/ Id(Selected) \in spoiled
                                     \/ <<Selected.name, type, TRUE>> \in OnCard)
  BY DEF Dialog_MODLIST_TYPE_Menu, GetModDirName
<1>2. PICK p, e, a, b : p = Position /\ e = Selected /\ a = Id(Selected) /\ b = <<Selected.name, type>>
  OBVIOUS
<1>3. /\ p \in DOMAIN modInfo /\ e = modInfo[p] /\ a = Id(e) /\ b = <<e.name, type>> /\ e.path \in Dirs
  BY <1>1, <1>2, SelectedIs
<1>4. menu = "mods" /\ menu' = menu /\ given \in Giving /\ file \in File /\ file.members \in Seq(Member)
  BY <1>1 DEF Ask, FileInv, File
<1>5. CASE UNCHANGED <<file, cache, modInfo, given, spoiled, half>>
  BY <1>4, <1>5 DEF NamesInv
<1>6. CASE ~UNCHANGED <<file, cache, modInfo, given, spoiled, half>>
  <2>1. PICK o : o = RenameOrCreate(file.members, e.path, <<e.name, type, FALSE>>)
    OBVIOUS
  <2>2. /\ MayRename(e.path, Retyped(e, type))
        /\ \E w \in Rewritten(file, o) :
             /\ file' = w.file
             /\ IF w.ok
                THEN /\ modInfo' = [modInfo EXCEPT ![p].path = Retyped(e, type), ![p].type = type]
                     /\ cache' = LoadModNameMapping(w.file)
                     /\ given' = [given EXCEPT ![a] = NotGiven, ![b] = given[a]]
                     /\ half' = IF a \in half THEN half \union {a, b} ELSE half
                ELSE /\ half' = half \union {a, b}
                     /\ UNCHANGED <<modInfo, cache, given>>
             /\ Spoil({a, b}, ~w.ok \/ e.path[3] \/ a \in spoiled
                              \/ <<e.name, type, TRUE>> \in OnCard)
    BY <1>1, <1>2, <1>6, <2>1
  <2>3. PICK w \in Rewritten(file, o) :
             /\ file' = w.file
             /\ IF w.ok
                THEN /\ modInfo' = [modInfo EXCEPT ![p].path = Retyped(e, type), ![p].type = type]
                     /\ cache' = LoadModNameMapping(w.file)
                     /\ given' = [given EXCEPT ![a] = NotGiven, ![b] = given[a]]
                     /\ half' = IF a \in half THEN half \union {a, b} ELSE half
                ELSE /\ half' = half \union {a, b}
                     /\ UNCHANGED <<modInfo, cache, given>>
             /\ Spoil({a, b}, ~w.ok \/ e.path[3] \/ a \in spoiled
                              \/ <<e.name, type, TRUE>> \in OnCard)
    BY <2>2
  <2>4. o \in Seq(Member)
    <3>1. PICK key : key = <<e.name, type, FALSE>>
      OBVIOUS
    <3>2. key \in Dirs
      <4>1. e.name \in Mods
        BY <1>3 DEF PathInv, IsEntry, Dirs
      <4> QED BY <3>1, <4>1 DEF Dirs
    <3>3. Renames(RenameOrCreate(file.members, e.path, key), file.members, e.path, key)
      BY <1>3, <1>4, <3>2, RenameTells
    <3> QED BY <2>1, <3>1, <3>3 DEF Renames
  <2>5. Outcome(w, file, o)
    BY <1>4, <2>3, <2>4, RewrittenIs
  <2>6. file.torn = FALSE /\ w.ok \in BOOLEAN
    BY <1>4, <2>3, <2>5, NotMended
  <2>7. CASE w.ok = FALSE
    <3>1. spoiled \subseteq spoiled' /\ half \subseteq half' /\ UNCHANGED <<modInfo, cache, given>>
      BY <2>3, <2>7 DEF Spoil
    <3> QED BY <1>4, <2>6, <3>1 DEF NamesInv
  <2>8. CASE w.ok = TRUE
    <3>1. /\ modInfo' = [modInfo EXCEPT ![p].path = Retyped(e, type), ![p].type = type]
          /\ cache' = LoadModNameMapping(file')
          /\ given' = [given EXCEPT ![a] = NotGiven, ![b] = given[a]]
          /\ half' = IF a \in half THEN half \union {a, b} ELSE half
      BY <2>3, <2>8
    <3>2. spoiled' = IF e.path[3] \/ a \in spoiled \/ <<e.name, type, TRUE>> \in OnCard
                     THEN spoiled \union {a, b} ELSE spoiled
      BY <2>3, <2>8 DEF Spoil
    <3>3. a \in Ids /\ b \in Ids
      <4>1. e.name \in Mods
        BY <1>3 DEF PathInv, IsEntry, Dirs
      <4> QED BY <1>1, <1>2, <1>3, <4>1, SelectedIs DEF Ids
    <3>4. /\ given'[b] = given[a] /\ (a # b => given'[a] = NotGiven)
          /\ \A m \in Ids : m # a /\ m # b => given'[m] = given[m]
      BY <1>4, <3>1, <3>3, RetypedGiven
    <3>5. RetypesEntry(p, e, type, a, b)
      BY <1>3, <2>2, <3>1, <3>2, <3>4 DEF RetypesEntry
    <3> QED BY <1>4, <2>6, <3>1, <3>5, RetypedNames
  <2> QED BY <2>6, <2>7, <2>8
<1> QED BY <1>5, <1>6


LEMMA RemoveNames ==
  ASSUME FileInv, NamesInv, CursorInv, PathInv, RemoveMod
  PROVE  NamesInv'
<1> SUFFICES ASSUME file'.torn = FALSE
             PROVE  NamesInv'
  BY DEF NamesInv
<1>1. PICK p, e, n, a : p = Position /\ e = Selected /\ n = Len(modInfo) /\ a = Id(Selected)
  OBVIOUS
<1>2. /\ Ask /\ modInfo' = RemoveAt(modInfo, p) /\ given' = [given EXCEPT ![a] = NotGiven]
      /\ half \subseteq half' /\ cache' = cache
      /\ \E w \in Pruned(file, Drop(file.members, e.path)) :
           file' = w.file /\ spoiled \subseteq spoiled'
  BY <1>1 DEF RemoveMod, MayRemove, RemoveEntry, Spoil
<1>3. PICK w \in Pruned(file, Drop(file.members, e.path)) :
        file' = w.file /\ spoiled \subseteq spoiled'
  BY <1>2
<1>4. menu = "mods" /\ given \in Giving /\ file \in File /\ file.members \in Seq(Member) /\ a \in Ids
  BY <1>1, <1>2, SelectedIs DEF Ask, FileInv, File
<1>5. PICK o : o = Drop(file.members, e.path)
  OBVIOUS
<1>6. o \in Seq(Member)
  BY <1>4, <1>5, DropSame
<1>7. Outcome(w, file, o)
  BY <1>3, <1>4, <1>5, <1>6, PrunedIs
<1>8. file.torn = FALSE
  BY <1>3, <1>4, <1>7, NotMended
<1>9. p \in 1..n /\ n \in Nat /\ IsSeq(modInfo) /\ DOMAIN modInfo = 1..n
  BY <1>1, <1>2, Positioned DEF CursorInv, IsSeq, Ask
<1>10. ASSUME NEW i \in DOMAIN modInfo'
       PROVE  \E j \in DOMAIN modInfo : modInfo'[i] = modInfo[j]
  <2>1. /\ IsSeq(modInfo') /\ Len(modInfo') = n - 1
        /\ \A j \in 1..(n - 1) : modInfo'[j] = IF j < p THEN modInfo[j] ELSE modInfo[j + 1]
    BY <1>1, <1>2, <1>9, Removed
  <2>2. i \in 1..(n - 1)
    BY <2>1 DEF IsSeq
  <2>3. i \in 1..n /\ i + 1 \in 1..n
    BY <1>9, <2>2
  <2> QED BY <1>9, <2>1, <2>2, <2>3
<1>11. \A m \in Ids : given'[m] = given[m] \/ given'[m] = NotGiven
  BY <1>2, <1>4 DEF Giving
<1>12. \A i \in DOMAIN modInfo : Id(modInfo[i]) \in Ids
  BY EntryFacts, Keys DEF PathInv
<1>13. \A e1, c : Shows(e1, c, NotGiven)
  BY DEF Shows, NotGiven, Fields
<1>14. \A i \in DOMAIN modInfo : \/ Id(modInfo[i]) \in spoiled \union half
                                 \/ Shows(modInfo[i], cache, given[Id(modInfo[i])])
  BY <1>4, <1>8 DEF NamesInv
<1>15. ASSUME NEW i \in DOMAIN modInfo'
       PROVE  \/ Id(modInfo'[i]) \in spoiled' \union half'
              \/ Shows(modInfo'[i], cache', given'[Id(modInfo'[i])])
  <2>1. PICK j \in DOMAIN modInfo : modInfo'[i] = modInfo[j]
    BY <1>10
  <2>2. PICK x, m : x = modInfo[j] /\ m = Id(modInfo[j])
    OBVIOUS
  <2>3. m \in Ids /\ (m \in spoiled \union half \/ Shows(x, cache, given[m]))
    BY <1>12, <1>14, <2>2
  <2>4. m \in spoiled' \union half' \/ Shows(x, cache, given'[m])
    BY <1>2, <1>3, <1>11, <1>13, <2>3
  <2> QED BY <1>2, <2>1, <2>2, <2>4
<1> QED BY <1>15 DEF NamesInv

LEMMA SwitchNames ==
  ASSUME NamesInv, CursorInv, PathInv, ChangeModName
  PROVE  NamesInv'
<1>1. PICK p, e, new : p = Position /\ e = Selected
                       /\ new = <<Selected.path[1], Selected.path[2], ~Selected.on>>
  OBVIOUS
<1>2. /\ Ask /\ UNCHANGED <<file, cache, given, spoiled, half>>
      /\ modInfo' = [modInfo EXCEPT ![p].path = new, ![p].on = ~e.on]
  BY <1>1 DEF ChangeModName
<1>3. p \in DOMAIN modInfo /\ e = modInfo[p] /\ IsSeq(modInfo)
  BY <1>1, <1>2, SelectedIs DEF CursorInv
<1> DEFINE f == [[e EXCEPT !.path = new] EXCEPT !.on = ~e.on]
<1>4. f.name = e.name /\ f.type = e.type /\ f.shown = e.shown
  BY <1>3, RewrittenFields DEF PathInv
<1>5. modInfo' = [j \in DOMAIN modInfo |-> IF j = p THEN f ELSE modInfo[j]]
  BY <1>2, <1>3, Rewriting
<1> HIDE DEF f
<1>6. DOMAIN modInfo' = DOMAIN modInfo /\ modInfo'[p] = f
      /\ \A j \in DOMAIN modInfo : j # p => modInfo'[j] = modInfo[j]
  BY <1>3, <1>5
<1>7. Id(f) = Id(e) /\ \A c, g : Shows(f, c, g) <=> Shows(e, c, g)
  BY <1>4 DEF Id, Shows
<1>8. menu' = "mods" /\ file'.torn = FALSE =>
        \A i \in DOMAIN modInfo : \/ Id(modInfo[i]) \in spoiled \union half
                                  \/ Shows(modInfo[i], cache, given[Id(modInfo[i])])
  BY <1>2 DEF NamesInv, Ask
<1>9. \A i \in DOMAIN modInfo : i = p \/ modInfo'[i] = modInfo[i]
  BY <1>6
<1> QED BY <1>2, <1>3, <1>6, <1>7, <1>8, <1>9 DEF NamesInv

LEMMA AppendNames ==
  ASSUME FileInv, NamesInv, CursorInv, PathInv, AppendMod
  PROVE  NamesInv'
<1> SUFFICES ASSUME file'.torn = FALSE
             PROVE  NamesInv'
  BY DEF NamesInv
<1>1. PICK m \in inbox :
        /\ Ask /\ UNCHANGED <<file, cache, given, spoiled>>
        /\ \/ /\ modInfo' = Append(modInfo, [path |-> <<m, NoType, FALSE>>, name |-> m,
                                             type |-> NoType, on |-> FALSE, shown |-> m])
              /\ half' = IF <<m, NoType, FALSE>> \in OnCard \/ <<m, NoType, TRUE>> \in OnCard
                         THEN half \union {<<m, NoType>>} ELSE half
           \/ half \subseteq half' /\ modInfo' = modInfo
  BY DEF AppendMod
<1>2. file.torn = FALSE /\ menu = "mods" /\ menu' = menu
  BY <1>1 DEF Ask
<1>3. \A i \in DOMAIN modInfo : \/ Id(modInfo[i]) \in spoiled \union half
                                \/ Shows(modInfo[i], cache, given[Id(modInfo[i])])
  BY <1>2 DEF NamesInv
<1>4. CASE half \subseteq half' /\ modInfo' = modInfo
  BY <1>1, <1>3, <1>4 DEF NamesInv
<1>5. PICK e, a : /\ e = [path |-> <<m, NoType, FALSE>>, name |-> m,
                          type |-> NoType, on |-> FALSE, shown |-> m]
                  /\ a = <<m, NoType>>
  OBVIOUS
<1>6. CASE /\ modInfo' = Append(modInfo, e)
           /\ half' = IF <<m, NoType, FALSE>> \in OnCard \/ <<m, NoType, TRUE>> \in OnCard
                      THEN half \union {a} ELSE half
  <2>1. PICK n : n = Len(modInfo)
    OBVIOUS
  <2>2. n \in Nat /\ DOMAIN modInfo = 1..n /\ IsSeq(modInfo)
    BY <1>1, <2>1, Positioned DEF CursorInv, IsSeq, Ask
  <2>3. /\ IsSeq(modInfo') /\ Len(modInfo') = n + 1 /\ modInfo'[n + 1] = e
        /\ \A j \in 1..n : modInfo'[j] = modInfo[j]
    BY <1>6, <2>1, <2>2, Appended
  <2>4. \A i \in DOMAIN modInfo' : i = n + 1 \/ i \in 1..n
    <3>1. DOMAIN modInfo' = 1..(n + 1)
      BY <2>3 DEF IsSeq
    <3> QED BY <2>2, <3>1
  <2>5. a \in Ids /\ Key(a) = <<m, NoType, FALSE>> /\ a[1] = m /\ a[2] = NoType
    BY <1>5 DEF Ids, Key, PathInv
  <2>6. Id(e) = a
    BY <1>5 DEF Id
  <2>7. ASSUME a \notin spoiled, a \notin half'
        PROVE  \A f \in Fields : given[a][f] = "nothing"
    <3>1. ~Housed(a)
      BY <1>5, <1>6, <2>5, <2>7 DEF Housed
    <3>2. ~Has(file.members, Key(a))
      BY <1>2, <2>5, <2>7, <3>1, Keys DEF FileInv, KeyOK
    <3>3. Claim(file.members, a, given[a])
      BY <1>2, <2>5, <2>7 DEF FileInv
    <3> QED BY <3>2, <3>3 DEF Claim, Told, Has
  <2>8. a \in spoiled' \union half' \/ Shows(e, cache', given'[a])
    <3>1. "display_name" \in Fields /\ "description" \in Fields
      BY DEF Fields
    <3> QED BY <1>1, <2>7, <3>1 DEF Shows
  <2>9. half \subseteq half'
    BY <1>6
  <2>10. ASSUME NEW i \in DOMAIN modInfo'
         PROVE  \/ Id(modInfo'[i]) \in spoiled' \union half'
                \/ Shows(modInfo'[i], cache', given'[Id(modInfo'[i])])
    <3>1. CASE i = n + 1
      BY <2>3, <2>6, <2>8, <3>1
    <3>2. CASE i \in 1..n
      <4>1. modInfo'[i] = modInfo[i] /\ i \in DOMAIN modInfo
        BY <2>2, <2>3, <3>2
      <4> QED BY <1>1, <1>3, <2>9, <4>1
    <3> QED BY <2>4, <3>1, <3>2
  <2> QED BY <2>10 DEF NamesInv
<1> QED BY <1>1, <1>4, <1>5, <1>6

LEMMA InitNamesInv == Init => NamesInv
BY DEF Init, NamesInv

LEMMA NextNamesInv ==
  CursorInv /\ PathInv /\ PathInv' /\ FileInv /\ FileInv' /\ NamesInv /\ [Next]_vars => NamesInv'
<1> SUFFICES ASSUME CursorInv, PathInv, PathInv', FileInv, FileInv', NamesInv, [Next]_vars
             PROVE  NamesInv'
  OBVIOUS
<1>1. CASE Leave
  BY <1>1 DEF Leave, NamesInv
<1>2. CASE Move \/ UNCHANGED vars
  BY <1>2 DEF Move, vars, ghosts, NamesInv
<1> QED BY <1>1, <1>2, OpenNames, NameNames, DescribeNames, TypeNames, RemoveNames, SwitchNames,
           AppendNames DEF Next

(* The list shows the name and the description given to a mod that was not  *)
(* installed, whatever else is done to it and to others, but for those an   *)
(* operation left half way and those mod_name.json does not keep.           *)
THEOREM GivenNamesAreShown == Spec => []NamesKept
<1>1. NamesInv /\ FileInv => NamesKept
  <2> SUFFICES ASSUME NamesInv, FileInv, menu = "mods", ~file.torn, NEW i \in DOMAIN modInfo,
                      Id(modInfo[i]) \notin spoiled \union half
               PROVE  /\ given[Id(modInfo[i])].display_name \in {"nothing", modInfo[i].shown}
                      /\ given[Id(modInfo[i])].description \in
                           {"nothing", GetModDescription(cache, modInfo[i].name, modInfo[i].type)}
    BY DEF NamesKept
  <2>1. file.torn = FALSE
    BY DEF FileInv, File
  <2>2. Shows(modInfo[i], cache, given[Id(modInfo[i])])
    BY <2>1 DEF NamesInv
  <2> QED BY <2>2 DEF Shows
<1>2. Init => CursorInv /\ PathInv /\ FileInv /\ NamesInv
  BY InitCursorInv, InitPathInv, InitFileInv, InitNamesInv
<1>3. CursorInv /\ PathInv /\ FileInv /\ NamesInv /\ [Next]_vars =>
        (CursorInv /\ PathInv /\ FileInv /\ NamesInv)'
  <2> SUFFICES ASSUME CursorInv, PathInv, FileInv, NamesInv, [Next]_vars
               PROVE  (CursorInv /\ PathInv /\ FileInv /\ NamesInv)'
    OBVIOUS
  <2>1. CursorInv' /\ PathInv' /\ FileInv'
    BY NextCursorInv, NextPathInv, NextFileInv
  <2> QED BY <2>1, NextNamesInv
<1> QED BY <1>1, <1>2, <1>3, PTL DEF Spec
=============================================================================
