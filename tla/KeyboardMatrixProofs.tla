------------------------- MODULE KeyboardMatrixProofs -------------------------
(***************************************************************************)
(* Proofs about KeyboardMatrix, for any set of key codes, whatever stands   *)
(* behind the position tables.                                              *)
(***************************************************************************)
EXTENDS KeyboardMatrix, KeyPositionsProofs

\* Only keys that are looked up are asked of the chord layout.
AskedOK == asked[1] = "omnichord" => asked[2] \in Keys

\* What is played is in the reach of the layout that was asked.
PlayedInReach ==
  asked[1] \in Layouts /\ \A i \in 1..Len(played) : played[i] \in Reach(asked[1])

IInv == TypeOK /\ AskedOK /\ ChordMatchesKey /\ ChordInRange /\ PlayedInReach

-------------------------------------------------------------------------------
(* The keys *)

\* Every key that is looked up has a row and a column, those beyond the tables too.
LEMMA PositionIsInt ==
  ASSUME NEW key \in Keys
  PROVE  PositionRead(key)[1] \in Int /\ PositionRead(key)[2] \in Int
<1>1. CASE key >= 128
  <2>1. Stray[key] \in Int8 \X Int8
    BY <1>1, TablesAssumption
  <2>2. PositionRead(key) = Stray[key]
    BY <1>1 DEF PositionRead
  <2>3. Int8 \subseteq Int
    BY DEF Int8
  <2> QED BY <2>1, <2>2, <2>3
<1>2. CASE ~(key >= 128)
  <2>1. key \in 0..127
    BY <1>2, TablesAssumption
  <2>2. keycode2row[key] \in Int /\ keycode2column[key] \in Int
    BY <2>1, Positions
  <2> QED BY <1>2, <2>2 DEF PositionRead
<1> QED BY <1>1, <1>2

-------------------------------------------------------------------------------
(* The array and its reader *)

\* The reader stops at the first 0.
LEMMA ReadUpTo ==
  ASSUME NEW array, NEW n \in 0..4, array[n] = 0,
         \A j \in 0..(n - 1) : array[j] # 0
  PROVE  UpToZero(array) = [i \in 1..n |-> array[i - 1]]
<1> DEFINE First(i) == array[i] = 0 /\ \A j \in 0..(i - 1) : array[j] # 0
           end == CHOOSE i \in 0..4 : First(i)
<1>1. First(n)
  OBVIOUS
<1>2. end \in 0..4 /\ First(end)
  BY <1>1
<1>3. end = n
  <2>1. ~(end < n)
    BY <1>2
  <2>2. ~(n < end)
    BY <1>2
  <2> QED BY <1>2, <2>1, <2>2
<1> QED BY <1>3 DEF UpToZero

\* What a key of the chord layout writes keeps to bytes and reads as its voicing,
\* whatever the array held.
LEMMA ChordIsVoicing ==
  ASSUME NEW key \in Keys, notes \in [0..4 -> 0..255]
  PROVE  /\ lookup_omnichord(key) \in [0..4 -> 0..255]
         /\ UpToZero(lookup_omnichord(key)) = Voicing("omnichord", key)
         /\ Len(UpToZero(lookup_omnichord(key))) \in 0..4
         /\ \A i \in 1..Len(UpToZero(lookup_omnichord(key))) :
               UpToZero(lookup_omnichord(key))[i] \in 40..67
<1> DEFINE row == PositionRead(key)[1]
           col == PositionRead(key)[2]
           root == omnichord_root(col)
           array == lookup_omnichord(key)
<1>1. row \in Int /\ col \in Int
  BY PositionIsInt
<1>2. CASE row < 0 \/ col < 0
  <2>1. array = [notes EXCEPT ![0] = 0]
    BY <1>2 DEF lookup_omnichord
  <2>2. array[0] = 0 /\ array \in [0..4 -> 0..255]
    BY <2>1
  <2> HIDE DEF array
  <2>3. UpToZero(array) = [i \in 1..0 |-> array[i - 1]]
    BY <2>2, ReadUpTo
  <2>4. UpToZero(array) = << >>
    BY <2>3
  <2>5. Voicing("omnichord", key) = << >>
    BY <1>2 DEF Voicing
  <2> QED BY <2>2, <2>4, <2>5 DEF array
<1>3. CASE ~(row < 0 \/ col < 0)
  <2> HIDE DEF row, col
  <2>1. root \in 40..51
    BY <1>1, <1>3, RootInOctave
  <2>2. /\ array = ChordSlots(row, root)
        /\ Voicing("omnichord", key)
             = [i \in 1..Len(ChordIntervals(row)) |-> root + ChordIntervals(row)[i]]
    BY <1>3 DEF lookup_omnichord, Voicing, row, col
  <2> HIDE DEF root, array
  <2>3. SUFFICES /\ array \in [0..4 -> 0..255]
                 /\ UpToZero(array) = Voicing("omnichord", key)
                 /\ Len(UpToZero(array)) \in 0..4
                 /\ \A i \in 1..Len(UpToZero(array)) : UpToZero(array)[i] \in 40..67
    BY DEF array
  <2>4. CASE row = 1
    <3>1. array = [notes EXCEPT ![0] = root, ![1] = root + 4, ![2] = root + 7,
                                ![3] = root + 10, ![4] = 0]
      BY <2>2, <2>4 DEF ChordSlots
    <3>2. /\ array \in [0..4 -> 0..255]
          /\ array[0] = root /\ array[1] = root + 4 /\ array[2] = root + 7
          /\ array[3] = root + 10 /\ array[4] = 0
      BY <2>1, <3>1
    <3>3. UpToZero(array) = [i \in 1..4 |-> array[i - 1]]
      BY <2>1, <3>2, ReadUpTo
    <3>4. Voicing("omnichord", key) = [i \in 1..4 |-> root + <<0, 4, 7, 10>>[i]]
      BY <2>2, <2>4 DEF ChordIntervals
    <3>5. \A i \in 1..4 : array[i - 1] = root + <<0, 4, 7, 10>>[i] /\ array[i - 1] \in 40..67
      BY <2>1, <3>2
    <3> QED BY <3>2, <3>3, <3>4, <3>5
  <2>5. CASE row = 2
    <3>1. array = [notes EXCEPT ![0] = root, ![1] = root + 3, ![2] = root + 7, ![3] = 0]
      BY <2>2, <2>5 DEF ChordSlots
    <3>2. /\ array \in [0..4 -> 0..255]
          /\ array[0] = root /\ array[1] = root + 3 /\ array[2] = root + 7 /\ array[3] = 0
      BY <2>1, <3>1
    <3>3. UpToZero(array) = [i \in 1..3 |-> array[i - 1]]
      BY <2>1, <3>2, ReadUpTo
    <3>4. Voicing("omnichord", key) = [i \in 1..3 |-> root + <<0, 3, 7>>[i]]
      BY <2>2, <2>5 DEF ChordIntervals
    <3>5. \A i \in 1..3 : array[i - 1] = root + <<0, 3, 7>>[i] /\ array[i - 1] \in 40..67
      BY <2>1, <3>2
    <3> QED BY <3>2, <3>3, <3>4, <3>5
  <2>6. CASE row = 3
    <3>1. array = [notes EXCEPT ![0] = root, ![1] = root + 4, ![2] = root + 7, ![3] = 0]
      BY <2>2, <2>6 DEF ChordSlots
    <3>2. /\ array \in [0..4 -> 0..255]
          /\ array[0] = root /\ array[1] = root + 4 /\ array[2] = root + 7 /\ array[3] = 0
      BY <2>1, <3>1
    <3>3. UpToZero(array) = [i \in 1..3 |-> array[i - 1]]
      BY <2>1, <3>2, ReadUpTo
    <3>4. Voicing("omnichord", key) = [i \in 1..3 |-> root + <<0, 4, 7>>[i]]
      BY <2>2, <2>6 DEF ChordIntervals
    <3>5. \A i \in 1..3 : array[i - 1] = root + <<0, 4, 7>>[i] /\ array[i - 1] \in 40..67
      BY <2>1, <3>2
    <3> QED BY <3>2, <3>3, <3>4, <3>5
  <2>7. CASE row \notin {1, 2, 3}
    <3>1. array = [notes EXCEPT ![0] = root, ![1] = 0]
      BY <2>2, <2>7 DEF ChordSlots
    <3>2. /\ array \in [0..4 -> 0..255]
          /\ array[0] = root /\ array[1] = 0
      BY <2>1, <3>1
    <3>3. UpToZero(array) = [i \in 1..1 |-> array[i - 1]]
      BY <2>1, <3>2, ReadUpTo
    <3>4. Voicing("omnichord", key) = [i \in 1..1 |-> root + <<0>>[i]]
      BY <2>2, <2>7 DEF ChordIntervals
    <3>5. \A i \in 1..1 : array[i - 1] = root + <<0>>[i] /\ array[i - 1] \in 40..67
      BY <2>1, <3>2
    <3> QED BY <3>2, <3>3, <3>4, <3>5
  <2> QED BY <2>4, <2>5, <2>6, <2>7
<1> QED BY <1>2, <1>3

LEMMA PositionsOfChords ==
  ASSUME NEW key \in Keys
  PROVE  DOMAIN Voicing("omnichord", key) = 1..Len(Voicing("omnichord", key))
<1> DEFINE on == ChordIntervals(PositionRead(key)[1])
           root == omnichord_root(PositionRead(key)[2])
<1>1. Len(on) \in Nat
  BY DEF ChordIntervals
<1>2. \/ Voicing("omnichord", key) = << >>
      \/ Voicing("omnichord", key) = [i \in 1..Len(on) |-> root + on[i]]
  BY DEF Voicing
<1> HIDE DEF on, root
<1> QED BY <1>1, <1>2

-------------------------------------------------------------------------------
(* The invariant *)

LEMMA InitInv == Init => IInv
<1> SUFFICES ASSUME Init PROVE IInv
  OBVIOUS
<1>1. TypeOK
  <2>1. N_KEYMAPS = 7 /\ keymaps[1] = "piano"
    BY DEF N_KEYMAPS, keymaps
  <2> QED BY <2>1 DEF Init, TypeOK
<1>2. AskedOK /\ ChordInRange /\ PlayedInReach
  BY LayoutsAre DEF Init, AskedOK, ChordInRange, PlayedInReach
<1>3. ChordMatchesKey
  <2>1. keycode2row[0] = -1
    BY DEF keycode2row
  <2>2. SingleNote("piano", 0) = 0
    BY <2>1 DEF SingleNote, note_by_lut
  <2> QED BY <2>2 DEF Init, ChordMatchesKey, Voicing
<1> QED BY <1>1, <1>2, <1>3 DEF IInv

LEMMA LookupStep == ASSUME IInv, NEW key \in Keys, Lookup(key) PROVE IInv'
<1>1. asked' = <<keymap, key>> /\ keymap' = keymap
  BY DEF Lookup
<1>2. ASSUME played' = Voicing(keymap, key) PROVE PlayedInReach'
  <2>1. keymap \in Layouts /\ key \in 0..255
    BY TablesAssumption DEF IInv, TypeOK, Layouts, N_KEYMAPS
  <2>2. \A i \in DOMAIN Voicing(keymap, key) : Voicing(keymap, key)[i] \in Reach(keymap)
    BY <2>1, PositionIsInt, VoicingInReach
  <2>3. DOMAIN Voicing(keymap, key) = 1..Len(Voicing(keymap, key))
    <3>1. CASE keymap = "omnichord"
      BY <3>1, PositionsOfChords
    <3>2. CASE keymap # "omnichord"
      <4> DEFINE note == SingleNote(keymap, key)
      <4>1. Voicing(keymap, key) = << >> \/ Voicing(keymap, key) = <<note>>
        BY <3>2 DEF Voicing
      <4> HIDE DEF note
      <4> QED BY <4>1
    <3> QED BY <3>1, <3>2
  <2> QED BY <1>1, <1>2, <2>1, <2>2, <2>3 DEF PlayedInReach
<1>3. CASE keymap = "omnichord"
  <2>1. notes' = lookup_omnichord(key) /\ played' = UpToZero(notes')
    BY <1>3 DEF Lookup
  <2>2. /\ notes' \in [0..4 -> 0..255]
        /\ played' = Voicing("omnichord", key)
        /\ Len(played') \in 0..4
        /\ \A i \in 1..Len(played') : played'[i] \in 40..67
    BY <2>1, ChordIsVoicing DEF IInv, TypeOK
  <2> QED BY <1>1, <1>3, <1>2, <2>2 DEF IInv, TypeOK, AskedOK, ChordMatchesKey, ChordInRange
<1>4. CASE keymap # "omnichord"
  <2>1. /\ notes' = notes
        /\ played' = Voicing(keymap, key)
        /\ played' = << >> \/ played' = <<SingleNote(keymap, key)>>
    BY <1>4 DEF Lookup, Voicing
  <2>2. Len(played') \in 0..4
    BY <2>1
  <2> QED BY <1>1, <1>4, <1>2, <2>1, <2>2 DEF IInv, TypeOK, AskedOK, ChordMatchesKey, ChordInRange
<1> QED BY <1>3, <1>4

LEMMA SelectStep ==
  ASSUME IInv, NEW index \in 0..MaxIndex, set_keymap_by_index(index) \/ IgnoreIndex(index)
  PROVE  IInv'
<1>1. CASE set_keymap_by_index(index)
  <2>1. index + 1 \in 1..N_KEYMAPS
    BY <1>1, TablesAssumption DEF set_keymap_by_index, N_KEYMAPS, keymaps
  <2>2. keymap' \in {keymaps[i] : i \in 1..N_KEYMAPS}
    BY <1>1, <2>1 DEF set_keymap_by_index
  <2>3. UNCHANGED <<notes, asked, played>>
    BY <1>1 DEF set_keymap_by_index
  <2> QED BY <2>2, <2>3
          DEF IInv, TypeOK, AskedOK, ChordMatchesKey, ChordInRange, PlayedInReach
<1>2. CASE IgnoreIndex(index)
  BY <1>2 DEF IgnoreIndex, vars, IInv, TypeOK, AskedOK, ChordMatchesKey, ChordInRange,
              PlayedInReach
<1> QED BY <1>1, <1>2

\* IInv holds in every reachable state: a lookup leaves nothing in the static array that
\* a later one could read.
THEOREM Invariance == Spec => []IInv
<1>1. IInv /\ [Next]_vars => IInv'
  <2> SUFFICES ASSUME IInv, [Next]_vars PROVE IInv'
    OBVIOUS
  <2>1. CASE \E key \in Keys : Lookup(key)
    BY <2>1, LookupStep
  <2>2. CASE \E index \in 0..MaxIndex : set_keymap_by_index(index) \/ IgnoreIndex(index)
    BY <2>2, SelectStep
  <2>3. CASE UNCHANGED vars
    BY <2>3 DEF vars, IInv, TypeOK, AskedOK, ChordMatchesKey, ChordInRange, PlayedInReach
  <2> QED BY <2>1, <2>2, <2>3 DEF Next
<1> QED BY InitInv, <1>1, PTL DEF Spec

\* The layout is one of keymaps[], whatever index is asked for, and every entry of the
\* chord array is a byte.
THEOREM TypeCorrect == Spec => []TypeOK
<1>1. IInv => TypeOK
  BY DEF IInv
<1> QED BY <1>1, Invariance, PTL

\* A key plays the chord of its own row and column, whatever was looked up before it
\* (keyboard_matrix.c 125-159).
THEOREM ChordIsOfKey == Spec => []ChordMatchesKey
<1>1. IInv => ChordMatchesKey
  BY DEF IInv
<1> QED BY <1>1, Invariance, PTL

\* Whatever layout is selected and whatever key is looked up, also beyond the position
\* tables, the octave keys' transpositions make MIDI data bytes of its notes, but for the
\* highest one of four layouts and the next one of wicki_hayden (keyboard.c 62-67 counts
\* with the notes of three layouts).
THEOREM TransposedFits == Spec => []TransposedIsDataByte
<1>1. IInv => TransposedIsDataByte
  <2> SUFFICES ASSUME IInv, NEW i \in 1..Len(played),
                      NEW o \in Transpositions
               PROVE  FitsIn(asked[1], played[i] + o, o)
    BY DEF TransposedIsDataByte, FitsIn, Transpositions
  <2>1. asked[1] \in Layouts /\ played[i] \in Reach(asked[1])
    BY DEF IInv, PlayedInReach
  <2> QED BY <2>1, ReachTransposed
<1> QED BY <1>1, Invariance, PTL

\* The notes of a chord stay within 40 and 67, also for key codes beyond the position
\* tables, whatever is read for them.
THEOREM ChordFitsRange == Spec => []ChordInRange
<1>1. IInv => ChordInRange
  BY DEF IInv
<1> QED BY <1>1, Invariance, PTL
===============================================================================
