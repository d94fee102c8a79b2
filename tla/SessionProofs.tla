---------------------------- MODULE SessionProofs ----------------------------
(***************************************************************************)
(* Proofs about what is decided for one session: which sessions memory     *)
(* keeps out of, what the memory tools answer, and what of a prompt fits   *)
(* its budget.  The three share no state.                                  *)
(***************************************************************************)
EXTENDS SessionExclusion, MemoryTools, ContextBudget, SequenceTheorems, FiniteSetTheorems,
        WellFoundedInduction, TLAPS

-----------------------------------------------------------------------------
(***************************************************************************)
(* SessionExclusion, for any sessions, children and sizes of the tables.   *)
(*                                                                         *)
(* A bounded set is always the end of the whole history of activity: what  *)
(* was removed from it was removed from the history, what was renewed went *)
(* to the end of both, and only its first member was ever dropped.  So a   *)
(* member of the history that it lacks comes before all that it has.       *)
(***************************************************************************)

Distinct(seq) == \A i, j \in DOMAIN seq : seq[i] = seq[j] => i = j

EndsWith(long, short) ==
  /\ Len(short) <= Len(long)
  /\ \A i \in DOMAIN short : short[i] = long[Len(long) - Len(short) + i]

LEMMA RemoveAtProperties ==
  ASSUME NEW S, NEW seq \in Seq(S), NEW p \in 1..Len(seq)
  PROVE  /\ RemoveAt(seq, p) \in Seq(S) /\ Len(RemoveAt(seq, p)) = Len(seq) - 1
         /\ \A i \in 1..(Len(seq) - 1) :
              RemoveAt(seq, p)[i] = IF i < p THEN seq[i] ELSE seq[i + 1]
<1> DEFINE a == SubSeq(seq, 1, p - 1)
           b == SubSeq(seq, p + 1, Len(seq))
           n == Len(seq)
<1>1. n \in Nat /\ p \in 1..n /\ \A i \in 1..n : seq[i] \in S
  OBVIOUS
<1>2. a \in Seq(S) /\ Len(a) = p - 1 /\ \A i \in 1..(p - 1) : a[i] = seq[i]
  <2>1. 1 \in Int /\ p - 1 \in Int /\ \A i \in 1..(p - 1) : seq[i] \in S
    BY <1>1
  <2>2. /\ a \in Seq(S) /\ Len(a) = IF 1 <= p - 1 THEN (p - 1) - 1 + 1 ELSE 0
        /\ \A i \in 1..((p - 1) - 1 + 1) : a[i] = seq[1 + i - 1]
    BY <2>1, SubSeqProperties
  <2> HIDE DEF a
  <2> QED
    BY <2>2, <1>1
<1>3. b \in Seq(S) /\ Len(b) = n - p /\ \A i \in 1..(n - p) : b[i] = seq[p + i]
  <2>1. p + 1 \in Int /\ n \in Int /\ \A i \in (p + 1)..n : seq[i] \in S
    BY <1>1
  <2>2. /\ b \in Seq(S) /\ Len(b) = IF p + 1 <= n THEN n - (p + 1) + 1 ELSE 0
        /\ \A i \in 1..(n - (p + 1) + 1) : b[i] = seq[(p + 1) + i - 1]
    BY <2>1, SubSeqProperties
  <2> HIDE DEF b
  <2>3. Len(b) = n - p /\ n - (p + 1) + 1 = n - p
    BY <2>2, <1>1
  <2>4. \A i \in 1..(n - p) : (p + 1) + i - 1 = p + i
    BY <1>1
  <2> QED
    BY <2>2, <2>3, <2>4
<1>4. RemoveAt(seq, p) = a \o b
  BY DEF RemoveAt
<1> HIDE DEF a, b
<1>5. a \o b \in Seq(S) /\ Len(a \o b) = Len(a) + Len(b)
      /\ \A i \in 1..(Len(a) + Len(b)) : (a \o b)[i] = IF i <= Len(a) THEN a[i] ELSE b[i - Len(a)]
  BY <1>2, <1>3, ConcatProperties
<1>6. ASSUME NEW i \in 1..(n - 1)
      PROVE  (a \o b)[i] = IF i < p THEN seq[i] ELSE seq[i + 1]
  <2>1. i \in 1..(Len(a) + Len(b)) /\ (i <= Len(a) <=> i < p)
    BY <1>1, <1>2, <1>3
  <2>2. CASE i < p
    BY <2>1, <2>2, <1>1, <1>2, <1>5
  <2>3. CASE ~ (i < p)
    <3>1. i - Len(a) \in 1..(n - p) /\ p + (i - Len(a)) = i + 1
      BY <2>3, <1>1, <1>2
    <3>2. b[i - Len(a)] = seq[p + (i - Len(a))]
      BY <3>1, <1>3
    <3> QED
      BY <2>1, <2>3, <3>1, <3>2, <1>5
  <2> QED
    BY <2>2, <2>3
<1> QED
  BY <1>1, <1>2, <1>3, <1>4, <1>5, <1>6

LEMMA PlaceFound ==
  ASSUME NEW seq, NEW s \in ToSet(seq)
  PROVE  Place(seq, s) \in DOMAIN seq /\ seq[Place(seq, s)] = s
BY DEF ToSet, Place

(* Taking a member out of a list without repetitions. *)
LEMMA GoneProperties ==
  ASSUME NEW S, NEW seq \in Seq(S), Distinct(seq), NEW s
  PROVE  /\ Gone(seq, s) \in Seq(S) /\ Distinct(Gone(seq, s))
         /\ ToSet(Gone(seq, s)) \subseteq ToSet(seq) \ {s}
<1>1. CASE s \notin ToSet(seq)
  BY <1>1 DEF Gone
<1>2. CASE s \in ToSet(seq)
  <2> DEFINE p == Place(seq, s)
             less == RemoveAt(seq, p)
             n == Len(seq)
  <2>1. n \in Nat /\ DOMAIN seq = 1..n /\ p \in 1..n /\ seq[p] = s
    BY <1>2, PlaceFound
  <2> HIDE DEF p
  <2>2. /\ less \in Seq(S) /\ Len(less) = n - 1
        /\ \A i \in 1..(n - 1) : less[i] = IF i < p THEN seq[i] ELSE seq[i + 1]
    BY <2>1, RemoveAtProperties
  <2>3. DOMAIN less = 1..(n - 1)
    BY <2>1, <2>2
  <2> HIDE DEF less
  <2>4. Distinct(less)
    <3> SUFFICES ASSUME NEW i \in 1..(n - 1), NEW j \in 1..(n - 1), less[i] = less[j]
                 PROVE  i = j
      BY <2>3 DEF Distinct
    <3>1. \A k \in 1..(n - 1) : k \in 1..n /\ k + 1 \in 1..n
      BY <2>1
    <3>2. \A k, l \in 1..n : seq[k] = seq[l] => k = l
      BY <2>1 DEF Distinct
    <3> QED
      BY <2>1, <2>2, <3>1, <3>2
  <2>5. \A i \in 1..(n - 1) : less[i] \in ToSet(seq) /\ less[i] # s
    <3>1. ASSUME NEW i \in 1..(n - 1) PROVE less[i] \in ToSet(seq) /\ less[i] # s
      <4>1. i \in 1..n /\ i + 1 \in 1..n
        BY <2>1
      <4>2. (i < p => i # p) /\ (~ (i < p) => i + 1 # p)
        BY <2>1
      <4>3. seq[i] \in ToSet(seq) /\ seq[i + 1] \in ToSet(seq)
        BY <4>1, <2>1 DEF ToSet
      <4>4. (i < p => seq[i] # s) /\ (~ (i < p) => seq[i + 1] # s)
        BY <4>1, <4>2, <2>1 DEF Distinct
      <4> QED
        BY <4>3, <4>4, <2>2
    <3> QED
      BY <3>1
  <2> QED
    BY <1>2, <2>2, <2>3, <2>4, <2>5 DEF Gone, ToSet, less, p
<1> QED
  BY <1>1, <1>2

LEMMA GoneKeepsEnd ==
  ASSUME NEW S, NEW long \in Seq(S), NEW short \in Seq(S), NEW s,
         Distinct(long), EndsWith(long, short)
  PROVE  EndsWith(Gone(long, s), Gone(short, s))
<1> DEFINE n == Len(long)
           m == Len(short)
           p == Place(long, s)
           q == Place(short, s)
<1>1. n \in Nat /\ m \in Nat /\ DOMAIN long = 1..n /\ DOMAIN short = 1..m /\ m <= n
  BY DEF EndsWith
<1>2. \A i \in 1..m : short[i] = long[(n - m) + i]
  BY <1>1 DEF EndsWith
<1>3. \A i, j \in 1..n : long[i] = long[j] => i = j
  BY <1>1 DEF Distinct
<1>4. CASE s \notin ToSet(long)
  <2>1. \A i \in 1..m : (n - m) + i \in 1..n
    BY <1>1
  <2>2. s \notin ToSet(short)
    BY <1>1, <1>2, <1>4, <2>1 DEF ToSet
  <2> QED
    BY <1>4, <2>2 DEF Gone
<1>5. CASE s \in ToSet(long)
  <2>1. p \in 1..n /\ long[p] = s
    BY <1>1, <1>5, PlaceFound
  <2>2. Gone(long, s) = RemoveAt(long, p)
    BY <1>5 DEF Gone
  <2> HIDE DEF p
  <2>3. /\ RemoveAt(long, p) \in Seq(S) /\ Len(RemoveAt(long, p)) = n - 1
        /\ \A i \in 1..(n - 1) : RemoveAt(long, p)[i] = IF i < p THEN long[i] ELSE long[i + 1]
    BY <2>1, RemoveAtProperties
  <2>4. CASE s \notin ToSet(short)
    <3>1. p <= n - m
      <4>1. SUFFICES ASSUME ~ (p <= n - m) PROVE FALSE
        OBVIOUS
      <4>2. p - (n - m) \in 1..m /\ (n - m) + (p - (n - m)) = p
        BY <4>1, <1>1, <2>1
      <4>3. short[p - (n - m)] = s
        BY <4>2, <1>2, <2>1
      <4> QED
        BY <4>2, <4>3, <2>4, <1>1 DEF ToSet
    <3>2. Gone(short, s) = short
      BY <2>4 DEF Gone
    <3>3. ASSUME NEW i \in 1..m PROVE short[i] = RemoveAt(long, p)[((n - 1) - m) + i]
      <4>1. ((n - 1) - m) + i \in 1..(n - 1) /\ ~ (((n - 1) - m) + i < p)
            /\ (((n - 1) - m) + i) + 1 = (n - m) + i
        BY <3>1, <1>1, <2>1
      <4> QED
        BY <4>1, <1>2, <2>3
    <3>4. m <= n - 1
      BY <3>1, <1>1, <2>1
    <3> QED
      BY <2>2, <2>3, <3>2, <3>3, <3>4, <1>1 DEF EndsWith
  <2>5. CASE s \in ToSet(short)
    <3>1. q \in 1..m /\ short[q] = s
      BY <1>1, <2>5, PlaceFound
    <3>2. Gone(short, s) = RemoveAt(short, q)
      BY <2>5 DEF Gone
    <3> HIDE DEF q
    <3>3. p = (n - m) + q
      <4>1. (n - m) + q \in 1..n /\ long[(n - m) + q] = s
        BY <3>1, <1>1, <1>2
      <4> QED
        BY <4>1, <2>1, <1>3
    <3>4. /\ RemoveAt(short, q) \in Seq(S) /\ Len(RemoveAt(short, q)) = m - 1
          /\ \A i \in 1..(m - 1) : RemoveAt(short, q)[i] = IF i < q THEN short[i] ELSE short[i + 1]
      BY <3>1, RemoveAtProperties
    <3>5. ASSUME NEW i \in 1..(m - 1)
          PROVE  RemoveAt(short, q)[i] = RemoveAt(long, p)[((n - 1) - (m - 1)) + i]
      <4>1. /\ ((n - 1) - (m - 1)) + i \in 1..(n - 1) /\ ((n - 1) - (m - 1)) + i = (n - m) + i
            /\ ((n - m) + i < p <=> i < q) /\ i \in 1..m /\ i + 1 \in 1..m
            /\ ((n - m) + i) + 1 = (n - m) + (i + 1)
        BY <3>1, <3>3, <1>1
      <4>2. short[i] = long[(n - m) + i] /\ short[i + 1] = long[(n - m) + (i + 1)]
        BY <4>1, <1>2
      <4>3. RemoveAt(long, p)[(n - m) + i] =
              IF (n - m) + i < p THEN long[(n - m) + i] ELSE long[((n - m) + i) + 1]
        BY <4>1, <2>3
      <4>4. RemoveAt(short, q)[i] = IF i < q THEN short[i] ELSE short[i + 1]
        BY <3>4
      <4> QED
        BY <4>1, <4>2, <4>3, <4>4
    <3>6. m - 1 <= n - 1 /\ DOMAIN RemoveAt(short, q) = 1..(m - 1)
      BY <3>1, <3>4, <1>1
    <3> QED
      BY <2>2, <2>3, <3>2, <3>4, <3>5, <3>6 DEF EndsWith
  <2> QED
    BY <2>4, <2>5
<1> QED
  BY <1>4, <1>5

LEMMA AppendKeepsEnd ==
  ASSUME NEW S, NEW long \in Seq(S), NEW short \in Seq(S), NEW s \in S, EndsWith(long, short)
  PROVE  EndsWith(Append(long, s), Append(short, s))
<1> DEFINE n == Len(long)
           m == Len(short)
<1>1. n \in Nat /\ m \in Nat /\ m <= n /\ DOMAIN short = 1..m
  BY DEF EndsWith
<1>2. \A i \in 1..m : short[i] = long[(n - m) + i]
  BY <1>1 DEF EndsWith
<1>3. /\ Len(Append(long, s)) = n + 1 /\ Append(long, s)[n + 1] = s
      /\ \A i \in 1..n : Append(long, s)[i] = long[i]
  BY <1>1
<1>4. /\ Len(Append(short, s)) = m + 1 /\ Append(short, s)[m + 1] = s
      /\ \A i \in 1..m : Append(short, s)[i] = short[i]
      /\ DOMAIN Append(short, s) = 1..(m + 1)
  BY <1>1
<1>5. ASSUME NEW i \in 1..(m + 1)
      PROVE  Append(short, s)[i] = Append(long, s)[((n + 1) - (m + 1)) + i]
  <2>1. CASE i = m + 1
    <3>1. ((n + 1) - (m + 1)) + i = n + 1
      BY <2>1, <1>1
    <3> QED
      BY <2>1, <3>1, <1>3, <1>4
  <2>2. CASE i # m + 1
    <3>1. i \in 1..m /\ ((n + 1) - (m + 1)) + i = (n - m) + i /\ (n - m) + i \in 1..n
      BY <2>2, <1>1
    <3> QED
      BY <3>1, <1>2, <1>3, <1>4
  <2> QED
    BY <2>1, <2>2
<1>6. m + 1 <= n + 1
  BY <1>1
<1> HIDE DEF n, m
<1> QED
  BY <1>3, <1>4, <1>5, <1>6 DEF EndsWith

LEMMA TailKeepsEnd ==
  ASSUME NEW S, NEW long \in Seq(S), NEW short \in Seq(S), EndsWith(long, short), short # << >>
  PROVE  Tail(short) \in Seq(S) /\ EndsWith(long, Tail(short))
<1> DEFINE n == Len(long)
           m == Len(short)
<1>1. n \in Nat /\ m \in Nat \ {0} /\ m <= n
  BY DEF EndsWith
<1>2. \A i \in 1..m : short[i] = long[(n - m) + i]
  BY <1>1 DEF EndsWith
<1>3. /\ Tail(short) \in Seq(S) /\ Len(Tail(short)) = m - 1 /\ DOMAIN Tail(short) = 1..(m - 1)
      /\ \A i \in 1..(m - 1) : Tail(short)[i] = short[i + 1]
  BY <1>1
<1>4. ASSUME NEW i \in 1..(m - 1) PROVE Tail(short)[i] = long[(n - (m - 1)) + i]
  <2>1. i + 1 \in 1..m /\ (n - m) + (i + 1) = (n - (m - 1)) + i
    BY <1>1
  <2> QED
    BY <2>1, <1>2, <1>3
<1> QED
  BY <1>1, <1>3, <1>4 DEF EndsWith

LEMMA LatestProperties ==
  ASSUME NEW S, NEW seq \in Seq(S), NEW s \in S, Distinct(seq)
  PROVE  Latest(seq, s) \in Seq(S) /\ Distinct(Latest(seq, s))
<1> DEFINE rest == Gone(seq, s)
           n == Len(rest)
<1>1. rest \in Seq(S) /\ Distinct(rest) /\ s \notin ToSet(rest)
  BY GoneProperties
<1>2. Latest(seq, s) = Append(rest, s)
  BY DEF Latest
<1> HIDE DEF rest
<1>3. /\ Append(rest, s) \in Seq(S) /\ DOMAIN Append(rest, s) = 1..(n + 1) /\ n \in Nat
      /\ Append(rest, s)[n + 1] = s /\ \A i \in 1..n : Append(rest, s)[i] = rest[i]
      /\ DOMAIN rest = 1..n
  BY <1>1
<1>4. \A i \in 1..n : rest[i] # s
  BY <1>1, <1>3 DEF ToSet
<1>5. \A i \in 1..(n + 1) : i \in 1..n \/ i = n + 1
  BY <1>3
<1>6. \A i, j \in 1..n : rest[i] = rest[j] => i = j
  BY <1>1, <1>3 DEF Distinct
<1>7. \A i, j \in 1..(n + 1) : Append(rest, s)[i] = Append(rest, s)[j] => i = j
  BY <1>3, <1>4, <1>5, <1>6
<1> QED
  BY <1>2, <1>3, <1>7 DEF Distinct

(* Whoever is in the whole list and not in its end comes before its end. *)
LEMMA EndComesLast ==
  ASSUME NEW S, NEW long \in Seq(S), NEW short \in Seq(S), Distinct(long), EndsWith(long, short),
         NEW s \in ToSet(long), s \notin ToSet(short), NEW o \in ToSet(short)
  PROVE  Place(long, s) < Place(long, o)
<1> DEFINE n == Len(long)
           m == Len(short)
<1>1. n \in Nat /\ m \in Nat /\ m <= n /\ DOMAIN long = 1..n /\ DOMAIN short = 1..m
  BY DEF EndsWith
<1>2. \A i \in 1..m : short[i] = long[(n - m) + i] /\ (n - m) + i \in 1..n
  BY <1>1 DEF EndsWith
<1>3. PICK i \in 1..m : o = short[i]
  BY <1>1 DEF ToSet
<1>4. o \in ToSet(long)
  BY <1>1, <1>2, <1>3 DEF ToSet
<1>5. Place(long, s) \in 1..n /\ long[Place(long, s)] = s
      /\ Place(long, o) \in 1..n /\ long[Place(long, o)] = o
  BY <1>1, <1>4, PlaceFound
<1>6. Place(long, o) = (n - m) + i
  BY <1>1, <1>2, <1>3, <1>5 DEF Distinct
<1>7. Place(long, s) <= n - m
  <2>1. SUFFICES ASSUME ~ (Place(long, s) <= n - m) PROVE FALSE
    OBVIOUS
  <2>2. Place(long, s) - (n - m) \in 1..m
        /\ (n - m) + (Place(long, s) - (n - m)) = Place(long, s)
    BY <2>1, <1>1, <1>5
  <2>3. short[Place(long, s) - (n - m)] = s
    BY <2>2, <1>2, <1>5
  <2> QED
    BY <2>2, <2>3, <1>1 DEF ToSet
<1> QED
  BY <1>1, <1>3, <1>5, <1>6, <1>7

LEMMA EndIsDistinct ==
  ASSUME NEW S, NEW long \in Seq(S), NEW short \in Seq(S), Distinct(long), EndsWith(long, short)
  PROVE  Distinct(short)
<1> DEFINE n == Len(long)
           m == Len(short)
<1>1. n \in Nat /\ m \in Nat /\ m <= n /\ DOMAIN long = 1..n /\ DOMAIN short = 1..m
  BY DEF EndsWith
<1>2. \A i \in 1..m : short[i] = long[(n - m) + i] /\ (n - m) + i \in 1..n
  BY <1>1 DEF EndsWith
<1>3. \A i, j \in 1..m : short[i] = short[j] => (n - m) + i = (n - m) + j
  BY <1>1, <1>2 DEF Distinct
<1>4. \A i, j \in 1..m : short[i] = short[j] => i = j
  BY <1>1, <1>3
<1> QED
  BY <1>1, <1>4 DEF Distinct

(* A bounded table of the sessions of a history. *)
Tracks(history, table) ==
  /\ history \in Seq(HookSessions) /\ table \in Seq(HookSessions)
  /\ Distinct(history) /\ EndsWith(history, table)

LEMMA EmptyTracks == Tracks(<< >>, << >>)
BY DEF Tracks, Distinct, EndsWith

LEMMA GoneTracks ==
  ASSUME NEW history, NEW table, Tracks(history, table), NEW s
  PROVE  Tracks(Gone(history, s), Gone(table, s))
<1>1. Distinct(table)
  BY EndIsDistinct DEF Tracks
<1> QED
  BY <1>1, GoneProperties, GoneKeepsEnd DEF Tracks

LEMMA TailTracks ==
  ASSUME NEW history, NEW table, Tracks(history, table), table # << >>
  PROVE  Tracks(history, Tail(table))
BY TailKeepsEnd DEF Tracks

LEMMA LatestTracks ==
  ASSUME NEW history, NEW table, Tracks(history, table), NEW s \in HookSessions
  PROVE  Tracks(Latest(history, s), Latest(table, s))
<1>1. Tracks(Gone(history, s), Gone(table, s))
  BY GoneTracks
<1>2. EndsWith(Latest(history, s), Latest(table, s))
  BY <1>1, AppendKeepsEnd DEF Tracks, Latest
<1>3. Distinct(table)
  BY EndIsDistinct DEF Tracks
<1> QED
  BY <1>2, <1>3, LatestProperties DEF Tracks

(* What the agent guard does with its table, and the engine with its own. *)
LEMMA DropFirstTracks ==
  ASSUME NEW history, NEW table, Tracks(history, table)
  PROVE  Tracks(history, DropFirst(table, MaxRemembered))
<1>1. CASE Len(table) > MaxRemembered
  <2>1. table # << >>
    BY <1>1, ExclusionAssumption
  <2> QED
    BY <1>1, <2>1, TailTracks DEF DropFirst
<1>2. CASE ~ (Len(table) > MaxRemembered)
  BY <1>2 DEF DropFirst
<1> QED
  BY <1>1, <1>2

LEMMA MarkedTracks ==
  ASSUME Tracks(turns, marked), NEW s \in HookSessions
  PROVE  Tracks(Latest(turns, s), Marked(s))
<1> DEFINE others == Gone(marked, s)
           room == IF Len(others) >= MaxRemembered THEN Tail(others) ELSE others
<1>1. Tracks(Gone(turns, s), others)
  BY GoneTracks
<1>2. Tracks(Gone(turns, s), room)
  <2>1. CASE Len(others) >= MaxRemembered
    <3>1. others # << >>
      BY <2>1, ExclusionAssumption
    <3> QED
      BY <1>1, <2>1, <3>1, TailTracks
  <2>2. CASE ~ (Len(others) >= MaxRemembered)
    BY <1>1, <2>2
  <2> QED
    BY <2>1, <2>2
<1>3. Marked(s) = Append(room, s)
  BY DEF Marked
<1> HIDE DEF others, room
<1>4. room \in Seq(HookSessions) /\ Gone(turns, s) \in Seq(HookSessions)
      /\ EndsWith(Gone(turns, s), room)
  BY <1>2 DEF Tracks
<1>5. EndsWith(Latest(turns, s), Append(room, s)) /\ Append(room, s) \in Seq(HookSessions)
  BY <1>4, AppendKeepsEnd DEF Latest
<1>6. Latest(turns, s) \in Seq(HookSessions) /\ Distinct(Latest(turns, s))
  BY LatestProperties DEF Tracks
<1> QED
  BY <1>3, <1>5, <1>6 DEF Tracks

-----------------------------------------------------------------------------

(* What the exclusion's tables always are. *)
ActivityInv == Tracks(activity, agentSessions) /\ Tracks(turns, marked)

LEMMA ActivityInit == ExclusionInit => ActivityInv
BY EmptyTracks DEF ExclusionInit, ActivityInv

LEMMA ActivityStep == ActivityInv /\ [ExclusionNext]_exclusionVars => ActivityInv'
<1> SUFFICES ASSUME ActivityInv, [ExclusionNext]_exclusionVars PROVE ActivityInv'
  OBVIOUS
<1>1. Tracks(activity, agentSessions) /\ Tracks(turns, marked)
  BY DEF ActivityInv
<1>2. ASSUME NEW s \in HookSessions, NEW key \in SessionKeys, HookAsks(s, key)
      PROVE  ActivityInv'
  <2>1. CASE AgentExcluded(s, key)
    <3>1. Tracks(Latest(activity, s), DropFirst(Latest(agentSessions, s), MaxRemembered))
      BY <1>1, LatestTracks, DropFirstTracks
    <3>2. /\ agentSessions' = DropFirst(Latest(agentSessions, s), MaxRemembered)
          /\ activity' = Latest(activity, s) /\ turns' = turns /\ marked' = marked
      BY <1>2, <2>1 DEF HookAsks, AgentRemembered
    <3> QED
      BY <1>1, <3>1, <3>2 DEF ActivityInv
  <2>2. CASE ~ AgentExcluded(s, key)
    <3>1. Tracks(Gone(activity, s), Gone(agentSessions, s))
      BY <1>1, GoneTracks
    <3>2. /\ agentSessions' = Gone(agentSessions, s)
          /\ activity' = Gone(activity, s) /\ turns' = turns /\ marked' = marked
      BY <1>2, <2>2 DEF HookAsks, AgentRemembered
    <3> QED
      BY <1>1, <3>1, <3>2 DEF ActivityInv
  <2> QED
    BY <2>1, <2>2
<1>3. ASSUME NEW s \in HookSessions, SessionForgotten(s) PROVE ActivityInv'
  BY <1>1, <1>3, GoneTracks DEF SessionForgotten, ActivityInv
<1>4. ASSUME NEW s \in HookSessions, NEW key \in SessionKeys, EngineTurn(s, key)
      PROVE  ActivityInv'
  BY <1>1, <1>4, MarkedTracks DEF EngineTurn, ActivityInv, guardVars
<1>5. ASSUME NEW s \in HookSessions, NEW key \in SessionKeys, EngineBootstraps(s, key)
      PROVE  ActivityInv'
  BY <1>1, <1>5, MarkedTracks, GoneTracks DEF EngineBootstraps, ActivityInv, guardVars
<1>6. CASE EngineDisposed
  BY <1>1, <1>6, EmptyTracks DEF EngineDisposed, ActivityInv, guardVars
<1>7. CASE ExclusionShutdown
  BY <1>1, <1>7, EmptyTracks DEF ExclusionShutdown, ActivityInv
<1>8. ASSUME NEW k \in Children, Spawn(k) \/ ChildGone(k) \/ Expand(k) PROVE ActivityInv'
  BY <1>1, <1>8 DEF Spawn, ChildGone, Expand, ActivityInv, guardVars
<1>9. CASE BudgetTime
  BY <1>1, <1>9 DEF BudgetTime, ActivityInv, guardVars
<1>10. CASE UNCHANGED exclusionVars
  BY <1>1, <1>10 DEF exclusionVars, ActivityInv, guardVars
<1> QED
  BY <1>2, <1>3, <1>4, <1>5, <1>6, <1>7, <1>8, <1>9, <1>10 DEF ExclusionNext

LEMMA TrackingDrops ==
  ASSUME NEW before, NEW after, NEW order, Tracks(order, after)
  PROVE  DropsLeastActive(before, after, order)
BY EndComesLast DEF Tracks, DropsLeastActive

(* LeastActiveDropped of SessionExclusion, for any sessions and any size   *)
(* of the tables: a table that is full gives up the session that has been  *)
(* quiet the longest (createAgentExclusionGuard and markExcludedSession).  *)
THEOREM OnlyTheQuietAreDropped == ExclusionSpec => LeastActiveDropped
<1>1. ActivityInv /\ [ExclusionNext]_exclusionVars
      => [ /\ DropsLeastActive(agentSessions, agentSessions', activity')
           /\ DropsLeastActive(marked, marked', turns') ]_exclusionVars
  <2> SUFFICES ASSUME ActivityInv, [ExclusionNext]_exclusionVars
               PROVE  /\ DropsLeastActive(agentSessions, agentSessions', activity')
                      /\ DropsLeastActive(marked, marked', turns')
    OBVIOUS
  <2>1. Tracks(activity', agentSessions') /\ Tracks(turns', marked')
    <3>1. ActivityInv'
      BY ActivityStep
    <3> QED
      BY <3>1 DEF ActivityInv, Tracks
  <2> QED
    BY <2>1, TrackingDrops
<1> QED
  BY ActivityInit, ActivityStep, <1>1, PTL DEF ExclusionSpec, LeastActiveDropped

-----------------------------------------------------------------------------
(***************************************************************************)
(* What a table says of a session is what the session's last key said.     *)
(***************************************************************************)

Entries == [session : HookSessions, child : Children]

(* Whatever is remembered of a session, names say no less of it. *)
Agree(entries, names) ==
  /\ entries \in Seq(Entries)
  /\ \A i, j \in DOMAIN entries : entries[i].session = entries[j].session => i = j
  /\ \A i \in DOMAIN entries : names[entries[i].session] \in {"excluded", entries[i].child}

ExcludedByName(sessions, names) ==
  \A i \in DOMAIN sessions : names[sessions[i]] = "excluded"

IdentityInv ==
  /\ identity \in [HookSessions -> SessionKeys]
  /\ ExcludedByName(agentSessions, identity)
  /\ Agree(childSessions, identity)
  /\ ~ excluding => childSessions = << >>
  /\ excludedChildren \subseteq Children
  /\ excluding => alive = excludedChildren
  /\ ToSet(marked) \subseteq turnedAway

LEMMA KnownFound ==
  ASSUME NEW s, Known(s) # {}
  PROVE  (CHOOSE i \in Known(s) : TRUE) \in DOMAIN childSessions
         /\ childSessions[CHOOSE i \in Known(s) : TRUE].session = s
BY DEF Known

LEMMA RestAgrees ==
  ASSUME Agree(childSessions, identity), NEW s, NEW names,
         \A o \in HookSessions \ {s} : names[o] = identity[o]
  PROVE  /\ Agree(Rest(s), names)
         /\ \A i \in DOMAIN Rest(s) : Rest(s)[i].session # s
<1>a. childSessions \in Seq(Entries)
  BY DEF Agree
<1>b. \A i \in DOMAIN childSessions : childSessions[i] \in Entries
  BY <1>a
<1>1. /\ childSessions \in Seq(Entries)
      /\ \A i \in DOMAIN childSessions : childSessions[i].session \in HookSessions
      /\ \A i, j \in DOMAIN childSessions :
           childSessions[i].session = childSessions[j].session => i = j
      /\ \A i \in DOMAIN childSessions :
           identity[childSessions[i].session] \in {"excluded", childSessions[i].child}
  BY <1>b DEF Agree, Entries
<1>2. CASE Known(s) = {}
  <2>1. \A i \in DOMAIN childSessions : childSessions[i].session # s
    BY <1>2 DEF Known
  <2>2. \A i \in DOMAIN childSessions :
          names[childSessions[i].session] = identity[childSessions[i].session]
    BY <1>1, <2>1
  <2> QED
    BY <1>1, <1>2, <2>1, <2>2 DEF Rest, Agree
<1>3. CASE Known(s) # {}
  <2> DEFINE p == CHOOSE i \in Known(s) : TRUE
             n == Len(childSessions)
             less == RemoveAt(childSessions, p)
  <2>1. n \in Nat /\ p \in 1..n /\ childSessions[p].session = s /\ DOMAIN childSessions = 1..n
    BY <1>1, <1>3, KnownFound
  <2>2. Rest(s) = less
    BY <1>3 DEF Rest
  <2> HIDE DEF p
  <2>3. /\ less \in Seq(Entries) /\ Len(less) = n - 1
        /\ \A i \in 1..(n - 1) :
             less[i] = IF i < p THEN childSessions[i] ELSE childSessions[i + 1]
    BY <1>a, <2>1, RemoveAtProperties
  <2>4. DOMAIN less = 1..(n - 1)
    BY <2>1, <2>3
  <2> HIDE DEF less
  <2> DEFINE from(i) == IF i < p THEN i ELSE i + 1
  <2>5. \A i \in 1..(n - 1) : from(i) \in 1..n /\ from(i) # p
    BY <2>1
  <2>6. \A i, j \in 1..(n - 1) : from(i) = from(j) => i = j
    BY <2>1
  <2>7. \A i \in 1..(n - 1) : less[i] = childSessions[from(i)]
    BY <2>3
  <2> HIDE DEF from
  <2>8. \A i \in 1..(n - 1) : less[i].session # s
    BY <1>1, <2>1, <2>5, <2>7
  <2>9. \A i, j \in 1..(n - 1) : less[i].session = less[j].session => i = j
    BY <1>1, <2>1, <2>5, <2>6, <2>7
  <2>10. \A i \in 1..(n - 1) : names[less[i].session] \in {"excluded", less[i].child}
    BY <1>1, <2>1, <2>5, <2>7, <2>8
  <2> QED
    BY <2>2, <2>3, <2>4, <2>8, <2>9, <2>10 DEF Agree
<1> QED
  BY <1>2, <1>3

LEMMA AppendAgrees ==
  ASSUME NEW seq, NEW names, Agree(seq, names), NEW s \in HookSessions, NEW c \in Children,
         \A i \in DOMAIN seq : seq[i].session # s, names[s] \in {"excluded", c}
  PROVE  Agree(Append(seq, [session |-> s, child |-> c]), names)
<1> DEFINE e == [session |-> s, child |-> c]
           n == Len(seq)
           more == Append(seq, e)
<1>1. e \in Entries /\ e.session = s /\ e.child = c
  BY DEF Entries
<1> HIDE DEF e
<1>2. /\ seq \in Seq(Entries) /\ n \in Nat /\ DOMAIN seq = 1..n
      /\ more \in Seq(Entries) /\ DOMAIN more = 1..(n + 1)
      /\ more[n + 1] = e /\ \A i \in 1..n : more[i] = seq[i]
  BY <1>1 DEF Agree
<1> HIDE DEF more, n
<1>3. \A i \in 1..(n + 1) : i \in 1..n \/ i = n + 1
  BY <1>2
<1>4. \A i, j \in 1..(n + 1) : more[i].session = more[j].session => i = j
  BY <1>1, <1>2, <1>3 DEF Agree
<1>5. \A i \in 1..(n + 1) : names[more[i].session] \in {"excluded", more[i].child}
  BY <1>1, <1>2, <1>3 DEF Agree
<1> QED
  BY <1>2, <1>4, <1>5 DEF Agree, more, e

LEMMA DropFirstAgrees ==
  ASSUME NEW seq, NEW names, Agree(seq, names)
  PROVE  Agree(DropFirst(seq, MaxRemembered), names)
<1>1. CASE Len(seq) > MaxRemembered
  <2> DEFINE n == Len(seq)
  <2>1. seq \in Seq(Entries) /\ seq # << >>
    BY <1>1, ExclusionAssumption DEF Agree
  <2>2. /\ n \in Nat \ {0} /\ Tail(seq) \in Seq(Entries) /\ DOMAIN seq = 1..n
        /\ DOMAIN Tail(seq) = 1..(n - 1)
        /\ \A i \in 1..(n - 1) : Tail(seq)[i] = seq[i + 1] /\ i + 1 \in 1..n
    BY <2>1
  <2> HIDE DEF n
  <2>3. \A i, j \in 1..(n - 1) : Tail(seq)[i].session = Tail(seq)[j].session => i + 1 = j + 1
    BY <2>2 DEF Agree
  <2>4. \A i, j \in 1..(n - 1) : i + 1 = j + 1 => i = j
    BY <2>2
  <2>5. \A i \in 1..(n - 1) : names[Tail(seq)[i].session] \in {"excluded", Tail(seq)[i].child}
    BY <2>2 DEF Agree
  <2>6. Agree(Tail(seq), names)
    BY <2>2, <2>3, <2>4, <2>5 DEF Agree
  <2> QED
    BY <1>1, <2>6 DEF DropFirst
<1>2. CASE ~ (Len(seq) > MaxRemembered)
  BY <1>2 DEF DropFirst
<1> QED
  BY <1>1, <1>2

(* Leaving out a session of the agent guard's table. *)
LEMMA GoneByName ==
  ASSUME NEW seq \in Seq(HookSessions), Distinct(seq), NEW s, NEW names, NEW former,
         ExcludedByName(seq, former), \A o \in HookSessions \ {s} : names[o] = former[o]
  PROVE  ExcludedByName(Gone(seq, s), names)
<1> SUFFICES ASSUME NEW i \in DOMAIN Gone(seq, s)
             PROVE  names[Gone(seq, s)[i]] = "excluded"
  BY DEF ExcludedByName
<1>1. Gone(seq, s)[i] \in ToSet(seq) /\ Gone(seq, s)[i] # s
  <2>1. ToSet(Gone(seq, s)) \subseteq ToSet(seq) \ {s}
    BY GoneProperties
  <2>2. Gone(seq, s)[i] \in ToSet(Gone(seq, s))
    BY DEF ToSet
  <2> QED
    BY <2>1, <2>2
<1>2. PICK j \in DOMAIN seq : Gone(seq, s)[i] = seq[j]
  BY <1>1 DEF ToSet
<1>3. seq[j] \in HookSessions \ {s} /\ former[seq[j]] = "excluded"
  BY <1>1, <1>2 DEF ExcludedByName
<1> QED
  BY <1>2, <1>3

LEMMA LatestByName ==
  ASSUME NEW seq \in Seq(HookSessions), Distinct(seq), NEW s \in HookSessions, NEW names, NEW former,
         ExcludedByName(seq, former), \A o \in HookSessions \ {s} : names[o] = former[o],
         names[s] = "excluded"
  PROVE  ExcludedByName(DropFirst(Latest(seq, s), MaxRemembered), names)
<1> DEFINE rest == Gone(seq, s)
<1>1. rest \in Seq(HookSessions) /\ ExcludedByName(rest, names)
  BY GoneProperties, GoneByName
<1>2. Latest(seq, s) = Append(rest, s)
  BY DEF Latest
<1> HIDE DEF rest
<1> DEFINE most == Append(rest, s)
           n == Len(rest)
<1>3. /\ n \in Nat /\ most \in Seq(HookSessions) /\ DOMAIN most = 1..(n + 1) /\ most # << >>
      /\ DOMAIN rest = 1..n /\ most[n + 1] = s /\ \A i \in 1..n : most[i] = rest[i]
  BY <1>1
<1>4. \A i \in 1..(n + 1) : i \in 1..n \/ i = n + 1
  BY <1>3
<1>5. ExcludedByName(most, names)
  BY <1>1, <1>3, <1>4 DEF ExcludedByName
<1>6. /\ DOMAIN Tail(most) = 1..n
      /\ \A i \in 1..n : Tail(most)[i] = most[i + 1] /\ i + 1 \in 1..(n + 1)
  BY <1>3
<1>7. ExcludedByName(Tail(most), names)
  BY <1>3, <1>5, <1>6 DEF ExcludedByName
<1> QED
  BY <1>2, <1>5, <1>7 DEF DropFirst

(* Marking a session adds it to the marked, and no other. *)
LEMMA MarkedAdds ==
  ASSUME marked \in Seq(HookSessions), Distinct(marked), NEW s \in HookSessions
  PROVE  ToSet(Marked(s)) \subseteq ToSet(marked) \cup {s}
<1> DEFINE others == Gone(marked, s)
<1>1. others \in Seq(HookSessions) /\ ToSet(others) \subseteq ToSet(marked)
  BY GoneProperties
<1>2. Marked(s) = Append(IF Len(others) >= MaxRemembered THEN Tail(others) ELSE others, s)
  BY DEF Marked
<1> HIDE DEF others
<1>3. ASSUME NEW seq \in Seq(HookSessions), ToSet(seq) \subseteq ToSet(marked)
      PROVE  ToSet(Append(seq, s)) \subseteq ToSet(marked) \cup {s}
  <2> DEFINE n == Len(seq)
             more == Append(seq, s)
  <2>1. /\ n \in Nat /\ DOMAIN seq = 1..n /\ DOMAIN more = 1..(n + 1)
        /\ more[n + 1] = s /\ \A i \in 1..n : more[i] = seq[i]
    OBVIOUS
  <2>2. \A i \in 1..(n + 1) : i \in 1..n \/ i = n + 1
    BY <2>1
  <2>3. \A i \in 1..n : seq[i] \in ToSet(marked)
    BY <1>3, <2>1 DEF ToSet
  <2> HIDE DEF n, more
  <2>4. \A i \in 1..(n + 1) : more[i] \in ToSet(marked) \cup {s}
    BY <2>1, <2>2, <2>3
  <2> QED
    BY <2>1, <2>4 DEF ToSet, more
<1>4. CASE Len(others) >= MaxRemembered
  <2>1. others # << >> /\ others \in Seq(HookSessions)
    BY <1>1, <1>4, ExclusionAssumption
  <2> DEFINE n == Len(others)
  <2>2. /\ n \in Nat \ {0} /\ DOMAIN others = 1..n /\ Tail(others) \in Seq(HookSessions)
        /\ DOMAIN Tail(others) = 1..(n - 1)
        /\ \A i \in 1..(n - 1) : Tail(others)[i] = others[i + 1] /\ i + 1 \in 1..n
    BY <2>1
  <2>3. ToSet(Tail(others)) \subseteq ToSet(others)
    BY <2>2 DEF ToSet
  <2> QED
    BY <1>1, <1>2, <1>3, <1>4, <2>2, <2>3
<1>5. CASE ~ (Len(others) >= MaxRemembered)
  BY <1>1, <1>2, <1>3, <1>5
<1> QED
  BY <1>4, <1>5

(* What the engine marks it turned away by key, then or before. *)
LEMMA MarkedAreTurnedAway ==
  ASSUME ActivityInv, ToSet(marked) \subseteq turnedAway,
         NEW s \in HookSessions, NEW key \in SessionKeys,
         EngineTurn(s, key) \/ EngineBootstraps(s, key)
  PROVE  ToSet(marked') \subseteq turnedAway'
<1>1. marked \in Seq(HookSessions) /\ Distinct(marked)
  BY EndIsDistinct DEF ActivityInv, Tracks
<1>2. CASE EngineExcludes(s, key)
  <2>1. marked' = Marked(s) /\ turnedAway' = TurnedAway(s, key)
    BY <1>2 DEF EngineTurn, EngineBootstraps
  <2>2. s \in TurnedAway(s, key)
    BY <1>2 DEF TurnedAway, EngineExcludes
  <2>3. turnedAway \subseteq TurnedAway(s, key)
    BY DEF TurnedAway
  <2> QED
    BY <1>1, <2>1, <2>2, <2>3, MarkedAdds
<1>3. CASE ~ EngineExcludes(s, key) /\ EngineTurn(s, key)
  BY <1>3 DEF EngineTurn, TurnedAway
<1>4. CASE ~ EngineExcludes(s, key) /\ EngineBootstraps(s, key)
  <2>1. marked' = Gone(marked, s) /\ turnedAway' = turnedAway \ {s}
    BY <1>4 DEF EngineBootstraps
  <2>2. ToSet(Gone(marked, s)) \subseteq ToSet(marked) \ {s}
    BY <1>1, GoneProperties
  <2> QED
    BY <2>1, <2>2
<1> QED
  BY <1>2, <1>3, <1>4

LEMMA KeysOfChildren ==
  /\ NoKey \notin Children /\ "excluded" \notin Children /\ "allowed" \notin Children
  /\ NoKey # "excluded" /\ NoKey # "allowed"
BY ExclusionAssumption

LEMMA IdentityInit == ExclusionInit => IdentityInv
<1> SUFFICES ASSUME ExclusionInit PROVE IdentityInv
  OBVIOUS
<1>1. identity \in [HookSessions -> SessionKeys]
  BY DEF ExclusionInit, SessionKeys
<1>2. ExcludedByName(agentSessions, identity) /\ Agree(childSessions, identity)
  BY DEF ExclusionInit, ExcludedByName, Agree
<1>3. ToSet(marked) \subseteq turnedAway
  BY DEF ExclusionInit, ToSet
<1> QED
  BY <1>1, <1>2, <1>3 DEF ExclusionInit, IdentityInv

LEMMA HookKeepsIdentity ==
  ASSUME ActivityInv, IdentityInv, NEW s \in HookSessions, NEW key \in SessionKeys,
         HookAsks(s, key)
  PROVE  IdentityInv'
<1> DEFINE names == identity'
<1>1. /\ identity \in [HookSessions -> SessionKeys] /\ ExcludedByName(agentSessions, identity)
      /\ Agree(childSessions, identity) /\ (~ excluding => childSessions = << >>)
      /\ excludedChildren \subseteq Children /\ (excluding => alive = excludedChildren)
  BY DEF IdentityInv
<1>2. agentSessions \in Seq(HookSessions) /\ Distinct(agentSessions)
  BY EndIsDistinct DEF ActivityInv, Tracks
<1>3. /\ names \in [HookSessions -> SessionKeys]
      /\ names[s] = IF key = NoKey THEN identity[s] ELSE IF key = "allowed" THEN NoKey ELSE key
      /\ \A o \in HookSessions \ {s} : names[o] = identity[o]
  BY <1>1 DEF HookAsks, SessionKeys
<1>4. excluding' = excluding /\ excludedChildren' = excludedChildren /\ alive' = alive
  BY DEF HookAsks
<1> HIDE DEF names
<1>5. ExcludedByName(agentSessions', names)
  <2>1. CASE AgentExcluded(s, key)
    <3>1. names[s] = "excluded"
      <4>1. CASE key = NoKey
        <5>1. PICK i \in DOMAIN agentSessions : agentSessions[i] = s
          BY <2>1, <4>1 DEF AgentExcluded, ToSet
        <5> QED
          BY <4>1, <5>1, <1>1, <1>3 DEF ExcludedByName
      <4>2. CASE key # NoKey
        BY <2>1, <4>2, <1>3 DEF AgentExcluded
      <4> QED
        BY <4>1, <4>2
    <3>2. ExcludedByName(DropFirst(Latest(agentSessions, s), MaxRemembered), names)
      BY <3>1, <1>1, <1>2, <1>3, LatestByName
    <3> QED
      BY <2>1, <3>2 DEF HookAsks, AgentRemembered
  <2>2. CASE ~ AgentExcluded(s, key)
    <3>1. ExcludedByName(Gone(agentSessions, s), names)
      BY <1>1, <1>2, <1>3, GoneByName
    <3> QED
      BY <2>2, <3>1 DEF HookAsks, AgentRemembered
  <2> QED
    BY <2>1, <2>2
<1>6. Agree(childSessions', names)
  <2>1. CASE AgentExcluded(s, key)
    <3>1. childSessions' = childSessions
      BY <2>1 DEF HookAsks
    <3>2. key = NoKey \/ key = "excluded"
      BY <2>1 DEF AgentExcluded
    <3>3. names[s] = identity[s] \/ names[s] = "excluded"
      BY <3>2, <1>3, KeysOfChildren
    <3>4. \A i \in DOMAIN childSessions : childSessions[i].session \in HookSessions
      <4>1. \A i \in DOMAIN childSessions : childSessions[i] \in Entries
        BY <1>1 DEF Agree
      <4> QED
        BY <4>1 DEF Entries
    <3>5. \A i \in DOMAIN childSessions :
            \/ names[childSessions[i].session] = identity[childSessions[i].session]
            \/ names[childSessions[i].session] = "excluded"
      BY <3>3, <3>4, <1>3
    <3> QED
      BY <3>1, <3>5, <1>1 DEF Agree
  <2>2. CASE ~ AgentExcluded(s, key)
    <3>1. childSessions' = ChildRemembered(s, key)
      BY <2>2 DEF HookAsks
    <3>2. CASE ~ excluding
      <4>1. childSessions' = << >>
        BY <3>1, <3>2, <1>1 DEF ChildRemembered
      <4> QED
        BY <4>1 DEF Agree
    <3>3. Agree(Rest(s), names) /\ \A i \in DOMAIN Rest(s) : Rest(s)[i].session # s
      BY <1>1, <1>3, RestAgrees
    <3>4. CASE excluding /\ ~ ChildExcluded(s, key)
      BY <3>1, <3>3, <3>4 DEF ChildRemembered
    <3>5. CASE excluding /\ ChildExcluded(s, key)
      <4> DEFINE c == ChildOf(s, key)
      <4>1. c \in Children
        BY <3>5, <1>1 DEF ChildExcluded
      <4>2. names[s] \in {"excluded", c}
        <5>1. CASE key = NoKey
          <6>1. c = KnownChild(s) /\ Known(s) # {}
            BY <5>1, <4>1, KeysOfChildren DEF ChildOf, KnownChild
          <6>2. PICK i \in DOMAIN childSessions :
                  childSessions[i].session = s /\ childSessions[i].child = c
            BY <6>1, KnownFound DEF KnownChild
          <6>3. identity[s] \in {"excluded", c}
            BY <6>2, <1>1 DEF Agree
          <6> QED
            BY <5>1, <6>3, <1>3
        <5>2. CASE key # NoKey
          <6>1. c = key
            BY <5>2 DEF ChildOf
          <6> QED
            BY <5>2, <6>1, <4>1, <1>3, KeysOfChildren
        <5> QED
          BY <5>1, <5>2
      <4> HIDE DEF c
      <4>3. Agree(Append(Rest(s), [session |-> s, child |-> c]), names)
        BY <4>1, <4>2, <3>3, AppendAgrees
      <4>4. Agree(DropFirst(Append(Rest(s), [session |-> s, child |-> c]), MaxRemembered), names)
        BY <4>3, DropFirstAgrees
      <4> QED
        BY <4>4, <3>1, <3>5 DEF ChildRemembered, c
    <3> QED
      BY <3>2, <3>4, <3>5
  <2> QED
    BY <2>1, <2>2
<1>7. ~ excluding => childSessions' = << >>
  BY <1>1 DEF HookAsks, ChildRemembered
<1>8. ToSet(marked') \subseteq turnedAway'
  BY DEF HookAsks, IdentityInv
<1> QED
  BY <1>1, <1>3, <1>4, <1>5, <1>6, <1>7, <1>8 DEF IdentityInv, names

LEMMA ForgettingKeepsIdentity ==
  ASSUME ActivityInv, IdentityInv, NEW s \in HookSessions, SessionForgotten(s)
  PROVE  IdentityInv'
<1>1. /\ identity \in [HookSessions -> SessionKeys] /\ ExcludedByName(agentSessions, identity)
      /\ Agree(childSessions, identity) /\ (~ excluding => childSessions = << >>)
      /\ excludedChildren \subseteq Children /\ (excluding => alive = excludedChildren)
  BY DEF IdentityInv
<1>2. agentSessions \in Seq(HookSessions) /\ Distinct(agentSessions)
  BY EndIsDistinct DEF ActivityInv, Tracks
<1>3. identity' \in [HookSessions -> SessionKeys]
      /\ \A o \in HookSessions \ {s} : identity'[o] = identity[o]
  BY <1>1 DEF SessionForgotten, SessionKeys
<1>4. ExcludedByName(Gone(agentSessions, s), identity')
  BY <1>1, <1>2, <1>3, GoneByName
<1>5. Agree(Rest(s), identity')
  BY <1>1, <1>3, RestAgrees
<1>6. ~ excluding => Rest(s) = << >>
  BY <1>1 DEF Rest, Known
<1>7. ToSet(marked') \subseteq turnedAway'
  BY DEF SessionForgotten, IdentityInv
<1> QED
  BY <1>1, <1>3, <1>4, <1>5, <1>6, <1>7 DEF SessionForgotten, IdentityInv

LEMMA IdentityStep ==
  ActivityInv /\ IdentityInv /\ [ExclusionNext]_exclusionVars => IdentityInv'
<1> SUFFICES ASSUME ActivityInv, IdentityInv, [ExclusionNext]_exclusionVars PROVE IdentityInv'
  OBVIOUS
<1>1. ASSUME NEW s \in HookSessions, NEW key \in SessionKeys, HookAsks(s, key)
      PROVE  IdentityInv'
  BY <1>1, HookKeepsIdentity
<1>2. ASSUME NEW s \in HookSessions, SessionForgotten(s) PROVE IdentityInv'
  BY <1>2, ForgettingKeepsIdentity
<1>3. ASSUME NEW s \in HookSessions, NEW key \in SessionKeys,
             EngineTurn(s, key) \/ EngineBootstraps(s, key)
      PROVE  IdentityInv'
  <2>1. ToSet(marked') \subseteq turnedAway'
    BY <1>3, MarkedAreTurnedAway DEF IdentityInv
  <2>2. UNCHANGED <<excluding, guardVars, excludedChildren, alive, identity>>
    BY <1>3 DEF EngineTurn, EngineBootstraps
  <2> QED
    BY <2>1, <2>2 DEF IdentityInv, guardVars
<1>4. CASE EngineDisposed \/ BudgetTime
  <2>1. ToSet(<< >>) = {}
    BY DEF ToSet
  <2> QED
    BY <1>4, <2>1 DEF EngineDisposed, BudgetTime, IdentityInv, guardVars
<1>5. ASSUME NEW k \in Children, Spawn(k) PROVE IdentityInv'
  BY <1>5 DEF Spawn, IdentityInv, guardVars
<1>6. ASSUME NEW k \in Children, ChildGone(k) PROVE IdentityInv'
  BY <1>6 DEF ChildGone, IdentityInv, guardVars
<1>7. ASSUME NEW k \in Children, Expand(k) PROVE IdentityInv'
  BY <1>7 DEF Expand, IdentityInv, guardVars
<1>8. CASE ExclusionShutdown
  <2>1. identity' \in [HookSessions -> SessionKeys]
    BY <1>8 DEF ExclusionShutdown, SessionKeys
  <2>2. ExcludedByName(agentSessions', identity') /\ Agree(childSessions', identity')
    BY <1>8 DEF ExclusionShutdown, ExcludedByName, Agree
  <2> QED
    BY <1>8, <2>1, <2>2 DEF ExclusionShutdown, IdentityInv
<1>9. CASE UNCHANGED exclusionVars
  BY <1>9 DEF exclusionVars, IdentityInv, guardVars
<1> QED
  BY <1>1, <1>2, <1>3, <1>4, <1>5, <1>6, <1>7, <1>8, <1>9 DEF ExclusionNext

(* ExclusionFollowsIdentity of SessionExclusion, for any sessions and      *)
(* children.  The guards keep a session out only on the strength of the    *)
(* key it last came with, the engine's own set only on that of a key it    *)
(* refused since a bootstrap last let the session in, and a child is kept  *)
(* out from its spawn to its end.                                          *)
THEOREM OnlyTheExcludedAreKeptOut == ExclusionSpec => []ExclusionFollowsIdentity
<1>1. ActivityInv /\ IdentityInv => ExclusionFollowsIdentity
  <2> SUFFICES ASSUME ActivityInv, IdentityInv PROVE ExclusionFollowsIdentity
    OBVIOUS
  <2>1. ASSUME NEW s \in HookSessions, AgentExcluded(s, NoKey) PROVE identity[s] = "excluded"
    <3>1. PICK i \in DOMAIN agentSessions : agentSessions[i] = s
      BY <2>1 DEF AgentExcluded, ToSet
    <3> QED
      BY <3>1 DEF IdentityInv, ExcludedByName
  <2>2. ASSUME NEW s \in HookSessions, ChildExcluded(s, NoKey)
        PROVE  identity[s] = "excluded" \/ identity[s] \in alive
    <3>1. excluding /\ KnownChild(s) \in excludedChildren /\ Known(s) # {}
      BY <2>2, KeysOfChildren DEF ChildExcluded, ChildOf, KnownChild, IdentityInv
    <3>2. PICK i \in DOMAIN childSessions :
            childSessions[i].session = s /\ childSessions[i].child = KnownChild(s)
      BY <3>1, KnownFound DEF KnownChild
    <3>3. identity[s] \in {"excluded", KnownChild(s)}
      BY <3>2 DEF IdentityInv, Agree
    <3> QED
      BY <3>1, <3>3 DEF IdentityInv
  <2>3. ASSUME NEW s \in HookSessions, EngineExcludes(s, NoKey) PROVE s \in turnedAway
    BY <2>3 DEF EngineExcludes, IdentityInv
  <2> QED
    BY <2>1, <2>2, <2>3 DEF ExclusionFollowsIdentity, IdentityInv
<1> QED
  BY ActivityInit, ActivityStep, IdentityInit, IdentityStep, <1>1, PTL DEF ExclusionSpec

-----------------------------------------------------------------------------
(***************************************************************************)
(* MemoryTools, for any tenants, records, edges and queries.               *)
(*                                                                         *)
(* First what a search is at each of its steps: whatever it was asked and  *)
(* has found is of its scope's tenants, and of what a search may search.   *)
(***************************************************************************)

Searched(s) ==
  {<<"session", s.session>>, <<"user", NoSession>>, <<"global", NoSession>>, <<"dream", NoSession>>}
RequestsTo(s) == [tenant : Access(s), collections : SUBSET Searched(s)]
FoundIn(s) ==
  {Stamped(r.tenant, r) : r \in {r \in Records : r.tenant \in Access(s) /\ r.collection \in Searched(s)}}

Waiting(s) == [at : {"manager"}, scope : {s}, query : SearchQueries]
Asking(s) ==
  [at : {"asking"}, scope : {s}, query : SearchQueries, todo : Seq(RequestsTo(s)),
   found : SUBSET FoundIn(s), ok : BOOLEAN, dream : {"none", "asked", "found"},
   dreams : SUBSET FoundIn(s), reached : SUBSET RequestsTo(s)]
Answering(s) ==
  [at : {"answered"}, scope : {s}, query : SearchQueries, reached : SUBSET RequestsTo(s),
   shown : SUBSET Records]

SearchOf(x, s) == x \in Waiting(s) \/ x \in Asking(s) \/ x \in Answering(s)
SearchInv ==
  /\ search = [c \in SearchSlots |-> search[c]]
  /\ \A c \in SearchSlots : search[c] = NoSearch \/ \E s \in ToolScopes : SearchOf(search[c], s)

LEMMA RequestsAreOfTheScope ==
  ASSUME NEW s \in ToolScopes, NEW q
  PROVE  RequestsOf(s, q) \in Seq(RequestsTo(s)) /\ DreamRequest(s) \in RequestsTo(s)
<1>1. SearchCollections(s, q) \subseteq Searched(s)
  BY DEF SearchCollections, Searched
<1>2. s.primary \in Access(s) /\ s.reads \in Seq(Access(s))
  BY ToolAssumption DEF Access
<1>3. DreamRequest(s) \in RequestsTo(s)
  BY <1>2 DEF DreamRequest, SearchRequest, RequestsTo, Searched
<1>4. ASSUME NEW t \in Access(s)
      PROVE  SearchRequest(t, SearchCollections(s, q)) \in RequestsTo(s)
  BY <1>1 DEF SearchRequest, RequestsTo
<1> DEFINE tenants == IF Cardinality(SearchCollections(s, q)) = 1 \/ s.reads = << >>
                      THEN <<s.primary>> ELSE s.reads
<1>5. tenants \in Seq(Access(s))
  BY <1>2
<1>6. RequestsOf(s, q) = IF SearchCollections(s, q) = {} THEN << >>
        ELSE [i \in DOMAIN tenants |-> SearchRequest(tenants[i], SearchCollections(s, q))]
  BY DEF RequestsOf
<1> HIDE DEF tenants
<1>7. Len(tenants) \in Nat /\ DOMAIN tenants = 1..Len(tenants)
      /\ \A i \in 1..Len(tenants) : tenants[i] \in Access(s)
  BY <1>5
<1>8. [i \in DOMAIN tenants |-> SearchRequest(tenants[i], SearchCollections(s, q))] \in Seq(RequestsTo(s))
  BY <1>4, <1>7
<1> QED
  BY <1>3, <1>6, <1>8

LEMMA BestAreSome ==
  ASSUME NEW k, NEW hits, NEW some \in Best(k, hits)
  PROVE  some \subseteq hits
BY DEF Best, kSubset

LEMMA AddedAreFound ==
  ASSUME NEW found, NEW hits
  PROVE  /\ FoundAdded(found, hits) \subseteq found \cup hits
         /\ found \subseteq FoundAdded(found, hits)
BY DEF FoundAdded

LEMMA MatchesAreStamped ==
  ASSUME NEW s, NEW request \in RequestsTo(s), NEW some \in SUBSET Matching(request)
  PROVE  {Stamped(request.tenant, r) : r \in some} \subseteq FoundIn(s)
<1> SUFFICES ASSUME NEW r \in some PROVE Stamped(request.tenant, r) \in FoundIn(s)
  OBVIOUS
<1>1. r \in Records /\ r.tenant = request.tenant /\ r.collection \in request.collections
  BY DEF Matching
<1>2. request.tenant \in Access(s) /\ request.collections \subseteq Searched(s)
  BY DEF RequestsTo
<1> QED
  BY <1>1, <1>2 DEF FoundIn

(* Where a search is says what it holds. *)
LEMMA SearchAt ==
  ASSUME SearchInv, NEW c \in SearchSlots
  PROVE  /\ search[c].at = "manager" =>
              search[c].scope \in ToolScopes /\ search[c] \in Waiting(search[c].scope)
         /\ search[c].at = "asking" =>
              search[c].scope \in ToolScopes /\ search[c] \in Asking(search[c].scope)
         /\ search[c].at = "answered" =>
              search[c].scope \in ToolScopes /\ search[c] \in Answering(search[c].scope)
<1>1. CASE search[c] = NoSearch
  BY <1>1 DEF NoSearch
<1>2. ASSUME NEW s \in ToolScopes, search[c] \in Waiting(s)
      PROVE  search[c].at = "manager" /\ search[c].scope = s
  BY <1>2 DEF Waiting
<1>3. ASSUME NEW s \in ToolScopes, search[c] \in Asking(s)
      PROVE  search[c].at = "asking" /\ search[c].scope = s
  BY <1>3 DEF Asking
<1>4. ASSUME NEW s \in ToolScopes, search[c] \in Answering(s)
      PROVE  search[c].at = "answered" /\ search[c].scope = s
  BY <1>4 DEF Answering
<1> QED
  BY <1>1, <1>2, <1>3, <1>4 DEF SearchInv, SearchOf

LEMMA SlotChanges ==
  ASSUME SearchInv, NEW c \in SearchSlots, NEW x,
         x = NoSearch \/ \E s \in ToolScopes : SearchOf(x, s),
         search' = [search EXCEPT ![c] = x]
  PROVE  SearchInv'
<1>1. search' = [d \in SearchSlots |-> IF d = c THEN x ELSE search[d]]
  BY DEF SearchInv
<1>2. \A d \in SearchSlots : search'[d] = IF d = c THEN x ELSE search[d]
  BY <1>1
<1>3. search' = [d \in SearchSlots |-> search'[d]]
  BY <1>1
<1>4. \A d \in SearchSlots : search'[d] = NoSearch \/ \E s \in ToolScopes : SearchOf(search'[d], s)
  BY <1>2 DEF SearchInv
<1> QED
  BY <1>3, <1>4 DEF SearchInv, SearchOf, Waiting, Asking, Answering

LEMMA FailingKeepsSearches ==
  ASSUME SearchInv, NEW failed, SearchFails(failed)
  PROVE  SearchInv'
<1>1. search' = [d \in SearchSlots |-> IF d \in failed THEN NoSearch ELSE search[d]]
  BY DEF SearchFails
<1>2. \A d \in SearchSlots : search'[d] = IF d \in failed THEN NoSearch ELSE search[d]
  BY <1>1
<1>3. search' = [d \in SearchSlots |-> search'[d]]
  BY <1>1
<1>4. \A d \in SearchSlots : search'[d] = NoSearch \/ \E s \in ToolScopes : SearchOf(search'[d], s)
  BY <1>2 DEF SearchInv
<1> QED
  BY <1>3, <1>4 DEF SearchInv, SearchOf, Waiting, Asking, Answering

(* One answer of the daemon, as a search takes it. *)
LEMMA AnswerIsTaken ==
  ASSUME SearchInv, NEW c \in SearchSlots, RequestAnswered(c)
  PROVE  LET s == search[c].scope IN
         \E request \in RequestsTo(s), x \in Asking(s) :
           \E some \in Best(search[c].query.k, Matching(request)) :
             /\ s \in ToolScopes /\ search[c] \in Asking(s)
             /\ search' = [search EXCEPT ![c] = x]
             /\ request = Head(search[c].todo)
             /\ x.found = FoundAdded(search[c].found, {Stamped(request.tenant, r) : r \in some})
             /\ x.dreams = search[c].dreams /\ x.reached = search[c].reached \cup {request}
             /\ x.todo = Tail(search[c].todo) /\ x.dream = search[c].dream
             /\ x.at = "asking" /\ x.scope = s /\ x.query = search[c].query
<1> DEFINE s == search[c].scope
           request == Head(search[c].todo)
<1>1. PICK some \in Best(search[c].query.k, Matching(request)) :
        search' = [search EXCEPT
          ![c].found = FoundAdded(@, {Stamped(request.tenant, r) : r \in some}),
          ![c].todo = Tail(@), ![c].ok = TRUE, ![c].reached = @ \cup {request}]
  BY DEF RequestAnswered
<1> DEFINE added == FoundAdded(search[c].found, {Stamped(request.tenant, r) : r \in some})
           rest == Tail(search[c].todo)
           more == search[c].reached \cup {request}
           x == [search[c] EXCEPT !.found = added, !.todo = rest, !.ok = TRUE, !.reached = more]
<1>2. search' = [search EXCEPT ![c] = x]
  BY <1>1
<1>3. s \in ToolScopes /\ search[c] \in Asking(s) /\ search[c].todo # << >>
  BY SearchAt DEF RequestAnswered, Requesting
<1>4. search[c].todo \in Seq(RequestsTo(s)) /\ search[c].found \subseteq FoundIn(s)
      /\ search[c].reached \subseteq RequestsTo(s)
  BY <1>3 DEF Asking
<1>5. request \in RequestsTo(s) /\ rest \in Seq(RequestsTo(s))
  BY <1>3, <1>4, HeadTailProperties
<1>6. added \subseteq FoundIn(s)
  <2>1. {Stamped(request.tenant, r) : r \in some} \subseteq FoundIn(s)
    BY <1>5, BestAreSome, MatchesAreStamped
  <2> QED
    BY <2>1, <1>4, AddedAreFound
<1>7. more \subseteq RequestsTo(s)
  BY <1>4, <1>5
<1> HIDE DEF added, rest, more
<1>8. x \in Asking(s) /\ x.at = "asking" /\ x.scope = s /\ x.query = search[c].query
      /\ x.found = added /\ x.todo = rest /\ x.reached = more
      /\ x.dreams = search[c].dreams /\ x.dream = search[c].dream
  BY <1>3, <1>5, <1>6, <1>7 DEF Asking
<1> HIDE DEF x
<1> QED
  BY <1>2, <1>3, <1>5, <1>8 DEF added, rest, more

LEMMA DreamsAreTaken ==
  ASSUME SearchInv, NEW c \in SearchSlots, DreamsAnswered(c)
  PROVE  LET s == search[c].scope IN
         \E x \in Asking(s) :
           \E some \in Best(search[c].query.k, Matching(DreamRequest(s))) :
             /\ s \in ToolScopes /\ search[c] \in Asking(s) /\ DreamRequest(s) \in RequestsTo(s)
             /\ search' = [search EXCEPT ![c] = x]
             /\ x.found = search[c].found /\ x.dreams = {Stamped(s.primary, r) : r \in some}
             /\ x.reached = search[c].reached \cup {DreamRequest(s)}
             /\ x.todo = search[c].todo /\ x.dream = "found"
             /\ x.at = "asking" /\ x.scope = s /\ x.query = search[c].query
<1> DEFINE s == search[c].scope
<1>1. DreamRequest(s).tenant = s.primary
  BY DEF DreamRequest, SearchRequest
<1>2. PICK some \in Best(search[c].query.k, Matching(DreamRequest(s))) :
        search' = [search EXCEPT
          ![c].dreams = {Stamped(DreamRequest(s).tenant, r) : r \in some},
          ![c].dream = "found", ![c].reached = @ \cup {DreamRequest(s)}]
  BY DEF DreamsAnswered
<1> DEFINE new == {Stamped(s.primary, r) : r \in some}
           more == search[c].reached \cup {DreamRequest(s)}
           x == [search[c] EXCEPT !.dreams = new, !.dream = "found", !.reached = more]
<1>3. search' = [search EXCEPT ![c] = x]
  <2>1. new = {Stamped(DreamRequest(s).tenant, r) : r \in some}
    BY <1>1
  <2> HIDE DEF new
  <2> QED
    BY <1>2, <2>1
<1>4. s \in ToolScopes /\ search[c] \in Asking(s) /\ DreamRequest(s) \in RequestsTo(s)
  BY SearchAt, RequestsAreOfTheScope DEF DreamsAnswered
<1>5. new \subseteq FoundIn(s)
  BY <1>1, <1>4, BestAreSome, MatchesAreStamped
<1>6. more \subseteq RequestsTo(s)
  BY <1>4 DEF Asking
<1> HIDE DEF new, more
<1>7. x \in Asking(s) /\ x.at = "asking" /\ x.scope = s /\ x.query = search[c].query
      /\ x.found = search[c].found /\ x.dreams = new /\ x.dream = "found"
      /\ x.reached = more /\ x.todo = search[c].todo
  BY <1>4, <1>5, <1>6 DEF Asking
<1> HIDE DEF x
<1> QED
  BY <1>3, <1>4, <1>7 DEF new, more

LEMMA MergedAreFound ==
  ASSUME SearchInv, NEW c \in SearchSlots, search[c].at = "asking",
         NEW s, s = search[c].scope,
         NEW top \in Best(search[c].query.k, search[c].found),
         NEW merged \in Best(search[c].query.k, FoundAdded(top, search[c].dreams))
  PROVE  /\ s \in ToolScopes /\ search[c] \in Asking(s)
         /\ top \subseteq search[c].found /\ merged \subseteq FoundAdded(top, search[c].dreams)
         /\ merged \subseteq FoundIn(s)
         /\ \A h \in merged : h.of \in Records
<1>1. s \in ToolScopes /\ search[c] \in Asking(s)
  BY SearchAt
<1>2. search[c].found \subseteq FoundIn(s) /\ search[c].dreams \subseteq FoundIn(s)
  BY <1>1 DEF Asking
<1>3. top \subseteq search[c].found /\ merged \subseteq FoundAdded(top, search[c].dreams)
  BY BestAreSome
<1>4. merged \subseteq FoundIn(s)
  BY <1>2, <1>3, AddedAreFound
<1>5. \A h \in FoundIn(s) : h.of \in Records
  BY DEF FoundIn, Stamped
<1> QED
  BY <1>1, <1>3, <1>4, <1>5

LEMMA SearchStep == SearchInv /\ [ToolsNext]_toolVars => SearchInv'
<1> SUFFICES ASSUME SearchInv, [ToolsNext]_toolVars PROVE SearchInv'
  OBVIOUS
<1> USE DEF SearchOf
<1>1. ASSUME NEW c \in SearchSlots, NEW s \in ToolScopes, NEW q \in SearchQueries, Ask(c, s, q)
      PROVE  SearchInv'
  <2>1. search' = [search EXCEPT ![c] = [at |-> "manager", scope |-> s, query |-> q]]
    BY <1>1 DEF Ask
  <2>2. [at |-> "manager", scope |-> s, query |-> q] \in Waiting(s)
    BY DEF Waiting
  <2> QED
    BY <2>1, <2>2, SlotChanges
<1>2. ASSUME NEW c \in SearchSlots, ClientFound(c) PROVE SearchInv'
  <2> DEFINE s == search[c].scope
             q == search[c].query
             x == [at |-> "asking", scope |-> s, query |-> q,
                   todo |-> RequestsOf(s, q), found |-> {}, ok |-> RequestsOf(s, q) = << >>,
                   dream |-> IF DreamCollection(q) THEN "asked" ELSE "none", dreams |-> {},
                   reached |-> {}]
  <2>1. search' = [search EXCEPT ![c] = x] /\ search[c].at = "manager"
    BY <1>2 DEF ClientFound
  <2>2. s \in ToolScopes /\ q \in SearchQueries
    BY <2>1, SearchAt DEF Waiting
  <2>3. x \in Asking(s)
    BY <2>2, RequestsAreOfTheScope DEF Asking
  <2> QED
    BY <2>1, <2>2, <2>3, SlotChanges
<1>3. ASSUME NEW c \in SearchSlots, ClientUnavailable(c) \/ DreamsFailed(c) \/ NoneAnswered(c)
      PROVE  SearchInv'
  BY <1>3, FailingKeepsSearches DEF ClientUnavailable, DreamsFailed, NoneAnswered
<1>4. ASSUME NEW c \in SearchSlots, RequestAnswered(c) PROVE SearchInv'
  <2>1. \E s \in ToolScopes : \E x : x \in Asking(s) /\ search' = [search EXCEPT ![c] = x]
    BY <1>4, AnswerIsTaken
  <2> QED
    BY <2>1, SlotChanges
<1>5. ASSUME NEW c \in SearchSlots, RequestFailed(c) PROVE SearchInv'
  <2>1. search' = [search EXCEPT ![c] = [search[c] EXCEPT !.todo = Tail(@)]]
    BY <1>5 DEF RequestFailed
  <2>2. search[c].scope \in ToolScopes /\ search[c] \in Asking(search[c].scope)
        /\ search[c].todo # << >>
    BY <1>5, SearchAt DEF RequestFailed, Requesting
  <2>3. Tail(search[c].todo) \in Seq(RequestsTo(search[c].scope))
    BY <2>2, HeadTailProperties DEF Asking
  <2>4. [search[c] EXCEPT !.todo = Tail(@)] \in Asking(search[c].scope)
    BY <2>2, <2>3 DEF Asking
  <2> QED
    BY <2>1, <2>2, <2>4, SlotChanges
<1>6. ASSUME NEW c \in SearchSlots, DreamsAnswered(c) PROVE SearchInv'
  <2>1. \E s \in ToolScopes : \E x : x \in Asking(s) /\ search' = [search EXCEPT ![c] = x]
    BY <1>6, DreamsAreTaken
  <2> QED
    BY <2>1, SlotChanges
<1>7. ASSUME NEW c \in SearchSlots, SearchAnswered(c) PROVE SearchInv'
  <2> DEFINE s == search[c].scope
             q == search[c].query
             shown(merged) == {h.of : h \in {h \in {h \in merged : h.score >= q.least} :
                                                q.corpus \in {"all", SourceOf(h)}}}
             x(merged) == [at |-> "answered", scope |-> s, query |-> q,
                           reached |-> search[c].reached, shown |-> shown(merged)]
  <2>1. \E top \in Best(q.k, search[c].found) :
          \E merged \in Best(q.k, FoundAdded(top, search[c].dreams)) :
            search' = [search EXCEPT ![c] = x(merged)]
    BY <1>7 DEF SearchAnswered
  <2>2. search[c].at = "asking"
    BY <1>7 DEF SearchAnswered
  <2>3. ASSUME NEW top \in Best(q.k, search[c].found),
               NEW merged \in Best(q.k, FoundAdded(top, search[c].dreams)),
               search' = [search EXCEPT ![c] = x(merged)]
        PROVE  SearchInv'
    <3>1. s \in ToolScopes /\ search[c] \in Asking(s) /\ \A h \in merged : h.of \in Records
      BY <2>2, MergedAreFound
    <3>2. shown(merged) \subseteq Records
      BY <3>1
    <3> HIDE DEF shown
    <3>3. x(merged) \in Answering(s)
      BY <3>1, <3>2 DEF Asking, Answering
    <3> QED
      BY <2>3, <3>1, <3>3, SlotChanges
  <2> QED
    BY <2>1, <2>3
<1>8. ASSUME NEW s \in ToolScopes, ManagerRefused(s) PROVE SearchInv'
  BY <1>8, FailingKeepsSearches DEF ManagerRefused
<1>9. ASSUME UNCHANGED search PROVE SearchInv'
  BY <1>9 DEF SearchInv
<1>10. ASSUME NEW s \in ToolScopes,
              \/ GetAsked(s) \/ ManagerOpened(s) \/ SummarySeen(s) \/ Grep(s)
              \/ ExpandGraph(s) \/ Describe(s)
       PROVE  SearchInv'
  BY <1>9, <1>10 DEF GetAsked, ManagerOpened, SummarySeen, Grep, ExpandGraph, Describe, Given
<1>11. CASE ToolTimePasses
  BY <1>9, <1>11 DEF ToolTimePasses
<1>12. CASE UNCHANGED toolVars
  BY <1>9, <1>12 DEF toolVars
<1> QED
  BY <1>1, <1>2, <1>3, <1>4, <1>5, <1>6, <1>7, <1>8, <1>10, <1>11, <1>12 DEF ToolsNext

LEMMA SearchInit == ToolsInit => SearchInv
BY DEF ToolsInit, SearchInv

-----------------------------------------------------------------------------
(***************************************************************************)
(* A key that blocks stands for a search that is under way or answered.    *)
(* A scope that was dropped has no keys: it would block with old ones when *)
(* it comes back.                                                          *)
(***************************************************************************)

UnderWay(c, s, q) ==
  search[c].at \in {"manager", "asking"} /\ search[c].scope = s /\ search[c].query = q

KeyInv ==
  /\ keyed \in Seq(ToolScopes)
  /\ fresh \in [ToolScopes -> [SearchQueries -> Nat]]
  /\ \A s \in ToolScopes, q \in SearchQueries : fresh[s][q] > 0 =>
       /\ Scoped(s) /\ s \in ToSet(keyed)
       /\ <<s, q>> \in answered \/ \E c \in SearchSlots : UnderWay(c, s, q)

LEMMA TtlIsNumber == DedupTtl \in Nat
BY ToolAssumption

LEMMA KeysStay ==
  ASSUME KeyInv, UNCHANGED <<keyed, fresh, answered>>,
         \A c \in SearchSlots : search[c].at \in {"manager", "asking"} =>
           /\ search'[c].at \in {"manager", "asking"}
           /\ search'[c].scope = search[c].scope /\ search'[c].query = search[c].query
  PROVE  KeyInv'
BY DEF KeyInv, UnderWay

(* Those that fail take their keys along. *)
LEMMA FailingFreesItsKey ==
  ASSUME KeyInv, NEW failed, SearchFails(failed)
  PROVE  KeyInv'
<1>1. /\ keyed' = keyed /\ answered' = answered
      /\ fresh' = RetryPermitted(failed)
      /\ \A d \in SearchSlots : d \notin failed => search'[d] = search[d]
  BY DEF SearchFails
<1>2. fresh' \in [ToolScopes -> [SearchQueries -> Nat]]
  BY <1>1 DEF RetryPermitted, KeyInv
<1>3. ASSUME NEW s \in ToolScopes, NEW q \in SearchQueries, fresh'[s][q] > 0
      PROVE  /\ fresh[s][q] > 0
             /\ \A c \in failed : ~ (search[c].scope = s /\ search[c].query = q)
  BY <1>1, <1>3 DEF RetryPermitted
<1>4. ASSUME NEW s \in ToolScopes, NEW q \in SearchQueries, fresh'[s][q] > 0
      PROVE  /\ Scoped(s) /\ s \in ToSet(keyed')
             /\ <<s, q>> \in answered' \/ \E c \in SearchSlots : UnderWay(c, s, q)'
  <2>1. /\ Scoped(s) /\ s \in ToSet(keyed)
        /\ <<s, q>> \in answered \/ \E c \in SearchSlots : UnderWay(c, s, q)
    BY <1>3, <1>4 DEF KeyInv
  <2>2. ASSUME NEW c \in SearchSlots, UnderWay(c, s, q) PROVE UnderWay(c, s, q)'
    BY <1>1, <1>3, <1>4, <2>2 DEF UnderWay
  <2> QED
    BY <1>1, <2>1, <2>2
<1> QED
  BY <1>1, <1>2, <1>4 DEF KeyInv, Scoped

LEMMA AskingSetsAKey ==
  ASSUME SearchInv, KeyInv, NEW c \in SearchSlots, NEW s \in ToolScopes, NEW q \in SearchQueries,
         Ask(c, s, q)
  PROVE  KeyInv'
<1> DEFINE grown == IF s \in ToSet(keyed) THEN keyed ELSE Append(keyed, s)
           dropped == IF Len(grown) > MaxScopes THEN {Head(grown)} ELSE {}
           left == IF dropped = {} THEN grown ELSE Tail(grown)
<1>1. keyed \in Seq(ToolScopes) /\ fresh \in [ToolScopes -> [SearchQueries -> Nat]]
  BY DEF KeyInv
<1>2. grown \in Seq(ToolScopes) /\ grown # << >>
      /\ ToSet(keyed) \subseteq ToSet(grown) /\ s \in ToSet(grown)
  <2>1. CASE s \in ToSet(keyed)
    BY <1>1, <2>1 DEF ToSet
  <2>2. CASE s \notin ToSet(keyed)
    <3> DEFINE n == Len(keyed)
    <3>1. /\ n \in Nat /\ DOMAIN keyed = 1..n /\ DOMAIN Append(keyed, s) = 1..(n + 1)
          /\ Append(keyed, s)[n + 1] = s /\ \A i \in 1..n : Append(keyed, s)[i] = keyed[i]
          /\ Append(keyed, s) \in Seq(ToolScopes) /\ Len(Append(keyed, s)) = n + 1
      BY <1>1
    <3>3. Append(keyed, s) # << >>
      BY <3>1
    <3> HIDE DEF n
    <3>2. n + 1 \in 1..(n + 1) /\ 1..n \subseteq 1..(n + 1)
      BY <3>1
    <3> QED
      BY <2>2, <3>1, <3>2, <3>3 DEF ToSet
  <2> QED
    BY <2>1, <2>2
<1> HIDE DEF grown
<1>3. left \in Seq(ToolScopes) /\ \A t \in ToSet(grown) : t \notin dropped => t \in ToSet(left)
  <2>1. CASE Len(grown) > MaxScopes
    <3> DEFINE m == Len(grown)
    <3>1. /\ m \in Nat /\ DOMAIN grown = 1..m /\ Tail(grown) \in Seq(ToolScopes)
          /\ DOMAIN Tail(grown) = 1..(m - 1) /\ Head(grown) = grown[1]
          /\ \A i \in 1..(m - 1) : Tail(grown)[i] = grown[i + 1]
      BY <1>2
    <3> HIDE DEF m
    <3>2. \A i \in 1..m : i # 1 => i - 1 \in 1..(m - 1) /\ (i - 1) + 1 = i
      BY <3>1
    <3>3. \A i \in 1..m : i # 1 => Tail(grown)[i - 1] = grown[i] /\ i - 1 \in DOMAIN Tail(grown)
      BY <3>1, <3>2
    <3>4. \A i \in 1..m : grown[i] # Head(grown) => grown[i] \in ToSet(Tail(grown))
      BY <3>1, <3>3 DEF ToSet
    <3>5. \A t \in ToSet(grown) : t # Head(grown) => t \in ToSet(Tail(grown))
      BY <3>1, <3>4 DEF ToSet
    <3>6. dropped = {Head(grown)} /\ left = Tail(grown)
      BY <2>1
    <3> QED
      BY <3>1, <3>5, <3>6
  <2>2. CASE ~ (Len(grown) > MaxScopes)
    BY <1>2, <2>2
  <2> QED
    BY <2>1, <2>2
<1> HIDE DEF dropped, left
<1>4. answered' = answered \ {<<s, q>>}
      /\ search' = [search EXCEPT ![c] = [at |-> "manager", scope |-> s, query |-> q]]
      /\ search[c].at \in {"idle", "answered"}
  BY DEF Ask
<1>5. UnderWay(c, s, q)'
  BY <1>4 DEF UnderWay, SearchInv
<1>6. ASSUME NEW d \in SearchSlots, NEW t, NEW r, UnderWay(d, t, r) PROVE UnderWay(d, t, r)'
  BY <1>4, <1>6 DEF UnderWay, SearchInv
<1>7. CASE ~ Scoped(s)
  <2>1. keyed' = keyed /\ fresh' = fresh
    BY <1>7 DEF Ask
  <2>2. ASSUME NEW t \in ToolScopes, NEW r \in SearchQueries, fresh'[t][r] > 0
        PROVE  /\ Scoped(t) /\ t \in ToSet(keyed')
               /\ <<t, r>> \in answered' \/ \E d \in SearchSlots : UnderWay(d, t, r)'
    <3>1. /\ Scoped(t) /\ t \in ToSet(keyed)
          /\ <<t, r>> \in answered \/ \E d \in SearchSlots : UnderWay(d, t, r)
      BY <2>1, <2>2 DEF KeyInv
    <3>2. <<t, r>> # <<s, q>>
      BY <1>7, <3>1
    <3> QED
      BY <1>4, <1>6, <2>1, <3>1, <3>2
  <2> QED
    BY <1>1, <2>1, <2>2 DEF KeyInv
<1>8. CASE Scoped(s)
  <2>1. keyed' = left
        /\ fresh' = [t \in ToolScopes |->
             IF t \in dropped THEN [r \in SearchQueries |-> 0]
             ELSE IF t = s THEN [fresh[s] EXCEPT ![q] = DedupTtl] ELSE fresh[t]]
    BY <1>8 DEF Ask, left, dropped, grown
  <2>2. fresh' \in [ToolScopes -> [SearchQueries -> Nat]]
    BY <1>1, <2>1, TtlIsNumber
  <2>3. ASSUME NEW t \in ToolScopes, NEW r \in SearchQueries, fresh'[t][r] > 0
        PROVE  /\ Scoped(t) /\ t \in ToSet(keyed')
               /\ <<t, r>> \in answered' \/ \E d \in SearchSlots : UnderWay(d, t, r)'
    <3>1. t \notin dropped
      BY <2>1, <2>3
    <3>2. CASE t = s /\ r = q
      BY <1>2, <1>3, <1>5, <1>8, <2>1, <3>1, <3>2
    <3>3. CASE ~ (t = s /\ r = q)
      <4>1. fresh[t][r] > 0
        BY <1>1, <2>1, <2>3, <3>1, <3>3
      <4>2. /\ Scoped(t) /\ t \in ToSet(keyed)
            /\ <<t, r>> \in answered \/ \E d \in SearchSlots : UnderWay(d, t, r)
        BY <4>1 DEF KeyInv
      <4>3. t \in ToSet(keyed')
        BY <4>2, <1>2, <1>3, <2>1, <3>1
      <4>4. <<t, r>> # <<s, q>>
        BY <3>3
      <4> QED
        BY <1>4, <1>6, <4>2, <4>3, <4>4
    <3> QED
      BY <3>2, <3>3
  <2> QED
    BY <1>3, <2>1, <2>2, <2>3 DEF KeyInv
<1> QED
  BY <1>7, <1>8

(* An answer is remembered for as long as its key blocks. *)
LEMMA AnsweringKeepsKeys ==
  ASSUME SearchInv, KeyInv, NEW c \in SearchSlots, SearchAnswered(c)
  PROVE  KeyInv'
<1> DEFINE s == search[c].scope
           q == search[c].query
<1>1. /\ keyed' = keyed /\ fresh' = fresh
      /\ answered' = IF Blocked(s, q) THEN answered \cup {<<s, q>>} ELSE answered
      /\ \A d \in SearchSlots \ {c} : search'[d] = search[d]
  <2>1. \E x : search' = [search EXCEPT ![c] = x]
    BY DEF SearchAnswered
  <2>2. PICK x : search' = [search EXCEPT ![c] = x]
    BY <2>1
  <2>3. \A d \in SearchSlots \ {c} : search'[d] = search[d]
    BY <2>2 DEF SearchInv
  <2> QED
    BY <2>3 DEF SearchAnswered
<1>2. ASSUME NEW t \in ToolScopes, NEW r \in SearchQueries, fresh[t][r] > 0
      PROVE  <<t, r>> \in answered' \/ \E d \in SearchSlots : UnderWay(d, t, r)'
  <2>1. /\ Scoped(t) /\ t \in ToSet(keyed)
        /\ <<t, r>> \in answered \/ \E d \in SearchSlots : UnderWay(d, t, r)
    BY <1>2 DEF KeyInv
  <2>2. CASE <<t, r>> \in answered
    BY <1>1, <2>2
  <2>3. ASSUME NEW d \in SearchSlots, UnderWay(d, t, r)
        PROVE  <<t, r>> \in answered' \/ UnderWay(d, t, r)'
    <3>1. CASE d = c
      <4>1. t = s /\ r = q /\ Blocked(s, q)
        BY <1>2, <2>1, <2>3, <3>1 DEF UnderWay, Blocked
      <4> QED
        BY <1>1, <4>1
    <3>2. CASE d # c
      BY <1>1, <2>3, <3>2 DEF UnderWay
    <3> QED
      BY <3>1, <3>2
  <2> QED
    BY <2>1, <2>2, <2>3
<1> QED
  BY <1>1, <1>2 DEF KeyInv, Scoped

LEMMA KeyStep == SearchInv /\ KeyInv /\ [ToolsNext]_toolVars => KeyInv'
<1> SUFFICES ASSUME SearchInv, KeyInv, [ToolsNext]_toolVars PROVE KeyInv'
  OBVIOUS
<1>1. ASSUME NEW c \in SearchSlots, NEW s \in ToolScopes, NEW q \in SearchQueries, Ask(c, s, q)
      PROVE  KeyInv'
  BY <1>1, AskingSetsAKey
<1>2. ASSUME NEW c \in SearchSlots, ClientFound(c) PROVE KeyInv'
  <2> DEFINE s == search[c].scope
             q == search[c].query
             x == [at |-> "asking", scope |-> s, query |-> q,
                   todo |-> RequestsOf(s, q), found |-> {}, ok |-> RequestsOf(s, q) = << >>,
                   dream |-> IF DreamCollection(q) THEN "asked" ELSE "none", dreams |-> {},
                   reached |-> {}]
  <2>1. search' = [search EXCEPT ![c] = x]
    BY <1>2 DEF ClientFound
  <2>3. x.at = "asking" /\ x.scope = search[c].scope /\ x.query = search[c].query
    OBVIOUS
  <2> HIDE DEF x
  <2>2. UNCHANGED <<keyed, fresh, answered>>
    BY <1>2 DEF ClientFound
  <2> QED
    BY <2>1, <2>2, <2>3, KeysStay DEF SearchInv
<1>3. ASSUME NEW c \in SearchSlots, ClientUnavailable(c) \/ DreamsFailed(c) \/ NoneAnswered(c)
      PROVE  KeyInv'
  BY <1>3, FailingFreesItsKey DEF ClientUnavailable, DreamsFailed, NoneAnswered
<1>4. ASSUME NEW c \in SearchSlots, RequestAnswered(c) PROVE KeyInv'
  <2>1. PICK x : /\ search' = [search EXCEPT ![c] = x]
                 /\ x.at = "asking" /\ x.scope = search[c].scope /\ x.query = search[c].query
    BY <1>4, AnswerIsTaken
  <2>2. UNCHANGED <<keyed, fresh, answered>>
    BY <1>4 DEF RequestAnswered
  <2> QED
    BY <2>1, <2>2, KeysStay DEF SearchInv
<1>5. ASSUME NEW c \in SearchSlots, RequestFailed(c) PROVE KeyInv'
  <2>1. search' = [search EXCEPT ![c] = [search[c] EXCEPT !.todo = Tail(@)]]
    BY <1>5 DEF RequestFailed
  <2>2. search[c] \in Asking(search[c].scope)
    BY <1>5, SearchAt DEF RequestFailed, Requesting
  <2>3. /\ [search[c] EXCEPT !.todo = Tail(@)].at = "asking"
        /\ [search[c] EXCEPT !.todo = Tail(@)].scope = search[c].scope
        /\ [search[c] EXCEPT !.todo = Tail(@)].query = search[c].query
    BY <2>2 DEF Asking
  <2>4. UNCHANGED <<keyed, fresh, answered>>
    BY <1>5 DEF RequestFailed
  <2> QED
    BY <2>1, <2>3, <2>4, KeysStay DEF SearchInv
<1>6. ASSUME NEW c \in SearchSlots, DreamsAnswered(c) PROVE KeyInv'
  <2>1. PICK x : /\ search' = [search EXCEPT ![c] = x]
                 /\ x.at = "asking" /\ x.scope = search[c].scope /\ x.query = search[c].query
    BY <1>6, DreamsAreTaken
  <2>2. UNCHANGED <<keyed, fresh, answered>>
    BY <1>6 DEF DreamsAnswered
  <2> QED
    BY <2>1, <2>2, KeysStay DEF SearchInv
<1>7. ASSUME NEW c \in SearchSlots, SearchAnswered(c) PROVE KeyInv'
  BY <1>7, AnsweringKeepsKeys
<1>8. ASSUME NEW s \in ToolScopes, ManagerRefused(s) PROVE KeyInv'
  BY <1>8, FailingFreesItsKey DEF ManagerRefused
<1>9. ASSUME UNCHANGED <<keyed, fresh, answered, search>> PROVE KeyInv'
  BY <1>9 DEF KeyInv, UnderWay, Scoped
<1>10. ASSUME NEW s \in ToolScopes,
              \/ GetAsked(s) \/ ManagerOpened(s) \/ SummarySeen(s) \/ Grep(s)
              \/ ExpandGraph(s) \/ Describe(s)
       PROVE  KeyInv'
  BY <1>9, <1>10 DEF GetAsked, ManagerOpened, SummarySeen, Grep, ExpandGraph, Describe, Given
<1>11. CASE ToolTimePasses
  <2>1. /\ keyed' = keyed /\ search' = search
        /\ fresh' = [s \in ToolScopes |-> [q \in SearchQueries |->
                       IF fresh[s][q] > 0 THEN fresh[s][q] - 1 ELSE 0]]
        /\ answered' = {a \in answered : fresh'[a[1]][a[2]] > 0}
    BY <1>11 DEF ToolTimePasses
  <2>2. fresh' \in [ToolScopes -> [SearchQueries -> Nat]]
        /\ \A s \in ToolScopes, q \in SearchQueries : fresh'[s][q] > 0 => fresh[s][q] > 0
    BY <2>1 DEF KeyInv
  <2>3. ASSUME NEW s \in ToolScopes, NEW q \in SearchQueries, fresh'[s][q] > 0,
               <<s, q>> \in answered
        PROVE  <<s, q>> \in answered'
    BY <2>1, <2>3
  <2>4. ASSUME NEW s \in ToolScopes, NEW q \in SearchQueries, fresh'[s][q] > 0
        PROVE  /\ Scoped(s) /\ s \in ToSet(keyed')
               /\ <<s, q>> \in answered' \/ \E c \in SearchSlots : UnderWay(c, s, q)'
    <3>1. /\ Scoped(s) /\ s \in ToSet(keyed)
          /\ <<s, q>> \in answered \/ \E c \in SearchSlots : UnderWay(c, s, q)
      BY <2>2, <2>4 DEF KeyInv
    <3>2. \A c \in SearchSlots : UnderWay(c, s, q) => UnderWay(c, s, q)'
      BY <2>1 DEF UnderWay
    <3> QED
      BY <2>1, <2>3, <2>4, <3>1, <3>2
  <2>5. keyed' \in Seq(ToolScopes)
    BY <2>1 DEF KeyInv
  <2> QED
    BY <2>2, <2>4, <2>5 DEF KeyInv, Scoped
<1>12. CASE UNCHANGED toolVars
  BY <1>9, <1>12 DEF toolVars
<1> QED
  BY <1>1, <1>2, <1>3, <1>4, <1>5, <1>6, <1>7, <1>8, <1>10, <1>11, <1>12 DEF ToolsNext

LEMMA KeyInit == ToolsInit => KeyInv
BY DEF ToolsInit, KeyInv

(* BlockedHasResults of MemoryTools, for any scopes, queries and time to   *)
(* live: the tool refuses a search as a duplicate only while another like  *)
(* it is under way, or its answer is as old as the key (isDuplicateSearch  *)
(* and the catch that permits the retry).                                  *)
THEOREM BlockedSearchesHaveResults == ToolsSpec => []BlockedHasResults
<1>1. KeyInv => BlockedHasResults
  BY ZenonT(40) DEF KeyInv, BlockedHasResults, Blocked, UnderWay
<1> QED
  BY SearchInit, SearchStep, KeyInit, KeyStep, <1>1, PTL DEF ToolsSpec

-----------------------------------------------------------------------------
(***************************************************************************)
(* A reference that is held leads to its record: the tenant it names, or   *)
(* the agent's own if it names none, is the record's, and of the           *)
(* collections it may name none is one that search results name for        *)
(* another record of the identifier.                                       *)
(***************************************************************************)

Leads(s, ref, r) ==
  /\ r \in Records /\ ref.id = r.id
  /\ \/ ref.tenant = NoTenant /\ r.tenant = s.primary
     \/ ref.tenant = r.tenant /\ r.tenant \in Access(s)
  /\ r.labelled =>
       \/ ref.collection = NoCollection \/ ref.collection[1] = "session_summary"
       \/ ref.collection = r.collection /\ ref.collection # Memory

Returned(s) == {[path |-> SearchResultPath(h), of |-> h.of] : h \in FoundIn(s)}

ReferenceInv ==
  /\ held = [s \in ToolScopes |-> held[s]] /\ paths = [s \in ToolScopes |-> paths[s]]
  /\ \A s \in ToolScopes : paths[s] \subseteq Returned(s)
  /\ \A s \in ToolScopes : held[s] # NoReference => Leads(s, held[s].ref, held[s].of)

LEMMA TenantsAreNamed ==
  ASSUME NEW s \in ToolScopes
  PROVE  NoTenant \notin Access(s) /\ s.primary \in Access(s)
BY ToolAssumption DEF Access

LEMMA RecordsAreTold ==
  /\ \A r, other \in Records :
       r.tenant = other.tenant /\ r.collection = other.collection /\ r.id = other.id => r = other
  /\ \A r \in Records : r.labelled \in BOOLEAN
BY ToolAssumption

LEMMA LeadsToItsTenant ==
  ASSUME NEW s \in ToolScopes, NEW ref, NEW r, Leads(s, ref, r)
  PROVE  /\ TenantReached(s, ref) = r.tenant /\ r.tenant \in Access(s)
         /\ ref.tenant = NoTenant => r.tenant = s.primary
         /\ ref.tenant # NoTenant => r.tenant = ref.tenant
BY TenantsAreNamed DEF Leads, TenantReached

(* What a search has found, by its kinds of records. *)
LEMMA FoundAreRecords ==
  ASSUME NEW s, NEW h \in FoundIn(s)
  PROVE  /\ h.of \in Records /\ h.of.tenant \in Access(s) /\ h.of.collection \in Searched(s)
         /\ h.tenant = h.of.tenant /\ h.id = h.of.id /\ h.score = h.of.score
         /\ h.collection = IF h.of.labelled THEN h.of.collection ELSE Memory
         /\ h = Stamped(h.of.tenant, h.of)
<1>1. PICK r \in Records : r.tenant \in Access(s) /\ r.collection \in Searched(s)
                          /\ h = Stamped(r.tenant, r)
  BY DEF FoundIn
<1>2. /\ h.of = r /\ h.tenant = r.tenant /\ h.id = r.id /\ h.score = r.score
      /\ h.collection = IF r.labelled THEN r.collection ELSE Memory
  BY <1>1 DEF Stamped
<1> QED
  BY <1>1, <1>2

LEMMA KindsDiffer ==
  ASSUME NEW s, NEW collection \in Searched(s) \cup {Memory}
  PROVE  /\ collection # NoCollection /\ collection[1] # "session_summary"
         /\ collection \in Searched(s) => collection # Memory
<1>1. NoCollection[1] = "" /\ Memory[1] = "memory"
  BY DEF NoCollection, Memory
<1>2. \A k \in Searched(s) : k[1] \in {"session", "user", "global", "dream"}
  BY DEF Searched
<1> QED
  BY <1>1, <1>2

LEMMA ExcerptIsTheRecords ==
  ASSUME NEW s \in ToolScopes, NEW ref, NEW r, Leads(s, ref, r), r.labelled,
         NEW h \in FoundIn(s), SearchResultPath(h) = ref
  PROVE  h.of = r
<1>1. ref.tenant = h.tenant /\ ref.collection = h.collection /\ ref.id = h.id
  BY DEF SearchResultPath, EncodeRecordReference
<1>2. /\ h.of \in Records /\ h.of.tenant \in Access(s) /\ h.of.collection \in Searched(s)
      /\ h.tenant = h.of.tenant /\ h.id = h.of.id
      /\ h.collection = IF h.of.labelled THEN h.of.collection ELSE Memory
  BY FoundAreRecords
<1>3. h.collection \in Searched(s) \cup {Memory}
  BY <1>2
<1>4. ref.collection = r.collection /\ h.collection # Memory /\ r \in Records /\ ref.id = r.id
  BY <1>1, <1>3, KindsDiffer DEF Leads
<1>5. h.of.labelled
  BY <1>2, <1>4
<1>6. r.tenant = ref.tenant
  BY <1>1, <1>2, TenantsAreNamed DEF Leads
<1> QED
  BY <1>1, <1>2, <1>4, <1>5, <1>6, RecordsAreTold

(* The references that are handed out. *)
LEMMA PathLeads ==
  ASSUME NEW s \in ToolScopes, NEW h \in FoundIn(s)
  PROVE  Leads(s, SearchResultPath(h), h.of)
<1>1. /\ h.of \in Records /\ h.of.tenant \in Access(s) /\ h.of.collection \in Searched(s)
      /\ h.tenant = h.of.tenant /\ h.id = h.of.id
      /\ h.collection = IF h.of.labelled THEN h.of.collection ELSE Memory
  BY FoundAreRecords
<1>2. h.of.collection # Memory
  BY <1>1, KindsDiffer
<1> QED
  BY <1>1, <1>2 DEF Leads, SearchResultPath, EncodeRecordReference

LEMMA BareIdLeads ==
  ASSUME NEW s, NEW id, NEW r \in RecordsOf(s.primary, id)
  PROVE  Leads(s, BareId(id), r)
BY DEF RecordsOf, Leads, BareId, EncodeRecordReference

LEMMA EdgeLeads ==
  ASSUME NEW s \in ToolScopes, NEW ref, NEW old, Leads(s, ref, old), NEW id,
         NEW r \in RecordsOf(TenantReached(s, ref), id)
  PROVE  Leads(s, EdgeReference(ref, id), r)
<1>1. /\ TenantReached(s, ref) = old.tenant /\ old.tenant \in Access(s)
      /\ ref.tenant = NoTenant => old.tenant = s.primary
      /\ ref.tenant # NoTenant => old.tenant = ref.tenant
  BY LeadsToItsTenant
<1>2. CASE ref.tenant = NoTenant
  BY <1>1, <1>2, BareIdLeads DEF EdgeReference
<1>3. CASE ref.tenant # NoTenant
  BY <1>1, <1>3 DEF RecordsOf, Leads, EdgeReference, EncodeRecordReference
<1> QED
  BY <1>2, <1>3

LEMMA SummaryLeads ==
  ASSUME NEW s \in ToolScopes, NEW ref, NEW old, Leads(s, ref, old), NEW id,
         ref.tenant = NoTenant \/ ref.collection[1] = "session_summary",
         NEW r \in RecordsOf(TenantReached(s, ref), id)
  PROVE  Leads(s, SummaryReference(ref, id), r)
<1>1. /\ TenantReached(s, ref) = old.tenant /\ old.tenant \in Access(s)
      /\ ref.tenant = NoTenant => old.tenant = s.primary
      /\ ref.tenant # NoTenant => old.tenant = ref.tenant
  BY LeadsToItsTenant
<1>2. CASE ref.tenant = NoTenant
  BY <1>1, <1>2, BareIdLeads DEF SummaryReference
<1>3. CASE ref.tenant # NoTenant
  BY <1>1, <1>3 DEF RecordsOf, Leads, SummaryReference, EncodeRecordReference
<1> QED
  BY <1>2, <1>3

LEMMA HeldChanges ==
  ASSUME ReferenceInv, NEW s \in ToolScopes, NEW ref, NEW r, Leads(s, ref, r),
         held' = Holding(s, ref, r)
  PROVE  /\ held' = [t \in ToolScopes |-> held'[t]]
         /\ \A t \in ToolScopes : held'[t] # NoReference => Leads(t, held'[t].ref, held'[t].of)
<1>1. held' = [t \in ToolScopes |-> IF t = s THEN [ref |-> ref, of |-> r] ELSE held[t]]
  BY DEF Holding, ReferenceInv
<1>2. \A t \in ToolScopes : held'[t] = IF t = s THEN [ref |-> ref, of |-> r] ELSE held[t]
  BY <1>1
<1>3. held' = [t \in ToolScopes |-> held'[t]]
  BY <1>1
<1> QED
  BY <1>2, <1>3 DEF ReferenceInv

LEMMA GivenLeads ==
  ASSUME ReferenceInv, NEW s \in ToolScopes, NEW ref, NEW r, Leads(s, ref, r), Given(s, ref, r)
  PROVE  ReferenceInv'
<1>1. held' = Holding(s, ref, r) /\ paths' = paths
  BY DEF Given
<1> QED
  BY <1>1, HeldChanges DEF ReferenceInv

LEMMA AnswerLeads ==
  ASSUME SearchInv, ReferenceInv, NEW c \in SearchSlots, SearchAnswered(c)
  PROVE  ReferenceInv'
<1> DEFINE s == search[c].scope
           q == search[c].query
           results(merged) == {h \in merged : h.score >= q.least}
           shown(merged) == {h \in results(merged) : q.corpus \in {"all", SourceOf(h)}}
           returned(merged) == {[path |-> SearchResultPath(h), of |-> h.of] : h \in results(merged)}
<1>1. \E top \in Best(q.k, search[c].found), taken \in BOOLEAN :
        \E merged \in Best(q.k, FoundAdded(top, search[c].dreams)) :
          /\ paths' = [paths EXCEPT ![s] =
               {p \in @ : \A r \in returned(merged) : r.path # p.path} \cup returned(merged)]
          /\ IF taken
             THEN \E h \in shown(merged) : held' = Holding(s, SearchResultPath(h), h.of)
             ELSE held' = held
  BY DEF SearchAnswered
<1>2. search[c].at = "asking"
  BY DEF SearchAnswered
<1>3. ASSUME NEW top \in Best(q.k, search[c].found), NEW taken \in BOOLEAN,
             NEW merged \in Best(q.k, FoundAdded(top, search[c].dreams)),
             paths' = [paths EXCEPT ![s] =
               {p \in @ : \A r \in returned(merged) : r.path # p.path} \cup returned(merged)],
             IF taken
             THEN \E h \in shown(merged) : held' = Holding(s, SearchResultPath(h), h.of)
             ELSE held' = held
      PROVE  ReferenceInv'
  <2>1. s \in ToolScopes /\ merged \subseteq FoundIn(s)
    BY <1>2, MergedAreFound
  <2>2. returned(merged) \subseteq Returned(s)
    BY <2>1 DEF Returned
  <2>3. \A h \in shown(merged) : Leads(s, SearchResultPath(h), h.of)
    BY <2>1, PathLeads
  <2> HIDE DEF returned, shown
  <2> DEFINE kept == {p \in paths[s] : \A r \in returned(merged) : r.path # p.path} \cup returned(merged)
  <2>4. kept \subseteq Returned(s)
    BY <2>1, <2>2 DEF ReferenceInv
  <2>5. paths' = [paths EXCEPT ![s] = kept]
    BY <1>3
  <2> HIDE DEF kept
  <2>6. paths' = [t \in ToolScopes |-> paths'[t]] /\ \A t \in ToolScopes : paths'[t] \subseteq Returned(t)
    BY <2>1, <2>4, <2>5 DEF ReferenceInv
  <2>7. /\ held' = [t \in ToolScopes |-> held'[t]]
        /\ \A t \in ToolScopes : held'[t] # NoReference => Leads(t, held'[t].ref, held'[t].of)
    <3>1. CASE taken
      BY <1>3, <2>1, <2>3, <3>1, HeldChanges
    <3>2. CASE ~ taken
      BY <1>3, <3>2 DEF ReferenceInv
    <3> QED
      BY <3>1, <3>2
  <2> QED
    BY <2>6, <2>7 DEF ReferenceInv
<1> QED
  BY <1>1, <1>3

LEMMA GraphLeads ==
  ASSUME ReferenceInv, NEW s \in ToolScopes,
         SummarySeen(s) \/ Grep(s) \/ ExpandGraph(s) \/ Describe(s)
  PROVE  ReferenceInv'
<1>1. CASE SummarySeen(s)
  <2>1. PICK r \in Matching(SearchRequest(s.primary, {Summaries(s)})) : Given(s, BareId(r.id), r)
    BY <1>1 DEF SummarySeen
  <2>2. r \in RecordsOf(s.primary, r.id)
    BY DEF Matching, SearchRequest, RecordsOf
  <2> QED
    BY <2>1, <2>2, BareIdLeads, GivenLeads
<1>2. CASE Grep(s)
  <2> DEFINE inside(collection) == Matching(SearchRequest(s.primary, {collection}))
  <2>1. PICK r \in inside(Summaries(s)) \cup inside(<<"session_raw", s.session>>)
                   \cup inside(<<"session", s.session>>) :
          Given(s, EncodeRecordReference(s.primary, r.collection, r.id), r)
    BY <1>2 DEF Grep
  <2>2. /\ r \in Records /\ r.tenant = s.primary
        /\ r.collection \in {Summaries(s), <<"session_raw", s.session>>, <<"session", s.session>>}
    BY <2>1 DEF Matching, SearchRequest
  <2>3. r.collection # Memory
    BY <2>2 DEF Summaries, Memory
  <2>4. Leads(s, EncodeRecordReference(s.primary, r.collection, r.id), r)
    BY <2>2, <2>3, TenantsAreNamed DEF Leads, EncodeRecordReference
  <2> QED
    BY <2>1, <2>4, GivenLeads
<1>3. ASSUME held[s] # NoReference
      PROVE  Leads(s, held[s].ref, held[s].of)
             /\ \A from \in Reached(s) : from.tenant = TenantReached(s, held[s].ref)
  BY <1>3 DEF ReferenceInv, Reached, RecordsOf
<1>4. CASE ExpandGraph(s)
  <2>1. PICK from \in Reached(s) : \E id \in CausesOf[from.id] : \E r \in RecordsOf(from.tenant, id) :
          Given(s, EdgeReference(held[s].ref, id), r)
    BY <1>4 DEF ExpandGraph
  <2>2. \E id : \E r \in RecordsOf(from.tenant, id) : Given(s, EdgeReference(held[s].ref, id), r)
    BY <2>1
  <2>3. held[s] # NoReference
    BY <1>4 DEF ExpandGraph
  <2> QED
    BY <1>3, <2>2, <2>3, EdgeLeads, GivenLeads
<1>5. CASE Describe(s)
  <2>1. /\ held[s] # NoReference
        /\ held[s].ref.tenant = NoTenant \/ held[s].ref.collection[1] = "session_summary"
    BY <1>5 DEF Describe
  <2>2. PICK from \in Reached(s) : \E id : \E r \in RecordsOf(from.tenant, id) :
          \/ Given(s, SummaryReference(held[s].ref, id), r)
          \/ Given(s, EdgeReference(held[s].ref, id), r)
    BY <1>5 DEF Describe
  <2> QED
    BY <1>3, <2>1, <2>2, SummaryLeads, EdgeLeads, GivenLeads
<1> QED
  BY <1>1, <1>2, <1>4, <1>5

LEMMA ReferenceStep == SearchInv /\ ReferenceInv /\ [ToolsNext]_toolVars => ReferenceInv'
<1> SUFFICES ASSUME SearchInv, ReferenceInv, [ToolsNext]_toolVars PROVE ReferenceInv'
  OBVIOUS
<1>1. ASSUME UNCHANGED <<paths, held>> PROVE ReferenceInv'
  BY <1>1 DEF ReferenceInv
<1>2. ASSUME NEW c \in SearchSlots, NEW s \in ToolScopes, NEW q \in SearchQueries, Ask(c, s, q)
      PROVE  ReferenceInv'
  BY <1>1, <1>2 DEF Ask
<1>3. ASSUME NEW c \in SearchSlots,
             \/ ClientFound(c) \/ ClientUnavailable(c) \/ RequestAnswered(c) \/ RequestFailed(c)
             \/ DreamsAnswered(c) \/ DreamsFailed(c) \/ NoneAnswered(c)
      PROVE  ReferenceInv'
  BY <1>1, <1>3 DEF ClientFound, ClientUnavailable, RequestAnswered, RequestFailed,
       DreamsAnswered, DreamsFailed, NoneAnswered, SearchFails
<1>4. ASSUME NEW c \in SearchSlots, SearchAnswered(c) PROVE ReferenceInv'
  BY <1>4, AnswerLeads
<1>5. ASSUME NEW s \in ToolScopes, GetAsked(s) \/ ManagerOpened(s) \/ ManagerRefused(s)
      PROVE  ReferenceInv'
  BY <1>1, <1>5 DEF GetAsked, ManagerOpened, ManagerRefused, SearchFails
<1>6. ASSUME NEW s \in ToolScopes, SummarySeen(s) \/ Grep(s) \/ ExpandGraph(s) \/ Describe(s)
      PROVE  ReferenceInv'
  BY <1>6, GraphLeads
<1>7. CASE ToolTimePasses
  BY <1>1, <1>7 DEF ToolTimePasses
<1>8. CASE UNCHANGED toolVars
  BY <1>1, <1>8 DEF toolVars
<1> QED
  BY <1>2, <1>3, <1>4, <1>5, <1>6, <1>7, <1>8 DEF ToolsNext

LEMMA ReferenceInit == ToolsInit => ReferenceInv
BY DEF ToolsInit, ReferenceInv

(* ReferencesReachTheirRecord of MemoryTools, for any tenants, records and *)
(* edges: what the agent is given by a search, a grep or a walk along the  *)
(* graph leads back to the record it stands for and to no other tenant's.  *)
THEOREM ReferencesAreTrue == ToolsSpec => []ReferencesReachTheirRecord
<1>1. ReferenceInv => ReferencesReachTheirRecord
  <2> SUFFICES ASSUME ReferenceInv, NEW s \in ToolScopes, held[s] # NoReference
               PROVE  /\ RecordReached(s, held[s].ref) = <<held[s].of.tenant, held[s].of.id>>
                      /\ held[s].of.labelled => Excerpt(s, held[s].ref) \subseteq {held[s].of}
    BY DEF ReferencesReachTheirRecord
  <2>1. Leads(s, held[s].ref, held[s].of) /\ paths[s] \subseteq Returned(s)
    BY DEF ReferenceInv
  <2>2. RecordReached(s, held[s].ref) = <<held[s].of.tenant, held[s].of.id>>
    BY <2>1, LeadsToItsTenant DEF RecordReached, Leads
  <2>3. ASSUME held[s].of.labelled, NEW p \in paths[s], p.path = held[s].ref
        PROVE  p.of = held[s].of
    <3>1. PICK h \in FoundIn(s) : p = [path |-> SearchResultPath(h), of |-> h.of]
      BY <2>1 DEF Returned
    <3>2. SearchResultPath(h) = held[s].ref /\ p.of = h.of
      BY <2>3, <3>1
    <3> QED
      BY <2>1, <2>3, <3>2, ExcerptIsTheRecords
  <2> QED
    BY <2>2, <2>3 DEF Excerpt
<1> QED
  BY SearchInit, SearchStep, ReferenceInit, ReferenceStep, <1>1, PTL DEF ToolsSpec

-----------------------------------------------------------------------------
(***************************************************************************)
(* What a search drops, it drops for k others at least as good: that holds *)
(* of each request's best, of the merged hits and of the answer.  A hit of *)
(* a labelled record is never taken for another record's.                  *)
(***************************************************************************)

Outranked(r, among, k) ==
  \E some \in SUBSET (among \ {r}) :
    IsFiniteSet(some) /\ Cardinality(some) >= k /\ \A o \in some : o.score >= r.score

Reach(requests) == UNION {Matching(request) : request \in requests}

(* What is asked is of the corpus that is asked about. *)
Fits(request, q) ==
  \A collection \in request.collections :
    q.corpus \in {"all", IF collection[1] = "session" THEN "sessions" ELSE "memory"}

Ranked(x) ==
  /\ \A h \in x.found \cup x.dreams : h.of \in Reach(x.reached)
  /\ \A r \in Reach(x.reached) : r.labelled =>
       \/ Stamped(r.tenant, r) \in x.found \cup x.dreams
       \/ Outranked(r, Reach(x.reached), x.query.k)
  /\ \A request \in x.reached : Fits(request, x.query)
  /\ \A i \in DOMAIN x.todo : Fits(x.todo[i], x.query)
  /\ x.dream = "asked" => Fits(DreamRequest(x.scope), x.query) /\ x.dreams = {}

AnsweredBest(x) ==
  \A r \in Reach(x.reached) : r.labelled /\ r.score >= x.query.least =>
    \/ r \in x.shown
    \/ Cardinality({o \in Reach(x.reached) \ {r} : o.score >= r.score}) >= x.query.k

RankInv ==
  \A c \in SearchSlots :
    /\ search[c].at = "asking" => Ranked(search[c])
    /\ search[c].at = "answered" => AnsweredBest(search[c])

LEMMA QueryNumbers ==
  ASSUME NEW q \in SearchQueries
  PROVE  q.k \in Nat /\ q.least \in Int /\ q.corpus \in {"all", "memory", "sessions"}
BY ToolAssumption

LEMMA RecordsAreFinite == IsFiniteSet(Records) /\ \A r \in Records : r.score \in Int
BY ToolAssumption

LEMMA BestOutranks ==
  ASSUME NEW hits, IsFiniteSet(hits), NEW k \in Nat, NEW some \in Best(k, hits),
         NEW x \in hits \ some
  PROVE  /\ IsFiniteSet(some) /\ Cardinality(some) = k
         /\ \A h \in some : h.score >= x.score
<1>1. /\ some \subseteq hits
      /\ Cardinality(some) = IF Cardinality(hits) < k THEN Cardinality(hits) ELSE k
      /\ \A h \in some, other \in hits \ some : h.score >= other.score
  BY DEF Best, kSubset
<1>2. IsFiniteSet(some) /\ Cardinality(some) # Cardinality(hits)
  BY <1>1, FS_Subset
<1> QED
  BY <1>1, <1>2

LEMMA FoundAreFinite ==
  ASSUME NEW s
  PROVE  IsFiniteSet(FoundIn(s))
<1> DEFINE from == {r \in Records : r.tenant \in Access(s) /\ r.collection \in Searched(s)}
           stamp == [r \in from |-> Stamped(r.tenant, r)]
<1>1. IsFiniteSet(from)
  BY RecordsAreFinite, FS_Subset
<1>2. FoundIn(s) = {Stamped(r.tenant, r) : r \in from}
  BY DEF FoundIn
<1> HIDE DEF from
<1>3. stamp \in Surjection(from, FoundIn(s))
  BY <1>2 DEF Surjection
<1> QED
  BY <1>1, <1>3, FS_Surjection

LEMMA ScoresAreNumbers ==
  ASSUME NEW s, NEW h \in FoundIn(s)
  PROVE  h.score \in Int /\ h.score = h.of.score
BY FoundAreRecords, RecordsAreFinite

(* Two hits of one key, one of them of a labelled record, are one. *)
LEMMA LabelledIsNew ==
  ASSUME NEW s, NEW h \in FoundIn(s), h.of.labelled, NEW f \in FoundIn(s),
         SearchResultKey(f) = SearchResultKey(h)
  PROVE  f = h
<1>1. f.tenant = h.tenant /\ f.collection = h.collection /\ f.id = h.id
  BY DEF SearchResultKey
<1>2. /\ h.of \in Records /\ h.of.collection \in Searched(s)
      /\ h.tenant = h.of.tenant /\ h.id = h.of.id
      /\ h.collection = h.of.collection /\ h = Stamped(h.of.tenant, h.of)
  BY FoundAreRecords
<1>3. /\ f.of \in Records
      /\ f.tenant = f.of.tenant /\ f.id = f.of.id
      /\ f.collection = IF f.of.labelled THEN f.of.collection ELSE Memory
      /\ f = Stamped(f.of.tenant, f.of)
  BY FoundAreRecords
<1>4. f.of.labelled
  BY <1>1, <1>2, <1>3, KindsDiffer
<1>5. f.of = h.of
  BY <1>1, <1>2, <1>3, <1>4, RecordsAreTold
<1> QED
  BY <1>2, <1>3, <1>5

LEMMA LabelledIsAdded ==
  ASSUME NEW s, NEW found \in SUBSET FoundIn(s), NEW hits \in SUBSET FoundIn(s),
         NEW h \in hits, h.of.labelled
  PROVE  h \in FoundAdded(found, hits)
BY LabelledIsNew DEF FoundAdded

(* As many records as hits. *)
LEMMA HitsOutrank ==
  ASSUME NEW s, NEW hits \in SUBSET FoundIn(s), NEW among \in SUBSET Records,
         \A h \in hits : h.of \in among, NEW k \in Nat, Cardinality(hits) = k,
         NEW r \in Records, Stamped(r.tenant, r) \notin hits,
         \A h \in hits : h.score >= r.score
  PROVE  Outranked(r, among, k)
<1> DEFINE some == {h.of : h \in hits}
           record == [h \in hits |-> h.of]
<1>1. some \subseteq among /\ IsFiniteSet(some)
  BY RecordsAreFinite, FS_Subset
<1>2. \A h \in hits : h = Stamped(h.of.tenant, h.of) /\ h.score = h.of.score
  BY FoundAreRecords
<1>3. record \in Injection(hits, some)
  BY <1>2 DEF Injection, IsInjective
<1>4. Cardinality(some) >= k
  <2>1. Cardinality(some) \in Nat /\ Cardinality(hits) <= Cardinality(some)
    BY <1>1, <1>3, FS_Injection, FS_CardinalityType
  <2> QED
    BY <2>1
<1>5. r \notin some
  BY <1>2
<1>6. \A o \in some : o.score >= r.score
  BY <1>2
<1> QED
  BY <1>1, <1>4, <1>5, <1>6 DEF Outranked

LEMMA OutrankedInMore ==
  ASSUME NEW r, NEW among, NEW more, among \subseteq more, NEW k, Outranked(r, among, k)
  PROVE  Outranked(r, more, k)
BY DEF Outranked

(* One request's answer, merged with what was found before. *)
LEMMA ReachedAreRecords ==
  ASSUME NEW requests
  PROVE  Reach(requests) \subseteq Records
BY DEF Reach, Matching

LEMMA AnswerRanks ==
  ASSUME NEW k \in Nat, NEW request, NEW some \in Best(k, Matching(request)),
         NEW r \in Matching(request) \ some
  PROVE  Outranked(r, Matching(request), k)
<1>1. IsFiniteSet(Matching(request))
  BY RecordsAreFinite, FS_Subset DEF Matching
<1>2. IsFiniteSet(some) /\ Cardinality(some) = k /\ \A o \in some : o.score >= r.score
  BY <1>1, BestOutranks
<1>3. some \in SUBSET (Matching(request) \ {r})
  BY BestAreSome
<1> QED
  BY <1>2, <1>3 DEF Outranked

LEMMA MatchIsStamped ==
  ASSUME NEW request, NEW r \in Matching(request)
  PROVE  r.tenant = request.tenant /\ r \in Records /\ Stamped(request.tenant, r).of = r
BY DEF Matching, Stamped

LEMMA AnswerKeepsRank ==
  ASSUME SearchInv, NEW c \in SearchSlots, RequestAnswered(c), Ranked(search[c])
  PROVE  \E x : Ranked(x) /\ x.at = "asking" /\ search' = [search EXCEPT ![c] = x]
<1> DEFINE s == search[c].scope
           old == search[c]
<1>1. PICK request \in RequestsTo(s), x \in Asking(s) :
        \E some \in Best(old.query.k, Matching(request)) :
          /\ s \in ToolScopes /\ old \in Asking(s)
          /\ search' = [search EXCEPT ![c] = x]
          /\ request = Head(old.todo)
          /\ x.found = FoundAdded(old.found, {Stamped(request.tenant, r) : r \in some})
          /\ x.dreams = old.dreams /\ x.reached = old.reached \cup {request}
          /\ x.todo = Tail(old.todo) /\ x.dream = old.dream
          /\ x.at = "asking" /\ x.scope = s /\ x.query = old.query
  BY AnswerIsTaken
<1>2. PICK some \in Best(old.query.k, Matching(request)) :
          /\ s \in ToolScopes /\ old \in Asking(s)
          /\ search' = [search EXCEPT ![c] = x]
          /\ request = Head(old.todo)
          /\ x.found = FoundAdded(old.found, {Stamped(request.tenant, r) : r \in some})
          /\ x.dreams = old.dreams /\ x.reached = old.reached \cup {request}
          /\ x.todo = Tail(old.todo) /\ x.dream = old.dream
          /\ x.at = "asking" /\ x.scope = s /\ x.query = old.query
  BY <1>1
<1> DEFINE new == {Stamped(request.tenant, r) : r \in some}
<1>3. /\ old.query \in SearchQueries /\ old.todo \in Seq(RequestsTo(s)) /\ old.todo # << >>
      /\ old.found \subseteq FoundIn(s)
  BY <1>2 DEF Asking, RequestAnswered, Requesting
<1>4. some \subseteq Matching(request) /\ new \subseteq FoundIn(s)
  BY BestAreSome, MatchesAreStamped
<1>5. Reach(x.reached) = Reach(old.reached) \cup Matching(request)
  BY <1>2 DEF Reach
<1>6. x.found = FoundAdded(old.found, new) /\ x.found \subseteq old.found \cup new
      /\ old.found \subseteq x.found
  BY <1>2, AddedAreFound
<1>7. \A h \in new : h.of \in Matching(request)
  BY <1>4, MatchIsStamped
<1> HIDE DEF old, new
<1>8. \A h \in x.found \cup x.dreams : h.of \in Reach(x.reached)
  BY <1>2, <1>5, <1>6, <1>7 DEF Ranked, old
<1>9. ASSUME NEW r \in Reach(x.reached), r.labelled
      PROVE  Stamped(r.tenant, r) \in x.found \cup x.dreams
             \/ Outranked(r, Reach(x.reached), x.query.k)
  <2>1. CASE r \in Reach(old.reached)
    <3>1. Stamped(r.tenant, r) \in old.found \cup old.dreams
          \/ Outranked(r, Reach(old.reached), old.query.k)
      BY <1>9, <2>1 DEF Ranked, old
    <3> QED
      BY <3>1, <1>2, <1>5, <1>6, OutrankedInMore
  <2>2. CASE r \in Matching(request) \ some
    <3>1. Outranked(r, Matching(request), old.query.k)
      BY <1>3, <2>2, QueryNumbers, AnswerRanks
    <3> QED
      BY <3>1, <1>2, <1>5, OutrankedInMore
  <2>3. CASE r \in some
    <3>1. Stamped(r.tenant, r) \in new /\ Stamped(r.tenant, r).of = r
      BY <1>4, <2>3, MatchIsStamped DEF new
    <3>2. Stamped(r.tenant, r) \in x.found
      BY <1>3, <1>4, <1>6, <1>9, <3>1, LabelledIsAdded
    <3> QED
      BY <3>2
  <2> QED
    BY <1>5, <2>1, <2>2, <2>3
<1>10. \A i \in DOMAIN x.todo : Fits(x.todo[i], x.query)
  <2> DEFINE n == Len(old.todo)
  <2>1. /\ n \in Nat /\ DOMAIN old.todo = 1..n /\ DOMAIN Tail(old.todo) = 1..(n - 1)
        /\ \A i \in 1..(n - 1) : Tail(old.todo)[i] = old.todo[i + 1] /\ i + 1 \in 1..n
    BY <1>3
  <2> HIDE DEF n
  <2> QED
    BY <2>1, <1>2 DEF Ranked, old
<1>11. \A asked \in x.reached : Fits(asked, x.query)
  <2>1. request = old.todo[1] /\ 1 \in DOMAIN old.todo
    BY <1>2, <1>3
  <2> QED
    BY <2>1, <1>2 DEF Ranked, old
<1>12. x.dream = "asked" => Fits(DreamRequest(x.scope), x.query) /\ x.dreams = {}
  BY <1>2 DEF Ranked, old
<1> QED
  BY <1>2, <1>8, <1>9, <1>10, <1>11, <1>12 DEF Ranked, old

LEMMA DreamsKeepRank ==
  ASSUME SearchInv, NEW c \in SearchSlots, DreamsAnswered(c), Ranked(search[c])
  PROVE  \E x : Ranked(x) /\ x.at = "asking" /\ search' = [search EXCEPT ![c] = x]
<1> DEFINE s == search[c].scope
           old == search[c]
           request == DreamRequest(s)
<1>1. PICK x \in Asking(s) :
        \E some \in Best(old.query.k, Matching(request)) :
          /\ s \in ToolScopes /\ old \in Asking(s) /\ request \in RequestsTo(s)
          /\ search' = [search EXCEPT ![c] = x]
          /\ x.found = old.found /\ x.dreams = {Stamped(s.primary, r) : r \in some}
          /\ x.reached = old.reached \cup {request}
          /\ x.todo = old.todo /\ x.dream = "found"
          /\ x.at = "asking" /\ x.scope = s /\ x.query = old.query
  BY DreamsAreTaken
<1>2. PICK some \in Best(old.query.k, Matching(request)) :
          /\ s \in ToolScopes /\ old \in Asking(s) /\ request \in RequestsTo(s)
          /\ search' = [search EXCEPT ![c] = x]
          /\ x.found = old.found /\ x.dreams = {Stamped(s.primary, r) : r \in some}
          /\ x.reached = old.reached \cup {request}
          /\ x.todo = old.todo /\ x.dream = "found"
          /\ x.at = "asking" /\ x.scope = s /\ x.query = old.query
  BY <1>1
<1>3. old.query \in SearchQueries /\ old.dream = "asked" /\ request.tenant = s.primary
  BY <1>2 DEF Asking, DreamsAnswered, DreamRequest, SearchRequest
<1>4. some \subseteq Matching(request)
  BY BestAreSome
<1>5. Reach(x.reached) = Reach(old.reached) \cup Matching(request)
  BY <1>2 DEF Reach
<1>6. \A r \in some : Stamped(s.primary, r).of = r /\ r.tenant = s.primary
  BY <1>3, <1>4, MatchIsStamped
<1>7. old.dreams = {} /\ Fits(request, old.query)
  BY <1>3 DEF Ranked
<1> HIDE DEF old, request
<1>8. \A h \in x.found \cup x.dreams : h.of \in Reach(x.reached)
  <2>1. \A h \in x.found : h.of \in Reach(x.reached)
    BY <1>2, <1>5 DEF Ranked, old
  <2>2. ASSUME NEW h \in x.dreams PROVE h.of \in Reach(x.reached)
    <3>1. PICK r \in some : h = Stamped(s.primary, r)
      BY <1>2, <2>2
    <3> QED
      BY <1>4, <1>5, <1>6, <3>1
  <2> QED
    BY <2>1, <2>2
<1>9. ASSUME NEW r \in Reach(x.reached), r.labelled
      PROVE  Stamped(r.tenant, r) \in x.found \cup x.dreams
             \/ Outranked(r, Reach(x.reached), x.query.k)
  <2>1. CASE r \in Reach(old.reached)
    <3>1. Stamped(r.tenant, r) \in old.found \cup old.dreams
          \/ Outranked(r, Reach(old.reached), old.query.k)
      BY <1>9, <2>1 DEF Ranked, old
    <3> QED
      BY <3>1, <1>2, <1>5, <1>7, OutrankedInMore
  <2>2. CASE r \in Matching(request) \ some
    <3>1. Outranked(r, Matching(request), old.query.k)
      BY <1>3, <2>2, QueryNumbers, AnswerRanks
    <3> QED
      BY <3>1, <1>2, <1>5, OutrankedInMore
  <2>3. CASE r \in some
    BY <1>2, <1>6, <2>3
  <2> QED
    BY <1>5, <2>1, <2>2, <2>3
<1>10. \A i \in DOMAIN x.todo : Fits(x.todo[i], x.query)
  BY <1>2 DEF Ranked, old
<1>11. \A asked \in x.reached : Fits(asked, x.query)
  BY <1>2, <1>7 DEF Ranked, old
<1> QED
  BY <1>2, <1>8, <1>9, <1>10, <1>11 DEF Ranked, old

LEMMA RequestsFit ==
  ASSUME NEW s \in ToolScopes, NEW q \in SearchQueries
  PROVE  /\ \A i \in DOMAIN RequestsOf(s, q) : Fits(RequestsOf(s, q)[i], q)
         /\ DreamCollection(q) => Fits(DreamRequest(s), q)
<1>1. q.corpus \in {"all", "memory", "sessions"}
  BY QueryNumbers
<1>2. \A t : Fits(SearchRequest(t, SearchCollections(s, q)), q)
  <2>1. \A collection \in SearchCollections(s, q) :
          q.corpus \in {"all", IF collection[1] = "session" THEN "sessions" ELSE "memory"}
    BY <1>1 DEF SearchCollections
  <2> QED
    BY <2>1 DEF Fits, SearchRequest
<1>3. \A i \in DOMAIN RequestsOf(s, q) : \E t : RequestsOf(s, q)[i] = SearchRequest(t, SearchCollections(s, q))
  BY DEF RequestsOf
<1>4. DreamCollection(q) => Fits(DreamRequest(s), q)
  BY <1>1 DEF DreamCollection, DreamRequest, SearchRequest, Fits
<1> QED
  BY <1>2, <1>3, <1>4

LEMMA ClientRanks ==
  ASSUME SearchInv, NEW c \in SearchSlots, ClientFound(c)
  PROVE  \E x : Ranked(x) /\ x.at = "asking" /\ search' = [search EXCEPT ![c] = x]
<1> DEFINE s == search[c].scope
           q == search[c].query
           todo == RequestsOf(s, q)
           ok == RequestsOf(s, q) = << >>
           dream == IF DreamCollection(q) THEN "asked" ELSE "none"
           x == [at |-> "asking", scope |-> s, query |-> q, todo |-> todo, found |-> {},
                 ok |-> ok, dream |-> dream, dreams |-> {}, reached |-> {}]
<1>1. search' = [search EXCEPT ![c] = x] /\ search[c].at = "manager"
  BY DEF ClientFound
<1>2. s \in ToolScopes /\ q \in SearchQueries
  BY <1>1, SearchAt DEF Waiting
<1>3. (\A i \in DOMAIN todo : Fits(todo[i], q)) /\ (dream = "asked" => Fits(DreamRequest(s), q))
  BY <1>2, RequestsFit
<1> HIDE DEF todo, dream, ok, s, q
<1>4. Ranked(x)
  BY <1>3 DEF Ranked, Reach
<1> QED
  BY <1>1, <1>4

LEMMA FailureKeepsRank ==
  ASSUME SearchInv, NEW c \in SearchSlots, RequestFailed(c), Ranked(search[c])
  PROVE  \E x : Ranked(x) /\ x.at = "asking" /\ search' = [search EXCEPT ![c] = x]
<1> DEFINE old == search[c]
           rest == Tail(old.todo)
           x == [old EXCEPT !.todo = rest]
           n == Len(old.todo)
<1>1. search' = [search EXCEPT ![c] = x]
  BY DEF RequestFailed
<1>2. old \in Asking(old.scope) /\ old.todo # << >>
  BY SearchAt DEF RequestFailed, Requesting
<1>3. /\ n \in Nat /\ DOMAIN old.todo = 1..n /\ DOMAIN rest = 1..(n - 1)
      /\ \A i \in 1..(n - 1) : rest[i] = old.todo[i + 1] /\ i + 1 \in 1..n
  <2>1. old.todo \in Seq(RequestsTo(old.scope))
    BY <1>2 DEF Asking
  <2> QED
    BY <2>1, <1>2
<1> HIDE DEF n, rest
<1>4. /\ x.at = "asking" /\ x.query = old.query /\ x.todo = rest /\ x.found = old.found
      /\ x.dreams = old.dreams /\ x.dream = old.dream /\ x.reached = old.reached
      /\ x.scope = old.scope
  BY <1>2 DEF Asking
<1>5. \A i \in DOMAIN rest : Fits(rest[i], old.query)
  BY <1>3 DEF Ranked
<1> HIDE DEF x
<1>6. Ranked(x)
  BY <1>4, <1>5 DEF Ranked
<1> QED
  BY <1>1, <1>4, <1>6

(* What was not shown was cut for k others, at the first cut or the last. *)
LEMMA AnswerSettles ==
  ASSUME SearchInv, NEW c \in SearchSlots, SearchAnswered(c), Ranked(search[c])
  PROVE  \E x : AnsweredBest(x) /\ x.at = "answered" /\ search' = [search EXCEPT ![c] = x]
<1> DEFINE s == search[c].scope
           q == search[c].query
           old == search[c]
           all == Reach(old.reached)
           shown(merged) == {h.of : h \in {h \in {h \in merged : h.score >= q.least} :
                                              q.corpus \in {"all", SourceOf(h)}}}
           x(merged) == [at |-> "answered", scope |-> s, query |-> q, reached |-> old.reached,
                         shown |-> shown(merged)]
<1>1. \E top \in Best(q.k, old.found) :
        \E merged \in Best(q.k, FoundAdded(top, old.dreams)) :
          search' = [search EXCEPT ![c] = x(merged)]
  BY DEF SearchAnswered
<1>2. PICK top \in Best(q.k, old.found) :
        \E merged \in Best(q.k, FoundAdded(top, old.dreams)) :
          search' = [search EXCEPT ![c] = x(merged)]
  BY <1>1
<1>3. PICK merged \in Best(q.k, FoundAdded(top, old.dreams)) :
        search' = [search EXCEPT ![c] = x(merged)]
  BY <1>2
<1>4. /\ s \in ToolScopes /\ old \in Asking(s) /\ top \subseteq old.found
      /\ merged \subseteq FoundAdded(top, old.dreams) /\ merged \subseteq FoundIn(s)
  BY MergedAreFound DEF SearchAnswered
<1>5. /\ old.found \subseteq FoundIn(s) /\ old.dreams \subseteq FoundIn(s)
      /\ q.k \in Nat /\ q.least \in Int
  BY <1>4, QueryNumbers DEF Asking
<1>6. all \subseteq Records /\ \A r \in Records : r.score \in Int
  BY ReachedAreRecords, RecordsAreFinite
<1>7. \A h \in old.found \cup old.dreams : h.of \in all /\ h.score = h.of.score
  BY <1>5, ScoresAreNumbers DEF Ranked
<1>8. FoundAdded(top, old.dreams) \subseteq old.found \cup old.dreams
      /\ top \subseteq FoundAdded(top, old.dreams)
  BY <1>4, AddedAreFound
<1>9. x(merged).at = "answered" /\ x(merged).query = q /\ x(merged).reached = old.reached
      /\ x(merged).shown = shown(merged)
  OBVIOUS
<1> HIDE DEF old, q, s, all
<1>10. ASSUME NEW r \in all, r.labelled, r.score >= q.least
       PROVE  r \in shown(merged) \/ Outranked(r, all, q.k)
  <2> DEFINE h == Stamped(r.tenant, r)
             hits == FoundAdded(top, old.dreams)
  <2>1. h.of = r /\ h.score = r.score /\ h.collection = r.collection
    BY <1>10 DEF Stamped
  <2>2. h \in old.found \cup old.dreams \/ Outranked(r, all, q.k)
    BY <1>10 DEF Ranked, old, q, all
  <2> HIDE DEF h
  <2>3. hits \in SUBSET FoundIn(s) /\ IsFiniteSet(hits) /\ IsFiniteSet(old.found)
    BY <1>5, <1>8, FoundAreFinite, FS_Subset
  <2>4. CASE h \in old.found \ top
    <3>1. Cardinality(top) = q.k /\ \A o \in top : o.score >= h.score
      BY <1>5, <2>3, <2>4, BestOutranks
    <3>2. top \in SUBSET FoundIn(s) /\ \A o \in top : o.of \in all
      BY <1>4, <1>5, <1>7
    <3> QED
      BY <1>5, <1>6, <2>1, <2>4, <3>1, <3>2, HitsOutrank DEF h
  <2>5. CASE h \in top \cup old.dreams
    <3>1. h \in hits
      BY <1>4, <1>5, <1>8, <1>10, <2>1, <2>5, LabelledIsAdded
    <3>2. CASE h \notin merged
      <4>1. Cardinality(merged) = q.k /\ \A o \in merged : o.score >= h.score
        BY <1>5, <2>3, <3>1, <3>2, BestOutranks
      <4>2. \A o \in merged : o.of \in all
        BY <1>4, <1>7, <1>8
      <4> QED
        BY <1>4, <1>5, <1>6, <2>1, <3>2, <4>1, <4>2, HitsOutrank DEF h
    <3>3. CASE h \in merged
      <4>1. q.corpus \in {"all", SourceOf(h)}
        <5>1. PICK request \in old.reached : r \in Matching(request)
          BY <1>10 DEF all, Reach
        <5>2. r.collection \in request.collections /\ Fits(request, q)
          BY <5>1 DEF Matching, Ranked, old, q
        <5> QED
          BY <2>1, <5>2 DEF Fits, SourceOf
      <4> QED
        BY <1>10, <2>1, <3>3, <4>1
    <3> QED
      BY <3>2, <3>3
  <2> QED
    BY <2>2, <2>4, <2>5
<1>11. ASSUME NEW r \in all, Outranked(r, all, q.k)
       PROVE  Cardinality({o \in all \ {r} : o.score >= r.score}) >= q.k
  <2>1. PICK some \in SUBSET (all \ {r}) :
          IsFiniteSet(some) /\ Cardinality(some) >= q.k /\ \A o \in some : o.score >= r.score
    BY <1>11 DEF Outranked
  <2> DEFINE better == {o \in all \ {r} : o.score >= r.score}
  <2>2. some \in SUBSET better /\ IsFiniteSet(better)
    BY <1>6, <2>1, RecordsAreFinite, FS_Subset
  <2>3. Cardinality(some) \in Nat /\ Cardinality(better) \in Nat
        /\ Cardinality(some) <= Cardinality(better)
    BY <2>1, <2>2, FS_Subset, FS_CardinalityType
  <2> HIDE DEF better
  <2>4. Cardinality(better) >= q.k
    BY <1>5, <2>1, <2>3
  <2> QED
    BY <2>4 DEF better
<1> HIDE DEF shown, x
<1>12. AnsweredBest(x(merged))
  BY <1>9, <1>10, <1>11 DEF AnsweredBest, all
<1> QED
  BY <1>3, <1>9, <1>12

LEMMA SlotRanks ==
  ASSUME SearchInv, RankInv, NEW c \in SearchSlots, NEW x, search' = [search EXCEPT ![c] = x],
         x.at = "asking" => Ranked(x), x.at = "answered" => AnsweredBest(x)
  PROVE  RankInv'
<1>1. \A d \in SearchSlots : search'[d] = IF d = c THEN x ELSE search[d]
  BY DEF SearchInv
<1> SUFFICES ASSUME NEW d \in SearchSlots
             PROVE  /\ search'[d].at = "asking" => Ranked(search'[d])
                    /\ search'[d].at = "answered" => AnsweredBest(search'[d])
  BY DEF RankInv, Ranked, AnsweredBest
<1>2. CASE d = c
  BY <1>1, <1>2
<1>3. CASE d # c
  BY <1>1, <1>3 DEF RankInv
<1> QED
  BY <1>2, <1>3

LEMMA FailingKeepsRanks ==
  ASSUME RankInv, NEW failed, SearchFails(failed)
  PROVE  RankInv'
<1>1. \A d \in SearchSlots : search'[d] = IF d \in failed THEN NoSearch ELSE search[d]
  BY DEF SearchFails
<1> SUFFICES ASSUME NEW d \in SearchSlots
             PROVE  /\ search'[d].at = "asking" => Ranked(search'[d])
                    /\ search'[d].at = "answered" => AnsweredBest(search'[d])
  BY DEF RankInv, Ranked, AnsweredBest
<1>2. CASE d \in failed
  BY <1>1, <1>2 DEF NoSearch
<1>3. CASE d \notin failed
  BY <1>1, <1>3 DEF RankInv
<1> QED
  BY <1>2, <1>3

LEMMA RankStep == SearchInv /\ RankInv /\ [ToolsNext]_toolVars => RankInv'
<1> SUFFICES ASSUME SearchInv, RankInv, [ToolsNext]_toolVars PROVE RankInv'
  OBVIOUS
<1>1. ASSUME NEW c \in SearchSlots, NEW s \in ToolScopes, NEW q \in SearchQueries, Ask(c, s, q)
      PROVE  RankInv'
  <2>1. \E x : x.at = "manager" /\ search' = [search EXCEPT ![c] = x]
    BY <1>1 DEF Ask
  <2> QED
    BY <2>1, SlotRanks
<1>2. ASSUME NEW c \in SearchSlots, ClientFound(c) PROVE RankInv'
  BY <1>2, ClientRanks, SlotRanks
<1>3. ASSUME NEW c \in SearchSlots, ClientUnavailable(c) \/ DreamsFailed(c) \/ NoneAnswered(c)
      PROVE  RankInv'
  BY <1>3, FailingKeepsRanks DEF ClientUnavailable, DreamsFailed, NoneAnswered
<1>4. ASSUME NEW c \in SearchSlots,
             RequestAnswered(c) \/ RequestFailed(c) \/ DreamsAnswered(c) \/ SearchAnswered(c)
      PROVE  RankInv'
  <2>1. Ranked(search[c])
    BY <1>4 DEF RankInv, RequestAnswered, RequestFailed, DreamsAnswered, SearchAnswered, Requesting
  <2>2. CASE RequestAnswered(c)
    BY <2>1, <2>2, AnswerKeepsRank, SlotRanks
  <2>3. CASE RequestFailed(c)
    BY <2>1, <2>3, FailureKeepsRank, SlotRanks
  <2>4. CASE DreamsAnswered(c)
    BY <2>1, <2>4, DreamsKeepRank, SlotRanks
  <2>5. CASE SearchAnswered(c)
    BY <2>1, <2>5, AnswerSettles, SlotRanks
  <2> QED
    BY <1>4, <2>2, <2>3, <2>4, <2>5
<1>5. ASSUME UNCHANGED search PROVE RankInv'
  BY <1>5 DEF RankInv, Ranked, AnsweredBest
<1>6. ASSUME NEW s \in ToolScopes, ManagerRefused(s) PROVE RankInv'
  BY <1>6, FailingKeepsRanks DEF ManagerRefused
<1>7. ASSUME NEW s \in ToolScopes,
              \/ GetAsked(s) \/ ManagerOpened(s) \/ SummarySeen(s) \/ Grep(s)
              \/ ExpandGraph(s) \/ Describe(s)
       PROVE  RankInv'
  BY <1>5, <1>7 DEF GetAsked, ManagerOpened, SummarySeen, Grep, ExpandGraph, Describe, Given
<1>8. CASE ToolTimePasses
  BY <1>5, <1>8 DEF ToolTimePasses
<1>9. CASE UNCHANGED toolVars
  BY <1>5, <1>9 DEF toolVars
<1> QED
  BY <1>1, <1>2, <1>3, <1>4, <1>6, <1>7, <1>8, <1>9 DEF ToolsNext

LEMMA RankInit == ToolsInit => RankInv
BY DEF ToolsInit, RankInv, NoSearch

(* BestAreAnswered of MemoryTools, for any records, tenants and k: merging *)
(* the tenants' hits and cutting them loses a record only to k others at   *)
(* least as good (searchTextCollections and the search of                  *)
(* src/memory-runtime.ts).                                                 *)
THEOREM TheBestAreAnswered == ToolsSpec => []BestAreAnswered
<1>1. RankInv => BestAreAnswered
  BY DEF RankInv, AnsweredBest, Reach, BestAreAnswered
<1> QED
  BY SearchInit, SearchStep, RankInit, RankStep, <1>1, PTL DEF ToolsSpec
-----------------------------------------------------------------------------
(***************************************************************************)
(* ContextBudget, for any transcripts, budgets and sizes.                  *)
(*                                                                         *)
(* What a cut leaves costs no more than it was given: by induction over    *)
(* the messages, since a cost is a sum (TotalOfMore).  The budget          *)
(* invariants of the code then leave a prompt that fits, or one that lost  *)
(* its messages or its context (Enforced), and the last step mends both:   *)
(* a user message makes room for itself, and a projection without its      *)
(* context is replaced.  A cut at turn boundaries leaves a suffix of the   *)
(* transcript that holds the newest turn (HoldsTurn).                      *)
(***************************************************************************)

(* A nonempty set of naturals has a least member. *)
LEMMA LeastExists ==
  ASSUME NEW T \in SUBSET Nat, T # {}
  PROVE  \E n \in T : \A m \in T : n <= m
<1>1. PICK n \in T : \A m \in T : ~ (<<m, n>> \in OpToRel(<, Nat))
  BY WFMin, NatLessThanWellFounded
<1>2. \A m \in T : ~ (m < n)
  BY <1>1 DEF OpToRel
<1>3. \A m \in T : m \in Nat /\ n \in Nat
  OBVIOUS
<1>4. \A m \in T : n <= m
  BY <1>2, <1>3
<1> QED
  BY <1>4

(* A nonempty set of places has a last and a first one. *)
LEMMA LastPlace ==
  ASSUME NEW k \in Nat, NEW S \in SUBSET (1..k), S # {}
  PROVE  Max(S) \in S /\ \A i \in S : i <= Max(S)
<1> DEFINE D == {k - i : i \in S}
<1>1. D \in SUBSET Nat /\ D # {}
  <2>1. \A i \in 1..k : k - i \in Nat
    OBVIOUS
  <2>2. PICK i : i \in S
    OBVIOUS
  <2>3. k - i \in D
    BY <2>2
  <2>4. \A j \in S : k - j \in Nat
    BY <2>1
  <2> QED
    BY <2>3, <2>4
<1>2. PICK d \in D : \A e \in D : d <= e
  BY <1>1, LeastExists
<1>3. PICK m \in S : d = k - m
  OBVIOUS
<1>4. \A i \in S : i <= m
  <2>1. \A i \in S : k - i \in D /\ i \in 1..k
    OBVIOUS
  <2>2. \A i \in S : k - m <= k - i
    BY <1>2, <1>3, <2>1
  <2>3. m \in 1..k
    OBVIOUS
  <2> QED
    BY <2>1, <2>2, <2>3
<1>5. \E x \in S : \A y \in S : x >= y
  <2>1. \A i \in S : i \in 1..k
    OBVIOUS
  <2> QED
    BY <1>4, <2>1
<1>6. Max(S) \in S /\ \A y \in S : Max(S) >= y
  BY <1>5 DEF Max
<1>7. \A i \in S : i \in 1..k
  OBVIOUS
<1> QED
  BY <1>6, <1>7

LEMMA LastFit ==
  ASSUME NEW k \in Nat, NEW S \in SUBSET (0..k), S # {}
  PROVE  \E x \in S : \A y \in S : x >= y
<1> DEFINE D == {i + 1 : i \in S}
<1>1. D \in SUBSET (1..(k + 1)) /\ D # {}
  <2>1. \A i \in 0..k : i + 1 \in 1..(k + 1)
    OBVIOUS
  <2> QED
    BY <2>1
<1>2. Max(D) \in D /\ \A i \in D : i <= Max(D)
  <2>1. k + 1 \in Nat
    OBVIOUS
  <2> QED
    BY <1>1, <2>1, LastPlace
<1>3. PICK x \in S : Max(D) = x + 1
  BY <1>2
<1>4. \A y \in S : y + 1 <= x + 1
  BY <1>2, <1>3
<1>5. \A y \in S : y \in 0..k /\ x \in 0..k
  OBVIOUS
<1> QED
  BY <1>4, <1>5

LEMMA FirstPlace ==
  ASSUME NEW k \in Nat, NEW S \in SUBSET (1..k), S # {}
  PROVE  Min(S) \in S /\ \A i \in S : Min(S) <= i
<1>1. \E x \in S : \A y \in S : x <= y
  <2>1. S \in SUBSET Nat
    OBVIOUS
  <2> QED
    BY <2>1, LeastExists
<1> QED
  BY <1>1 DEF Min

(* The equation of Sums, up to some number. *)
SumsTo(numbers, n, sum) ==
  /\ sum \in [0..n -> Nat]
  /\ \A i \in 0..n : sum[i] = IF i = 0 THEN 0 ELSE sum[i - 1] + numbers[i]

LEMMA SumsExist ==
  ASSUME NEW numbers \in Seq(Nat), NEW k \in 0..Len(numbers)
  PROVE  \E sum : SumsTo(numbers, k, sum)
<1> DEFINE T == {n \in 0..Len(numbers) : ~ \E sum : SumsTo(numbers, n, sum)}
<1>1. SUFFICES ASSUME T # {} PROVE FALSE
  OBVIOUS
<1>2. PICK n \in T : \A m \in T : n <= m
  <2>1. T \in SUBSET Nat
    OBVIOUS
  <2> QED
    BY <1>1, <2>1, LeastExists
<1>3. CASE n = 0
  <2>1. SumsTo(numbers, 0, [i \in 0..0 |-> 0])
    BY DEF SumsTo
  <2> QED
    BY <1>2, <1>3, <2>1
<1>4. CASE n # 0
  <2>1. n \in 1..Len(numbers) /\ n - 1 \in 0..Len(numbers) /\ n - 1 \notin T
    BY <1>2, <1>4
  <2>2. PICK f : SumsTo(numbers, n - 1, f)
    BY <2>1
  <2> DEFINE g == [i \in 0..n |-> IF i = n THEN f[n - 1] + numbers[n] ELSE f[i]]
  <2>3. numbers[n] \in Nat /\ f \in [0..(n - 1) -> Nat] /\ f[n - 1] \in Nat
    BY <2>1, <2>2 DEF SumsTo
  <2>4. \A i \in 0..n : g[i] \in Nat
    BY <2>1, <2>3
  <2>5. g \in [0..n -> Nat]
    BY <2>4
  <2>6. ASSUME NEW i \in 0..n
        PROVE  g[i] = IF i = 0 THEN 0 ELSE g[i - 1] + numbers[i]
    <3>1. CASE i = n
      <4>1. g[n] = f[n - 1] + numbers[n] /\ g[n - 1] = f[n - 1]
        BY <2>1
      <4> QED
        BY <1>4, <3>1, <4>1
    <3>2. CASE i # n
      <4>1. i \in 0..(n - 1) /\ (i # 0 => i - 1 \in 0..(n - 1) /\ i - 1 # n)
        BY <2>1, <3>2
      <4>2. g[i] = f[i] /\ (i # 0 => g[i - 1] = f[i - 1])
        BY <3>2, <4>1, <2>1
      <4>3. f[i] = IF i = 0 THEN 0 ELSE f[i - 1] + numbers[i]
        BY <2>2, <4>1 DEF SumsTo
      <4> QED
        BY <4>2, <4>3
    <3> QED
      BY <3>1, <3>2
  <2>7. SumsTo(numbers, n, g)
    BY <2>5, <2>6 DEF SumsTo
  <2> QED
    BY <1>2, <2>7
<1> QED
  BY <1>3, <1>4

LEMMA SumsProperties ==
  ASSUME NEW numbers \in Seq(Nat)
  PROVE  SumsTo(numbers, Len(numbers), Sums(numbers))
<1>1. PICK f : SumsTo(numbers, Len(numbers), f)
  <2>1. Len(numbers) \in 0..Len(numbers)
    OBVIOUS
  <2> QED
    BY <2>1, SumsExist
<1>2. f = [i \in 0..Len(numbers) |-> IF i = 0 THEN 0 ELSE f[i - 1] + numbers[i]]
  BY <1>1 DEF SumsTo
<1>3. Sums(numbers)
      = [i \in 0..Len(numbers) |->
           IF i = 0 THEN 0 ELSE Sums(numbers)[i - 1] + numbers[i]]
  BY <1>2 DEF Sums
<1> DEFINE T == {n \in 0..Len(numbers) : Sums(numbers)[n] # f[n]}
<1>4. T = {}
  <2>1. SUFFICES ASSUME T # {} PROVE FALSE
    OBVIOUS
  <2>2. PICK n \in T : \A m \in T : n <= m
    <3>1. T \in SUBSET Nat
      OBVIOUS
    <3> QED
      BY <2>1, <3>1, LeastExists
  <2>3. CASE n = 0
    BY <1>2, <1>3, <2>2, <2>3
  <2>4. CASE n # 0
    <3>1. n - 1 \in 0..Len(numbers) /\ n - 1 \notin T
      BY <2>2, <2>4
    <3>2. Sums(numbers)[n] = Sums(numbers)[n - 1] + numbers[n]
      BY <1>3, <2>4
    <3>3. f[n] = f[n - 1] + numbers[n]
      BY <1>1, <2>4 DEF SumsTo
    <3> QED
      BY <3>1, <3>2, <3>3, <2>2
  <2> QED
    BY <2>3, <2>4
<1>5. Sums(numbers) = f
  <2>1. \A n \in 0..Len(numbers) : Sums(numbers)[n] = f[n]
    BY <1>4
  <2>2. f = [n \in 0..Len(numbers) |-> f[n]]
    BY <1>1 DEF SumsTo
  <2>3. Sums(numbers) = [n \in 0..Len(numbers) |-> Sums(numbers)[n]]
    BY <1>3
  <2> QED
    BY <2>1, <2>2, <2>3
<1> QED
  BY <1>1, <1>5

LEMMA TotalProperties ==
  ASSUME NEW numbers \in Seq(Nat)
  PROVE  /\ Total(numbers) \in Nat
         /\ Len(numbers) = 0 => Total(numbers) = 0
<1>1. Len(numbers) \in 0..Len(numbers)
  OBVIOUS
<1> QED
  BY <1>1, SumsProperties DEF SumsTo, Total

LEMMA SumsStep ==
  ASSUME NEW numbers \in Seq(Nat), NEW sum, SumsTo(numbers, Len(numbers), sum),
         NEW i \in 1..Len(numbers)
  PROVE  sum[i] = sum[i - 1] + numbers[i] /\ sum[i - 1] \in Nat /\ numbers[i] \in Nat
<1>1. i \in 0..Len(numbers) /\ i - 1 \in 0..Len(numbers) /\ i # 0
  OBVIOUS
<1>2. sum[i] = IF i = 0 THEN 0 ELSE sum[i - 1] + numbers[i]
  BY <1>1 DEF SumsTo
<1>3. sum \in [0..Len(numbers) -> Nat]
  BY DEF SumsTo
<1>4. sum[i - 1] \in Nat
  BY <1>1, <1>3
<1>5. numbers[i] \in Nat
  OBVIOUS
<1> QED
  BY <1>1, <1>2, <1>4, <1>5

(* One number more, in front. *)
LEMMA TotalOfMore ==
  ASSUME NEW more \in Seq(Nat), NEW rest \in Seq(Nat), Len(more) = Len(rest) + 1,
         \A i \in 1..Len(rest) : more[i + 1] = rest[i]
  PROVE  Total(more) = more[1] + Total(rest)
<1> DEFINE f == Sums(more)
           g == Sums(rest)
           T == {n \in 0..Len(rest) : f[n + 1] # more[1] + g[n]}
<1>1. SumsTo(more, Len(more), f) /\ SumsTo(rest, Len(rest), g)
  BY SumsProperties
<1> HIDE DEF f, g
<1>2. T = {}
  <2>1. SUFFICES ASSUME T # {} PROVE FALSE
    OBVIOUS
  <2>2. PICK n \in T : \A m \in T : n <= m
    <3>1. T \in SUBSET Nat
      OBVIOUS
    <3> QED
      BY <2>1, <3>1, LeastExists
  <2>3. n + 1 \in 1..Len(more) /\ more[n + 1] \in Nat /\ more[1] \in Nat
    BY <2>2
  <2>4. f[n + 1] = f[n] + more[n + 1]
    <3>1. f[n + 1] = f[(n + 1) - 1] + more[n + 1]
      BY <1>1, <2>3, SumsStep
    <3>2. (n + 1) - 1 = n
      BY <2>2
    <3> QED
      BY <3>1, <3>2
  <2>5. CASE n = 0
    <3>1. f[0] = 0 /\ g[0] = 0
      BY <1>1 DEF SumsTo
    <3>2. f[1] = f[0] + more[1] /\ f[0 + 1] = f[1]
      BY <2>4, <2>5
    <3>3. f[0 + 1] = more[1] + g[0]
      BY <2>3, <3>1, <3>2
    <3> QED
      BY <2>2, <2>5, <3>3
  <2>6. CASE n # 0
    <3>1. n - 1 \in 0..Len(rest) /\ n - 1 \notin T /\ n \in 1..Len(rest)
      BY <2>2, <2>6, SMTT(40)
    <3>2. f[(n - 1) + 1] = more[1] + g[n - 1]
      BY <3>1
    <3>3. g[n] = g[n - 1] + rest[n] /\ g[n - 1] \in Nat /\ rest[n] \in Nat
      BY <1>1, <3>1, SumsStep
    <3>4. f[n] = more[1] + g[n - 1]
      <4>1. (n - 1) + 1 = n
        BY <3>1
      <4> QED
        BY <3>2, <4>1
    <3>5. more[n + 1] = rest[n]
      BY <3>1
    <3>6. f[n + 1] = more[1] + g[n]
      BY <2>3, <2>4, <3>3, <3>4, <3>5, SMTT(40)
    <3> QED
      BY <2>2, <3>6
  <2> QED
    BY <2>5, <2>6
<1>3. f[Len(rest) + 1] = more[1] + g[Len(rest)]
  BY <1>2
<1> QED
  BY <1>3 DEF Total, f, g

(* The constants, one by one. *)
LEMMA Sizes ==
  /\ CharsPerToken \in Nat /\ CharsPerToken > 0
  /\ HeadroomShare \in Nat /\ HeadroomShare > 0
  /\ MessageOverhead \in Nat /\ HeadroomTokens \in Nat /\ WindowSize \in Nat
  /\ InjectionCap \in Nat /\ CompactThreshold \in Nat /\ ThresholdPercent \in Nat
  /\ ThresholdFloor \in Nat /\ ThresholdCeiling \in Nat /\ SectionFrame \in Nat
  /\ ItemFrame \in Nat /\ Reserved \in Nat /\ SessionBudget \in Int
<1>1. {CharsPerToken, HeadroomShare} \subseteq Nat \ {0}
  BY BudgetAssumption
<1>2. {MessageOverhead, HeadroomTokens, WindowSize, InjectionCap, CompactThreshold,
       ThresholdPercent, ThresholdFloor, ThresholdCeiling, SectionFrame, ItemFrame,
       Reserved} \subseteq Nat
  BY BudgetAssumption
<1>3. SessionBudget \in Int
  BY BudgetAssumption
<1> QED
  BY <1>1, <1>2, <1>3

LEMMA Inputs ==
  /\ Transcripts \subseteq Seq(Messages)
  /\ \A t \in Transcripts : \A i \in DOMAIN t : t[i].place = i
  /\ Budgets \subseteq Nat /\ ExtraSizes \subseteq Nat /\ ContextSizes \subseteq Nat
  /\ Claims \subseteq Nat /\ ItemLists \subseteq Seq(Nat)
<1>1. UNION {Budgets, ExtraSizes, ContextSizes, Claims} \subseteq Nat
  BY BudgetAssumption
<1> QED
  BY <1>1, BudgetAssumption

(* An estimate is as large as the characters need, and no larger. *)
LEMMA TokensProperties ==
  ASSUME NEW chars \in Nat
  PROVE  /\ Tokens(chars) \in Nat
         /\ chars = 0 => Tokens(chars) = 0
         /\ \A t \in Nat : chars <= t * CharsPerToken => Tokens(chars) <= t
<1> DEFINE k == CharsPerToken
<1>1. k \in Nat /\ k > 0
  BY Sizes
<1> HIDE DEF k
<1>2. (chars + k - 1) \div k \in Nat
  BY <1>1
<1>3. chars = 0 => (chars + k - 1) \div k = 0
  BY <1>1
<1>4. ASSUME NEW t \in Nat, chars <= t * k PROVE (chars + k - 1) \div k <= t
  BY <1>1, <1>4
<1> QED
  BY <1>2, <1>3, <1>4 DEF Tokens, k

(* What fills a number of tokens is estimated at that number. *)
LEMMA TokensExact ==
  ASSUME NEW t \in Nat
  PROVE  Tokens(t * CharsPerToken) = t
<1> DEFINE k == CharsPerToken
<1>1. k \in Nat /\ k > 0
  BY Sizes
<1> HIDE DEF k
<1>2. (t * k + (k - 1)) \div k = t
  BY <1>1
<1>3. t * k \in Nat
  BY <1>1
<1>4. t * k + k - 1 = t * k + (k - 1)
  BY <1>1, <1>3
<1> QED
  BY <1>2, <1>4 DEF Tokens, k

LEMMA MessageTokensNat ==
  ASSUME NEW m \in Messages
  PROVE  m.size \in Nat /\ MessageTokens(m) \in Nat
<1>1. m.size \in Nat
  BY DEF Messages
<1>2. Tokens(m.size) \in Nat /\ MessageOverhead \in Nat
  BY <1>1, TokensProperties, Sizes
<1> QED
  BY <1>1, <1>2 DEF MessageTokens

LEMMA ChargesAreNumbers ==
  ASSUME NEW ms \in Seq(Messages)
  PROVE  LET charges == [i \in 1..Len(ms) |-> MessageTokens(ms[i])] IN
         charges \in Seq(Nat) /\ Len(charges) = Len(ms)
<1> DEFINE charges == [i \in 1..Len(ms) |-> MessageTokens(ms[i])]
<1>1. \A i \in 1..Len(ms) : charges[i] \in Nat
  BY MessageTokensNat
<1>2. charges \in [1..Len(ms) -> Nat]
  BY <1>1
<1>3. charges \in Seq(Nat)
  BY <1>2
<1> QED
  BY <1>3

LEMMA MessagesTokensNat ==
  ASSUME NEW ms \in Seq(Messages)
  PROVE  MessagesTokens(ms) \in Nat /\ (ms = <<>> => MessagesTokens(ms) = 0)
<1> DEFINE charges == [i \in 1..Len(ms) |-> MessageTokens(ms[i])]
<1>1. charges \in Seq(Nat) /\ Len(charges) = Len(ms)
  BY ChargesAreNumbers
<1>2. Total(charges) \in Nat /\ (Len(charges) = 0 => Total(charges) = 0)
  BY <1>1, TotalProperties
<1> QED
  BY <1>1, <1>2 DEF MessagesTokens

LEMMA NoMessages == <<>> \in Seq(Messages) /\ MessagesTokens(<<>>) = 0
<1>1. <<>> \in Seq(Messages)
  OBVIOUS
<1> QED
  BY <1>1, MessagesTokensNat

(* A message put in front adds what it costs. *)
LEMMA MoreMessages ==
  ASSUME NEW m \in Messages, NEW ms \in Seq(Messages)
  PROVE  /\ <<m>> \o ms \in Seq(Messages)
         /\ MessagesTokens(<<m>> \o ms) = MessageTokens(m) + MessagesTokens(ms)
<1> DEFINE all == <<m>> \o ms
           more == [i \in 1..Len(all) |-> MessageTokens(all[i])]
           rest == [i \in 1..Len(ms) |-> MessageTokens(ms[i])]
<1>1. all \in Seq(Messages) /\ Len(all) = Len(ms) + 1 /\ all[1] = m
      /\ \A i \in 1..Len(ms) : all[i + 1] = ms[i]
  OBVIOUS
<1> HIDE DEF all
<1>2. more \in Seq(Nat) /\ Len(more) = Len(all) /\ rest \in Seq(Nat) /\ Len(rest) = Len(ms)
  BY <1>1, ChargesAreNumbers
<1>3. \A i \in 1..Len(ms) : i + 1 \in 1..Len(all)
  BY <1>1
<1>4. \A i \in 1..Len(rest) : more[i + 1] = rest[i]
  BY <1>1, <1>2, <1>3
<1>5. more[1] = MessageTokens(m)
  BY <1>1
<1>6. Len(more) = Len(rest) + 1
  BY <1>1, <1>2
<1> HIDE DEF more, rest
<1>7. Total(more) = more[1] + Total(rest)
  BY <1>2, <1>4, <1>6, TotalOfMore
<1>8. MessagesTokens(all) = MessageTokens(m) + MessagesTokens(ms)
  BY <1>5, <1>7 DEF MessagesTokens, more, rest
<1> QED
  BY <1>1, <1>8 DEF all

LEMMA OneMessage ==
  ASSUME NEW m \in Messages
  PROVE  <<m>> \in Seq(Messages) /\ MessagesTokens(<<m>>) = MessageTokens(m)
<1>1. <<>> \in Seq(Messages) /\ <<m>> \o <<>> = <<m>>
  OBVIOUS
<1>2. MessagesTokens(<<m>> \o <<>>) = MessageTokens(m) + MessagesTokens(<<>>)
  BY <1>1, MoreMessages
<1>3. MessagesTokens(<<>>) = 0 /\ MessageTokens(m) \in Nat
  BY <1>1, NoMessages, MessageTokensNat
<1> QED
  BY <1>1, <1>2, <1>3

LEMMA EffectiveNat ==
  ASSUME NEW b \in Nat
  PROVE  Effective(b) \in Nat /\ Effective(b) > 0
<1>1. b \div HeadroomShare \in Nat /\ HeadroomTokens \in Nat
  BY Sizes
<1> QED
  BY <1>1 DEF Effective, Larger, Smaller

(* A shortened message says something, unless it said nothing or nothing   *)
(* was left for it; and it costs no more than it was allowed.              *)
LEMMA ShortenedProperties ==
  ASSUME NEW m \in Messages, NEW tokens \in Int
  PROVE  /\ Shortened(m, tokens) \in Messages
         /\ Shortened(m, tokens).role = m.role
         /\ Shortened(m, tokens).place = m.place
         /\ tokens > 0 =>
              /\ m.size > 0 => Shortened(m, tokens).size > 0
              /\ MessageTokens(Shortened(m, tokens)) <= tokens + MessageOverhead
         /\ tokens <= 0 => Shortened(m, tokens).size = 0
<1> DEFINE room == tokens * CharsPerToken
           size == IF tokens <= 0 THEN 0 ELSE Smaller(m.size, Larger(1, room))
<1>1. Shortened(m, tokens) = [m EXCEPT !.size = size]
  BY DEF Shortened
<1>2. m.size \in Nat /\ MessageOverhead \in Nat
  BY Sizes DEF Messages
<1>3. tokens > 0 => room \in Nat /\ room > 0
  <2>1. \A k \in Nat : k > 0 /\ tokens > 0 => tokens * k \in Nat /\ tokens * k > 0
    OBVIOUS
  <2> QED
    BY <2>1, Sizes
<1> HIDE DEF room
<1>4. size \in Nat /\ (tokens > 0 /\ m.size > 0 => size > 0)
      /\ (tokens > 0 => size <= room) /\ (tokens <= 0 => size = 0)
  BY <1>2, <1>3 DEF Smaller, Larger
<1> HIDE DEF size
<1>5. Shortened(m, tokens) \in Messages /\ Shortened(m, tokens).size = size
      /\ Shortened(m, tokens).role = m.role /\ Shortened(m, tokens).place = m.place
  BY <1>1, <1>4 DEF Messages
<1>6. tokens > 0 => Tokens(size) \in Nat /\ Tokens(size) <= tokens
  BY <1>4, TokensProperties DEF room
<1>7. tokens > 0 => MessageTokens(Shortened(m, tokens)) <= tokens + MessageOverhead
  BY <1>2, <1>5, <1>6 DEF MessageTokens
<1> QED
  BY <1>4, <1>5, <1>7

-----------------------------------------------------------------------------
(* Prompts, and what a cut leaves of them. *)

Prompts == [messages : Seq(Messages), context : Nat, extra : Nat, estimated : Nat]
WithinBudget(p, b) == TotalTokens(p) <= Effective(b)

LEMMA PromptProperties ==
  ASSUME NEW p \in Prompts
  PROVE  /\ p.messages \in Seq(Messages) /\ p.context \in Nat /\ p.extra \in Nat
         /\ p.estimated \in Nat /\ Added(p) \in Nat /\ Tokens(Added(p)) \in Nat
         /\ MessagesTokens(p.messages) \in Nat
         /\ TotalTokens(p) = Tokens(Added(p)) + MessagesTokens(p.messages)
<1>1. p.messages \in Seq(Messages) /\ p.context \in Nat /\ p.extra \in Nat
      /\ p.estimated \in Nat
  BY DEF Prompts
<1>2. Added(p) \in Nat
  BY <1>1 DEF Added
<1> QED
  BY <1>1, <1>2, TokensProperties, MessagesTokensNat DEF TotalTokens

(* The injection that is left keeps to its tokens, and only a whole context *)
(* stays one.                                                              *)
LEMMA CutInjectionProperties ==
  ASSUME NEW p \in Prompts, NEW tokens \in Int
  PROVE  LET cut == CutInjection(p, tokens) IN
         /\ cut \in Prompts
         /\ cut.messages = p.messages /\ cut.estimated = p.estimated
         /\ Added(p) = 0 => Added(cut) = 0
         /\ tokens >= 0 => Tokens(Added(cut)) <= tokens
         /\ tokens <= 0 => cut.context = 0 /\ Tokens(Added(cut)) = 0
<1> DEFINE room == tokens * CharsPerToken
           chars == IF tokens <= 0 THEN 0 ELSE Larger(1, room)
           cut == CutInjection(p, tokens)
<1>1. p.context \in Nat /\ p.extra \in Nat /\ Added(p) = p.context + p.extra
  BY DEF Prompts, Added
<1>2. tokens > 0 => room \in Nat /\ room > 0
  <2>1. \A k \in Nat : k > 0 /\ tokens > 0 => tokens * k \in Nat /\ tokens * k > 0
    OBVIOUS
  <2> QED
    BY <2>1, Sizes
<1>3. cut = IF Added(p) <= chars THEN p
            ELSE IF chars >= p.context THEN [p EXCEPT !.extra = chars - p.context]
            ELSE [p EXCEPT !.context = 0, !.extra = chars]
  BY DEF CutInjection
<1>4. chars \in Nat /\ (tokens > 0 => chars = room) /\ (tokens <= 0 => chars = 0)
  BY <1>2 DEF Larger
<1> HIDE DEF cut, chars
<1>5. cut \in Prompts /\ cut.messages = p.messages /\ cut.estimated = p.estimated
      /\ Added(cut) \in Nat /\ Added(cut) <= chars /\ (chars = 0 => cut.context = 0)
      /\ Added(cut) <= Added(p)
  <2>1. CASE Added(p) <= chars
    BY <1>1, <1>3, <1>4, <2>1
  <2>2. CASE ~ (Added(p) <= chars) /\ chars >= p.context
    <3>1. chars - p.context \in Nat
      BY <1>1, <1>4, <2>2
    <3>2. cut = [p EXCEPT !.extra = chars - p.context]
      BY <1>3, <2>2
    <3>3. cut \in Prompts /\ cut.messages = p.messages /\ cut.estimated = p.estimated
          /\ cut.context = p.context /\ cut.extra = chars - p.context
      BY <3>1, <3>2 DEF Prompts
    <3> QED
      BY <1>1, <1>4, <2>2, <3>1, <3>3 DEF Added
  <2>3. CASE ~ (Added(p) <= chars) /\ ~ (chars >= p.context)
    <3>1. cut = [p EXCEPT !.context = 0, !.extra = chars]
      BY <1>3, <2>3
    <3>2. cut \in Prompts /\ cut.messages = p.messages /\ cut.estimated = p.estimated
          /\ cut.context = 0 /\ cut.extra = chars
      BY <1>4, <3>1 DEF Prompts
    <3>3. Added(cut) = chars
      BY <1>4, <3>2 DEF Added
    <3> QED
      BY <1>1, <1>4, <2>3, <3>2, <3>3
  <2> QED
    BY <2>1, <2>2, <2>3
<1>6. tokens > 0 => Tokens(Added(cut)) <= tokens
  BY <1>4, <1>5, TokensProperties DEF room
<1>7. tokens <= 0 => Added(cut) = 0
  BY <1>4, <1>5
<1>8. tokens <= 0 => Tokens(Added(cut)) = 0
  BY <1>5, <1>7, TokensProperties
<1>9. tokens = 0 => Tokens(Added(cut)) <= tokens
  BY <1>8
<1>10. Added(p) = 0 => Added(cut) = 0
  BY <1>5
<1> QED
  BY <1>4, <1>5, <1>6, <1>7, <1>8, <1>9, <1>10 DEF cut

(* A cut that breaks the context leaves no room for anything else. *)
LEMMA BrokenFillsUp ==
  ASSUME NEW p \in Prompts, NEW tokens \in Nat, tokens > 0,
         p.context > 0, CutInjection(p, tokens).context = 0
  PROVE  Tokens(Added(CutInjection(p, tokens))) = tokens
<1> DEFINE chars == IF tokens <= 0 THEN 0 ELSE Larger(1, tokens * CharsPerToken)
           cut == CutInjection(p, tokens)
<1>1. p.context \in Nat /\ p.extra \in Nat
  BY DEF Prompts
<1>2. tokens * CharsPerToken \in Nat /\ tokens * CharsPerToken > 0
  <2>1. \A k \in Nat : k > 0 => tokens * k \in Nat /\ tokens * k > 0
    OBVIOUS
  <2> QED
    BY <2>1, Sizes
<1>3. chars = tokens * CharsPerToken
  BY <1>2 DEF Larger
<1>4. chars \in Nat
  BY <1>2, <1>3
<1>5. cut = IF Added(p) <= chars THEN p
            ELSE IF chars >= p.context THEN [p EXCEPT !.extra = chars - p.context]
            ELSE [p EXCEPT !.context = 0, !.extra = chars]
  BY DEF CutInjection
<1> HIDE DEF chars, cut
<1>6. cut.context = 0
  BY DEF cut
<1>7. [p EXCEPT !.extra = chars - p.context].context = p.context
  BY DEF Prompts
<1>8. cut = [p EXCEPT !.context = 0, !.extra = chars]
  BY <1>1, <1>5, <1>6, <1>7
<1>9. cut.extra = chars
  BY <1>8 DEF Prompts
<1>10. Added(cut) = chars
  BY <1>4, <1>6, <1>9 DEF Added
<1> QED
  BY <1>3, <1>10, TokensExact DEF cut

-----------------------------------------------------------------------------
(* What is kept of the messages from some place on.                        *)

KeptTo(ms, tokens, first, kept) ==
  kept = [i \in first..(Len(ms) + 1) |->
            IF i = Len(ms) + 1 THEN <<>> ELSE WithOlder(ms[i], kept[i + 1], tokens)]

LEMMA KeptExist ==
  ASSUME NEW ms \in Seq(Messages), NEW tokens \in Int, NEW k \in 0..Len(ms)
  PROVE  \E kept : KeptTo(ms, tokens, Len(ms) + 1 - k, kept)
<1> DEFINE last == Len(ms) + 1
           T == {n \in 0..Len(ms) : ~ \E kept : KeptTo(ms, tokens, last - n, kept)}
<1>1. SUFFICES ASSUME T # {} PROVE FALSE
  OBVIOUS
<1>2. PICK n \in T : \A m \in T : n <= m
  <2>1. T \in SUBSET Nat
    OBVIOUS
  <2> QED
    BY <1>1, <2>1, LeastExists
<1>3. last \in Nat /\ n \in Nat /\ n <= Len(ms) /\ Len(ms) \in Nat
  BY <1>2
<1>4. CASE n = 0
  <2> DEFINE f == [i \in last..last |-> <<>>]
  <2>1. \A i \in last..last : i = last
    BY <1>3
  <2>2. f = [i \in last..last |->
               IF i = last THEN <<>> ELSE WithOlder(ms[i], f[i + 1], tokens)]
    BY <2>1
  <2>3. last - 0 = last
    BY <1>3
  <2>4. KeptTo(ms, tokens, last - 0, f)
    BY <2>2, <2>3 DEF KeptTo
  <2> QED
    BY <1>2, <1>4, <2>4
<1>5. CASE n # 0
  <2> DEFINE new == last - n
  <2>1. n - 1 \in 0..Len(ms) /\ n - 1 \notin T
    <3>1. n - 1 \in 0..Len(ms) /\ ~ (n <= n - 1)
      BY <1>3, <1>5
    <3> QED
      BY <1>2, <3>1
  <2>2. new \in Nat /\ new < last /\ last - (n - 1) = new + 1
    BY <1>3, <1>5
  <2>3. PICK f : KeptTo(ms, tokens, new + 1, f)
    BY <2>1, <2>2
  <2> HIDE DEF new
  <2> DEFINE g == [i \in new..last |->
                     IF i = new THEN WithOlder(ms[new], f[new + 1], tokens) ELSE f[i]]
  <2>4. \A i \in new..last : g[i] = IF i = new
                                    THEN WithOlder(ms[new], f[new + 1], tokens) ELSE f[i]
    OBVIOUS
  <2>5. \A i \in (new + 1)..last :
          f[i] = IF i = last THEN <<>> ELSE WithOlder(ms[i], f[i + 1], tokens)
    BY <2>3 DEF KeptTo
  <2>6. g = [i \in new..last |-> g[i]]
    OBVIOUS
  <2> HIDE DEF g
  <2>7. ASSUME NEW i \in new..last
        PROVE  g[i] = IF i = last THEN <<>> ELSE WithOlder(ms[i], g[i + 1], tokens)
    <3>1. CASE i = new
      <4>1. new + 1 \in new..last /\ new + 1 # new /\ new # last
        BY <1>3, <2>2
      <4>2. g[new + 1] = f[new + 1]
        BY <2>4, <4>1
      <4> QED
        BY <2>4, <3>1, <4>1, <4>2
    <3>2. CASE i # new
      <4>1. i \in (new + 1)..last /\ (i # last => i + 1 \in new..last /\ i + 1 # new)
        BY <1>3, <2>2, <3>2
      <4>2. g[i] = f[i] /\ (i # last => g[i + 1] = f[i + 1])
        BY <2>4, <3>2, <4>1
      <4> QED
        BY <2>5, <4>1, <4>2
    <3> QED
      BY <3>1, <3>2
  <2>8. KeptTo(ms, tokens, new, g)
    BY <2>6, <2>7 DEF KeptTo
  <2> QED
    BY <1>2, <2>8 DEF new
<1> QED
  BY <1>4, <1>5

(* An older message is only added while the budget lasts. *)
LEMMA WithOlderKeeps ==
  ASSUME NEW m \in Messages, NEW newer \in Seq(Messages), NEW tokens \in Int,
         MessagesTokens(newer) <= tokens
  PROVE  /\ WithOlder(m, newer, tokens) \in Seq(Messages)
         /\ MessagesTokens(WithOlder(m, newer, tokens)) <= tokens
<1>1. MessagesTokens(newer) \in Nat /\ MessageTokens(m) \in Nat
  BY MessagesTokensNat, MessageTokensNat
<1>2. <<m>> \o newer \in Seq(Messages)
      /\ MessagesTokens(<<m>> \o newer) = MessageTokens(m) + MessagesTokens(newer)
  BY MoreMessages
<1> QED
  BY <1>1, <1>2 DEF WithOlder

LEMMA KeptProperties ==
  ASSUME NEW ms \in Seq(Messages), NEW tokens \in Nat
  PROVE  /\ KeptFrom(ms, tokens)[1] \in Seq(Messages)
         /\ MessagesTokens(KeptFrom(ms, tokens)[1]) <= tokens
<1> DEFINE last == Len(ms) + 1
           kept == KeptFrom(ms, tokens)
           Good(n) == /\ kept[last - n] \in Seq(Messages)
                      /\ MessagesTokens(kept[last - n]) <= tokens
           T == {n \in 0..Len(ms) : ~ Good(n)}
<1>1. KeptTo(ms, tokens, 1, kept)
  <2>1. Len(ms) \in 0..Len(ms) /\ Len(ms) + 1 - Len(ms) = 1
    OBVIOUS
  <2>2. \E f : KeptTo(ms, tokens, 1, f)
    BY <2>1, KeptExist
  <2> QED
    BY <2>2 DEF KeptTo, KeptFrom
<1> HIDE DEF kept
<1>2. \A i \in 1..last :
        kept[i] = IF i = last THEN <<>> ELSE WithOlder(ms[i], kept[i + 1], tokens)
  BY <1>1 DEF KeptTo
<1>3. T = {}
  <2>1. SUFFICES ASSUME T # {} PROVE FALSE
    OBVIOUS
  <2>2. PICK n \in T : \A m \in T : n <= m
    <3>1. T \in SUBSET Nat
      OBVIOUS
    <3> QED
      BY <2>1, <3>1, LeastExists
  <2>3. n \in 0..Len(ms) /\ Len(ms) \in Nat
    OBVIOUS
  <2>4. CASE n = 0
    <3>1. last - 0 = last /\ last \in 1..last
      BY <2>3
    <3>2. kept[last] = <<>>
      BY <1>2, <3>1
    <3>3. kept[last - 0] \in Seq(Messages) /\ MessagesTokens(kept[last - 0]) = 0
      BY <3>1, <3>2, NoMessages
    <3>4. Good(0)
      BY <3>3
    <3> QED
      BY <2>2, <2>4, <3>4
  <2>5. CASE n # 0
    <3>1. n - 1 \in 0..Len(ms) /\ ~ (n <= n - 1)
      BY <2>3, <2>5
    <3>2. Good(n - 1)
      BY <2>2, <3>1
    <3>3. last - n \in 1..Len(ms) /\ last - n # last /\ last - n \in 1..last
          /\ last - (n - 1) = (last - n) + 1
      BY <2>3, <2>5
    <3>4. kept[last - n] = WithOlder(ms[last - n], kept[(last - n) + 1], tokens)
      BY <1>2, <3>3
    <3>5. ms[last - n] \in Messages
      BY <3>3
    <3>6. kept[(last - n) + 1] \in Seq(Messages)
          /\ MessagesTokens(kept[(last - n) + 1]) <= tokens
      BY <3>2, <3>3
    <3>7. Good(n)
      BY <3>4, <3>5, <3>6, WithOlderKeeps
    <3> QED
      BY <2>2, <3>7
  <2> QED
    BY <2>4, <2>5
<1>4. Good(Len(ms))
  <2>1. Len(ms) \in 0..Len(ms)
    OBVIOUS
  <2>2. \A n \in 0..Len(ms) : Good(n)
    BY <1>3
  <2> QED
    BY <2>1, <2>2
<1>5. last - Len(ms) = 1
  OBVIOUS
<1> QED
  BY <1>4, <1>5 DEF kept

(* The messages that are kept fit what was left for them. *)
LEMMA TrimmedProperties ==
  ASSUME NEW ms \in Seq(Messages), NEW tokens \in Int
  PROVE  /\ Trimmed(ms, tokens) \in Seq(Messages)
         /\ tokens >= 0 => MessagesTokens(Trimmed(ms, tokens)) <= tokens
         /\ tokens <= 0 => Trimmed(ms, tokens) = <<>>
<1> DEFINE kept == KeptFrom(ms, tokens)[1]
           short == Shortened(ms[Len(ms)], tokens - MessageOverhead)
<1>1. <<>> \in Seq(Messages) /\ MessagesTokens(<<>>) = 0
  BY NoMessages
<1>2. CASE ms = <<>> \/ tokens <= 0
  BY <1>1, <1>2 DEF Trimmed
<1>3. CASE ms # <<>> /\ ~ (tokens <= 0)
  <2>1. tokens \in Nat /\ ms[Len(ms)] \in Messages /\ MessageOverhead \in Nat
    BY <1>3, Sizes
  <2>2. kept \in Seq(Messages) /\ MessagesTokens(kept) <= tokens
    BY <2>1, KeptProperties
  <2>3. short \in Messages /\ <<short>> \in Seq(Messages)
        /\ MessagesTokens(<<short>>) = MessageTokens(short)
    BY <2>1, ShortenedProperties, OneMessage
  <2>4. short.size # 0 => MessageTokens(short) <= (tokens - MessageOverhead) + MessageOverhead
    <3> DEFINE room == tokens - MessageOverhead
    <3>1. room \in Int /\ (room <= 0 \/ room > 0)
      BY <2>1
    <3> HIDE DEF room
    <3>2. LET m == ms[Len(ms)] IN
          /\ room > 0 => MessageTokens(Shortened(m, room)) <= room + MessageOverhead
          /\ room <= 0 => Shortened(m, room).size = 0
      BY <2>1, <3>1, ShortenedProperties
    <3> QED
      BY <3>1, <3>2 DEF room
  <2>5. Trimmed(ms, tokens) = IF kept # <<>> THEN kept
                              ELSE IF short.size = 0 THEN <<>> ELSE <<short>>
    BY <1>3 DEF Trimmed
  <2> HIDE DEF kept, short
  <2>6. short.size # 0 => MessageTokens(short) <= tokens
    BY <2>1, <2>4
  <2> QED
    BY <1>1, <1>3, <2>1, <2>2, <2>3, <2>5, <2>6
<1> QED
  BY <1>2, <1>3

-----------------------------------------------------------------------------
(* Suffixes, and the turns they hold.                                      *)

LEMMA FromProperties ==
  ASSUME NEW ms \in Seq(Messages), NEW i \in 1..(Len(ms) + 1)
  PROVE  /\ From(ms, i) \in Seq(Messages)
         /\ Len(From(ms, i)) = Len(ms) - i + 1
         /\ \A j \in 1..(Len(ms) - i + 1) : From(ms, i)[j] = ms[i + j - 1]
<1>1. Len(ms) \in Nat /\ i <= Len(ms) + 1
  OBVIOUS
<1>2. \A j \in i..Len(ms) : ms[j] \in Messages
  OBVIOUS
<1> QED
  BY <1>1, <1>2, SubSeqProperties DEF From

LEMMA FromFrom ==
  ASSUME NEW ms \in Seq(Messages), NEW i \in 1..(Len(ms) + 1),
         NEW j \in 1..(Len(From(ms, i)) + 1)
  PROVE  From(From(ms, i), j) = From(ms, i + j - 1) /\ i + j - 1 \in 1..(Len(ms) + 1)
<1> DEFINE tail == From(ms, i)
           n == Len(ms) - i + 1
<1>1. tail \in Seq(Messages) /\ Len(tail) = n /\ n \in Nat
      /\ \A k \in 1..n : tail[k] = ms[i + k - 1]
  <2>1. Len(ms) \in Nat /\ i \in Nat /\ i <= Len(ms) + 1
    OBVIOUS
  <2>2. n \in Nat
    BY <2>1
  <2> QED
    BY <2>2, FromProperties
<1>2. i + j - 1 \in 1..(Len(ms) + 1) /\ j \in 1..(n + 1) /\ j \in Nat /\ i \in Nat
      /\ Len(ms) \in Nat
  BY <1>1
<1> HIDE DEF tail
<1>3. From(tail, j) \in Seq(Messages) /\ Len(From(tail, j)) = n - j + 1
      /\ \A k \in 1..(n - j + 1) : From(tail, j)[k] = tail[j + k - 1]
  BY <1>1, <1>2, FromProperties, SMTT(40)
<1>4. From(ms, i + j - 1) \in Seq(Messages)
      /\ Len(From(ms, i + j - 1)) = Len(ms) - (i + j - 1) + 1
      /\ \A k \in 1..(Len(ms) - (i + j - 1) + 1) :
           From(ms, i + j - 1)[k] = ms[(i + j - 1) + k - 1]
  BY <1>2, FromProperties
<1>5. Len(ms) - (i + j - 1) + 1 = n - j + 1
  BY <1>2
<1>6. \A k \in 1..(n - j + 1) : From(tail, j)[k] = From(ms, i + j - 1)[k]
  <2> TAKE k \in 1..(n - j + 1)
  <2>1. j + k - 1 \in 1..n /\ i + (j + k - 1) - 1 = (i + j - 1) + k - 1
    BY <1>1, <1>2
  <2> QED
    BY <1>1, <1>3, <1>4, <1>5, <2>1
<1>7. From(tail, j) = From(ms, i + j - 1)
  BY <1>3, <1>4, <1>5, <1>6, SMTT(40)
<1> QED
  BY <1>2, <1>7 DEF tail

LEMMA FromStep ==
  ASSUME NEW ms \in Seq(Messages), NEW k \in 1..Len(ms)
  PROVE  From(ms, k) = <<ms[k]>> \o From(ms, k + 1)
<1>1. Len(ms) \in Nat /\ k \in Nat /\ k \in 1..(Len(ms) + 1) /\ k + 1 \in 1..(Len(ms) + 1)
  OBVIOUS
<1>2. PICK n \in Nat : n = Len(ms) - k
  BY <1>1
<1>3. /\ From(ms, k) \in Seq(Messages) /\ Len(From(ms, k)) = n + 1
      /\ \A j \in 1..(n + 1) : From(ms, k)[j] = ms[k + j - 1]
  <2>1. Len(ms) - k + 1 = n + 1
    BY <1>1, <1>2
  <2> QED
    BY <1>1, <2>1, FromProperties
<1>4. PICK rest \in Seq(Messages) :
        /\ rest = From(ms, k + 1) /\ Len(rest) = n
        /\ \A j \in 1..n : rest[j] = ms[(k + 1) + j - 1]
  <2>1. Len(ms) - (k + 1) + 1 = n
    BY <1>1, <1>2
  <2> QED
    BY <1>1, <2>1, FromProperties
<1>5. PICK m \in Messages : m = ms[k]
  OBVIOUS
<1>6. PICK more \in Seq(Messages) :
        /\ more = <<m>> \o rest /\ Len(more) = n + 1 /\ more[1] = m
        /\ \A j \in 1..n : more[j + 1] = rest[j]
  <2> DEFINE more == <<m>> \o rest
  <2>1. more \in Seq(Messages) /\ Len(more) = Len(rest) + 1 /\ more[1] = m
        /\ \A j \in 1..Len(rest) : more[j + 1] = rest[j]
    OBVIOUS
  <2> HIDE DEF more
  <2>2. more = <<m>> \o rest
    BY DEF more
  <2> QED
    BY <1>4, <2>1, <2>2
<1>7. \A j \in 1..(n + 1) : more[j] = From(ms, k)[j]
  <2> TAKE j \in 1..(n + 1)
  <2>1. CASE j = 1
    BY <1>1, <1>3, <1>5, <1>6, <2>1
  <2>2. CASE j # 1
    <3>1. j - 1 \in 1..n /\ (j - 1) + 1 = j /\ (k + 1) + (j - 1) - 1 = k + j - 1
      BY <1>1, <2>2
    <3>2. more[j] = rest[j - 1]
      BY <1>6, <3>1
    <3> QED
      BY <1>3, <1>4, <3>1, <3>2
  <2> QED
    BY <2>1, <2>2
<1>8. From(ms, k) = more
  <2>1. PICK tail \in Seq(Messages) : tail = From(ms, k)
    BY <1>3
  <2>2. Len(tail) = Len(more) /\ \A j \in 1..Len(more) : tail[j] = more[j]
    BY <1>3, <1>6, <1>7, <2>1
  <2>3. tail = more
    BY <2>2
  <2> QED
    BY <2>1, <2>3
<1> QED
  BY <1>4, <1>5, <1>6, <1>8

(* What comes later costs no more than all. *)
LEMMA SuffixCostsLess ==
  ASSUME NEW ms \in Seq(Messages), NEW i \in 1..(Len(ms) + 1)
  PROVE  MessagesTokens(From(ms, i)) <= MessagesTokens(ms)
<1> DEFINE T == {n \in 1..(Len(ms) + 1) :
                   ~ (MessagesTokens(From(ms, n)) <= MessagesTokens(ms))}
<1>1. SUFFICES ASSUME T # {} PROVE FALSE
  OBVIOUS
<1>2. PICK n \in T : \A m \in T : n <= m
  <2>1. T \in SUBSET Nat
    OBVIOUS
  <2> QED
    BY <1>1, <2>1, LeastExists
<1>3. n \in 1..(Len(ms) + 1) /\ Len(ms) \in Nat /\ n \in Nat
  OBVIOUS
<1>4. CASE n = 1
  <2>1. From(ms, 1) \in Seq(Messages) /\ Len(From(ms, 1)) = Len(ms)
        /\ \A j \in 1..Len(ms) : From(ms, 1)[j] = ms[j]
    BY <1>3, FromProperties
  <2>2. From(ms, 1) = ms
    BY <2>1
  <2>3. MessagesTokens(ms) \in Nat
    BY MessagesTokensNat
  <2> QED
    BY <1>2, <1>4, <2>2, <2>3
<1>5. CASE n # 1
  <2>1. PICK k \in 1..Len(ms) : k + 1 = n
    <3>1. n - 1 \in 1..Len(ms) /\ (n - 1) + 1 = n
      BY <1>3, <1>5
    <3> QED
      BY <3>1
  <2>2. MessagesTokens(From(ms, k)) <= MessagesTokens(ms)
    <3>1. k \in 1..(Len(ms) + 1) /\ ~ (n <= k)
      BY <1>3, <2>1
    <3> QED
      BY <1>2, <3>1
  <2>5. ms[k] \in Messages /\ From(ms, n) \in Seq(Messages)
    BY <1>3, FromProperties
  <2>8. MessagesTokens(From(ms, k)) = MessageTokens(ms[k]) + MessagesTokens(From(ms, n))
    BY <2>1, <2>5, FromStep, MoreMessages
  <2>9. MessageTokens(ms[k]) \in Nat /\ MessagesTokens(From(ms, n)) \in Nat
        /\ MessagesTokens(ms) \in Nat
    BY <2>5, MessageTokensNat, MessagesTokensNat
  <2>10. MessagesTokens(From(ms, n)) <= MessagesTokens(ms)
    BY <2>2, <2>8, <2>9
  <2> QED
    BY <1>2, <2>10
<1> QED
  BY <1>4, <1>5

LEMMA LastUserProperties ==
  ASSUME NEW ms \in Seq(Messages)
  PROVE  /\ UserPlaces(ms) \in SUBSET (1..Len(ms)) /\ Len(ms) \in Nat
         /\ UserPlaces(ms) = {} => LastUser(ms) = 0
         /\ UserPlaces(ms) # {} =>
              /\ LastUser(ms) \in UserPlaces(ms)
              /\ \A i \in UserPlaces(ms) : i <= LastUser(ms)
<1>1. UserPlaces(ms) \in SUBSET (1..Len(ms)) /\ Len(ms) \in Nat
  BY DEF UserPlaces
<1> QED
  BY <1>1, LastPlace DEF LastUser

LEMMA SafeUserProperties ==
  ASSUME NEW ms \in Seq(Messages), SafeUsers(ms) # {}
  PROVE  /\ LastSafeUser(ms) \in SafeUsers(ms)
         /\ LastSafeUser(ms) \in 1..Len(ms)
         /\ ms[LastSafeUser(ms)] \in Messages
         /\ ms[LastSafeUser(ms)].role = "user" /\ ms[LastSafeUser(ms)].size > 0
<1>1. SafeUsers(ms) \in SUBSET (1..Len(ms)) /\ Len(ms) \in Nat
  BY DEF SafeUsers, UserPlaces
<1>2. LastSafeUser(ms) \in SafeUsers(ms)
  BY <1>1, LastPlace DEF LastSafeUser
<1>3. LastSafeUser(ms) \in 1..Len(ms)
  BY <1>1, <1>2
<1> QED
  BY <1>2, <1>3 DEF SafeUsers, UserPlaces

(* A transcript's newest turn is held whole. *)
HoldsTurn(ms, whole) ==
  \E s \in 1..(Len(whole) + 1) :
    ms = From(whole, s) /\ (LastUser(whole) > 0 => s <= LastUser(whole))

(* Whatever begins with the transcript or with a user message holds it. *)
LEMMA StartHoldsTurn ==
  ASSUME NEW ms \in Seq(Messages), NEW s \in Nat, s = 1 \/ s \in UserPlaces(ms)
  PROVE  From(ms, s) \in Seq(Messages) /\ HoldsTurn(From(ms, s), ms)
<1>1. /\ UserPlaces(ms) \in SUBSET (1..Len(ms)) /\ Len(ms) \in Nat
      /\ (UserPlaces(ms) = {} => LastUser(ms) = 0)
      /\ (UserPlaces(ms) # {} => /\ LastUser(ms) \in UserPlaces(ms)
                                 /\ \A i \in UserPlaces(ms) : i <= LastUser(ms))
  BY LastUserProperties
<1>2. s \in 1..(Len(ms) + 1)
  BY <1>1
<1>3. LastUser(ms) > 0 => s <= LastUser(ms)
  <2>1. CASE UserPlaces(ms) = {}
    BY <1>1, <2>1
  <2>2. CASE UserPlaces(ms) # {}
    <3>1. LastUser(ms) \in 1..Len(ms)
      BY <1>1, <2>2
    <3> QED
      BY <1>1, <2>2, <3>1
  <2> QED
    BY <2>1, <2>2
<1> QED
  BY <1>2, <1>3, FromProperties DEF HoldsTurn

(* selectTurnAlignedSourceSuffix begins there. *)
LEMMA AlignedStart ==
  ASSUME NEW ms \in Seq(Messages), NEW n \in Nat
  PROVE  \E s \in Nat : /\ s = 1 \/ s \in UserPlaces(ms)
                        /\ AlignedSuffix(ms, n) = From(ms, s)
<1> DEFINE cut == Larger(1, Len(ms) - n + 1)
           before == {i \in UserPlaces(ms) : i <= cut}
           start == IF before # {} THEN Max(before)
                    ELSE IF UserPlaces(ms) # {} THEN Min(UserPlaces(ms)) ELSE 1
<1>1. AlignedSuffix(ms, n) = From(ms, start)
  BY DEF AlignedSuffix
<1>2. UserPlaces(ms) \in SUBSET (1..Len(ms)) /\ Len(ms) \in Nat
  BY LastUserProperties
<1>3. before # {} => start \in UserPlaces(ms)
  <2>1. before \in SUBSET (1..Len(ms)) /\ before \subseteq UserPlaces(ms)
    BY <1>2
  <2> QED
    BY <1>2, <2>1, LastPlace
<1>4. before = {} /\ UserPlaces(ms) # {} => start \in UserPlaces(ms)
  BY <1>2, FirstPlace
<1>5. UserPlaces(ms) = {} => start = 1
  OBVIOUS
<1>6. start = 1 \/ start \in UserPlaces(ms)
  BY <1>3, <1>4, <1>5
<1> HIDE DEF start
<1>7. start \in Nat
  BY <1>2, <1>6
<1> QED
  BY <1>1, <1>6, <1>7

LEMMA AlignedHoldsTurn ==
  ASSUME NEW ms \in Seq(Messages), NEW n \in Nat
  PROVE  AlignedSuffix(ms, n) \in Seq(Messages) /\ HoldsTurn(AlignedSuffix(ms, n), ms)
<1>1. PICK s \in Nat : /\ s = 1 \/ s \in UserPlaces(ms)
                       /\ AlignedSuffix(ms, n) = From(ms, s)
  BY AlignedStart
<1> QED
  BY <1>1, StartHoldsTurn

(* A user message of a prefix is one of the whole. *)
LEMMA PrefixPlaces ==
  ASSUME NEW ms \in Seq(Messages), NEW k \in 0..Len(ms)
  PROVE  /\ SubSeq(ms, 1, k) \in Seq(Messages) /\ Len(SubSeq(ms, 1, k)) = k
         /\ UserPlaces(SubSeq(ms, 1, k)) \subseteq UserPlaces(ms)
<1>1. Len(ms) \in Nat /\ k \in Nat /\ k <= Len(ms)
  OBVIOUS
<1>2. \A j \in 1..k : j \in 1..Len(ms) /\ ms[j] \in Messages
  BY <1>1
<1>3. /\ SubSeq(ms, 1, k) \in Seq(Messages) /\ Len(SubSeq(ms, 1, k)) = k
      /\ \A j \in 1..k : SubSeq(ms, 1, k)[j] = ms[j]
  <2> DEFINE pre == SubSeq(ms, 1, k)
  <2>1. pre = [j \in 1..k |-> ms[j]]
    BY <1>1
  <2> HIDE DEF pre
  <2> QED
    BY <1>1, <1>2, <2>1 DEF pre
<1> DEFINE pre == SubSeq(ms, 1, k)
<1> HIDE DEF pre
<1>4. ASSUME NEW j \in UserPlaces(pre) PROVE j \in UserPlaces(ms)
  <2>1. j \in 1..k /\ pre[j].role = "user"
    BY <1>3 DEF UserPlaces, pre
  <2> QED
    BY <1>2, <1>3, <2>1 DEF UserPlaces, pre
<1> QED
  BY <1>3, <1>4 DEF pre

(* So does what a snapshot of an earlier transcript leaves of a later one. *)
LEMMA SnapshotHoldsTurn ==
  ASSUME NEW ms \in Seq(Messages), NEW start \in Starts(ms)
  PROVE  From(ms, start + 1) \in Seq(Messages) /\ HoldsTurn(From(ms, start + 1), ms)
<1>1. PICK k \in 0..Len(ms) :
        start = k - Len(AlignedSuffix(SubSeq(ms, 1, k), WindowSize))
  BY DEF Starts
<1>2. PICK pre \in Seq(Messages) : /\ pre = SubSeq(ms, 1, k) /\ Len(pre) = k
                                   /\ UserPlaces(pre) \subseteq UserPlaces(ms)
  BY PrefixPlaces
<1>3. PICK s \in Nat : /\ s = 1 \/ s \in UserPlaces(pre)
                       /\ AlignedSuffix(pre, WindowSize) = From(pre, s)
  BY AlignedStart, Sizes
<1>4. s \in 1..(Len(pre) + 1)
  <2>1. UserPlaces(pre) \in SUBSET (1..Len(pre)) /\ Len(pre) \in Nat
    BY LastUserProperties
  <2> QED
    BY <1>3, <2>1
<1>5. Len(From(pre, s)) = k - s + 1
  BY <1>2, <1>4, FromProperties
<1>6. start + 1 = s
  <2>1. start = k - (k - s + 1) /\ k \in Int /\ s \in Int
    BY <1>1, <1>2, <1>3, <1>5
  <2> QED
    BY <2>1
<1> QED
  BY <1>2, <1>3, <1>6, StartHoldsTurn

(* The messages a cut at turn boundaries may not go below. *)
Newest(ms) == IF LastUser(ms) = 0 THEN ms ELSE From(ms, LastUser(ms))

LEMMA BundlesProperties ==
  ASSUME NEW ms \in Seq(Messages), NEW tokens \in Int
  PROVE  /\ Newest(ms) \in Seq(Messages)
         /\ MessagesTokens(Newest(ms)) <= MessagesTokens(ms)
         /\ \E start \in 1..(Len(ms) + 1) :
              /\ Bundles(ms, tokens) = From(ms, start)
              /\ LastUser(ms) > 0 => start <= LastUser(ms)
         /\ \/ Bundles(ms, tokens) = Newest(ms)
            \/ MessagesTokens(Bundles(ms, tokens)) <= tokens
<1>1. UserPlaces(ms) \in SUBSET (1..Len(ms)) /\ Len(ms) \in Nat
      /\ (UserPlaces(ms) = {} => LastUser(ms) = 0)
      /\ (UserPlaces(ms) # {} => /\ LastUser(ms) \in UserPlaces(ms)
                                 /\ \A i \in UserPlaces(ms) : i <= LastUser(ms))
  BY LastUserProperties
<1>2. CASE UserPlaces(ms) = {}
  <2>1. Bundles(ms, tokens) = ms /\ Newest(ms) = ms /\ LastUser(ms) = 0
    BY <1>1, <1>2 DEF Bundles, Newest
  <2>2. 1 \in 1..(Len(ms) + 1)
    BY <1>1
  <2>3. From(ms, 1) = ms
    <3>1. From(ms, 1) \in Seq(Messages) /\ Len(From(ms, 1)) = Len(ms) - 1 + 1
          /\ \A j \in 1..(Len(ms) - 1 + 1) : From(ms, 1)[j] = ms[1 + j - 1]
      BY <2>2, FromProperties
    <3>2. \A j \in 1..Len(ms) : From(ms, 1)[j] = ms[j]
      BY <1>1, <3>1
    <3> QED
      BY <1>1, <3>1, <3>2
  <2>4. MessagesTokens(ms) \in Nat
    BY MessagesTokensNat
  <2> QED
    BY <2>1, <2>2, <2>3, <2>4
<1>3. CASE UserPlaces(ms) # {}
  <2> DEFINE fit == {i \in UserPlaces(ms) :
                       \/ i = LastUser(ms)
                       \/ MessagesTokens(From(ms, i)) <= tokens}
  <2>1. LastUser(ms) \in fit /\ fit \in SUBSET (1..Len(ms)) /\ fit \subseteq UserPlaces(ms)
    BY <1>1, <1>3
  <2>2. Bundles(ms, tokens) = From(ms, Min(fit))
    BY <1>3 DEF Bundles
  <2>3. Min(fit) \in fit
    BY <1>1, <2>1, FirstPlace
  <2>4. LastUser(ms) \in 1..Len(ms) /\ LastUser(ms) # 0
        /\ LastUser(ms) \in 1..(Len(ms) + 1)
    BY <1>1, <1>3
  <2>5. Newest(ms) = From(ms, LastUser(ms))
    BY <2>4 DEF Newest
  <2>6. Min(fit) \in 1..(Len(ms) + 1) /\ Min(fit) <= LastUser(ms)
    BY <1>1, <2>1, <2>3
  <2>7. Min(fit) = LastUser(ms) \/ MessagesTokens(From(ms, Min(fit))) <= tokens
    BY <2>3
  <2> HIDE DEF fit
  <2> QED
    BY <2>2, <2>4, <2>5, <2>6, <2>7, FromProperties, SuffixCostsLess
<1> QED
  BY <1>2, <1>3

LEMMA BundlesHoldTurn ==
  ASSUME NEW whole \in Seq(Messages), NEW ms, HoldsTurn(ms, whole), NEW tokens \in Int
  PROVE  HoldsTurn(Bundles(ms, tokens), whole)
<1>1. PICK s \in 1..(Len(whole) + 1) :
        ms = From(whole, s) /\ (LastUser(whole) > 0 => s <= LastUser(whole))
  BY DEF HoldsTurn
<1>2. ms \in Seq(Messages) /\ Len(ms) = Len(whole) - s + 1
      /\ \A j \in 1..(Len(whole) - s + 1) : ms[j] = whole[s + j - 1]
  BY <1>1, FromProperties
<1>3. PICK start \in 1..(Len(ms) + 1) :
        Bundles(ms, tokens) = From(ms, start)
        /\ (LastUser(ms) > 0 => start <= LastUser(ms))
  BY <1>2, BundlesProperties
<1>4. Bundles(ms, tokens) = From(whole, s + start - 1)
      /\ s + start - 1 \in 1..(Len(whole) + 1)
  BY <1>1, <1>3, FromFrom
<1>5. ASSUME LastUser(whole) > 0 PROVE s + start - 1 <= LastUser(whole)
  <2>1. UserPlaces(whole) # {} /\ Len(whole) \in Nat /\ LastUser(whole) \in 1..Len(whole)
        /\ whole[LastUser(whole)].role = "user"
        /\ \A i \in UserPlaces(whole) : i <= LastUser(whole)
    <3>1. UserPlaces(whole) # {}
      BY <1>5, LastUserProperties
    <3> QED
      BY <3>1, LastUserProperties DEF UserPlaces
  <2> DEFINE here == LastUser(whole) - s + 1
  <2>2. here \in 1..(Len(whole) - s + 1) /\ s + here - 1 = LastUser(whole)
        /\ here \in 1..Len(ms)
    BY <1>1, <1>2, <1>5, <2>1
  <2>3. here \in UserPlaces(ms)
    BY <1>2, <2>1, <2>2, SMTT(40) DEF UserPlaces
  <2>4. LastUser(ms) \in UserPlaces(ms) /\ UserPlaces(ms) \in SUBSET (1..Len(ms))
    BY <1>2, <2>3, LastUserProperties
  <2>5. LastUser(ms) \in 1..(Len(whole) - s + 1) /\ ms[LastUser(ms)].role = "user"
    BY <1>2, <2>4 DEF UserPlaces
  <2>6. s + LastUser(ms) - 1 \in 1..Len(whole)
        /\ whole[s + LastUser(ms) - 1].role = "user"
    <3>1. s \in 1..(Len(whole) + 1) /\ Len(whole) \in Nat
      BY <2>1
    <3>2. s + LastUser(ms) - 1 \in 1..Len(whole)
      BY <2>5, <3>1
    <3> QED
      BY <1>2, <2>5, <3>2
  <2>7. s + LastUser(ms) - 1 <= LastUser(whole)
    BY <2>1, <2>6 DEF UserPlaces
  <2>8. start <= LastUser(ms) /\ start \in Int /\ s \in Int
    BY <1>3, <2>5
  <2> QED
    BY <2>1, <2>5, <2>7, <2>8
<1> QED
  BY <1>4, <1>5 DEF HoldsTurn

-----------------------------------------------------------------------------
(* The budget invariants of the code, the fallback and the repair.         *)

LEMMA FitsProperties ==
  ASSUME NEW p \in Prompts, NEW b \in Nat
  PROVE  /\ WithinBudget(p, b) <=>
              Tokens(Added(p)) + MessagesTokens(p.messages) <= Effective(b)
         /\ WithinBudget(p, b) => MessagesTokens(p.messages) <= Effective(b)
<1>1. Tokens(Added(p)) \in Nat /\ MessagesTokens(p.messages) \in Nat
      /\ TotalTokens(p) = Tokens(Added(p)) + MessagesTokens(p.messages)
      /\ Effective(b) \in Nat
  BY PromptProperties, EffectiveNat
<1> QED
  BY <1>1 DEF WithinBudget

(* enforceTokenBudgetInvariant: what does not fit loses all its messages.  *)
LEMMA EnforcePlainProperties ==
  ASSUME NEW p \in Prompts, NEW b \in Nat
  PROVE  /\ EnforcePlain(p, b) \in Prompts
         /\ b > 0 => \/ WithinBudget(EnforcePlain(p, b), b)
                     \/ EnforcePlain(p, b).messages = <<>>
<1> DEFINE limit == Effective(b)
           used == Tokens(Added(p))
           kept == Trimmed(p.messages, limit - used)
           r == EnforcePlain(p, b)
<1>1. limit \in Nat /\ used \in Nat /\ p.messages \in Seq(Messages)
      /\ limit - used \in Int
  <2>1. limit \in Nat /\ used \in Nat /\ p.messages \in Seq(Messages)
    BY EffectiveNat, PromptProperties
  <2>2. \A l, u \in Nat : l - u \in Int
    OBVIOUS
  <2> QED
    BY <2>1, <2>2
<1>2. kept \in Seq(Messages) /\ MessagesTokens(kept) \in Nat
      /\ (used < limit => MessagesTokens(kept) <= limit - used)
  <2>1. kept \in Seq(Messages)
        /\ (limit - used >= 0 => MessagesTokens(kept) <= limit - used)
    BY <1>1, TrimmedProperties
  <2>2. used < limit => limit - used >= 0
    BY <1>1
  <2> QED
    BY <2>1, <2>2, MessagesTokensNat
<1>3. CASE b = 0 \/ (p.estimated <= limit /\ TotalTokens(p) <= limit)
  <2>1. r = p
    BY <1>3 DEF EnforcePlain
  <2> QED
    BY <1>3, <2>1 DEF WithinBudget
<1>4. CASE ~ (b = 0 \/ (p.estimated <= limit /\ TotalTokens(p) <= limit)) /\ used >= limit
  <2>1. r = [p EXCEPT !.messages = <<>>, !.estimated = limit]
    BY <1>4 DEF EnforcePlain
  <2>2. r \in Prompts /\ r.messages = <<>>
    BY <1>1, <2>1, NoMessages DEF Prompts
  <2> QED
    BY <2>2
<1>5. CASE ~ (b = 0 \/ (p.estimated <= limit /\ TotalTokens(p) <= limit))
           /\ ~ (used >= limit)
  <2> DEFINE estimated == Smaller(limit, used + MessagesTokens(kept))
  <2>1. r = [p EXCEPT !.messages = kept, !.estimated = estimated]
    BY <1>5 DEF EnforcePlain
  <2>2. estimated \in Nat
    BY <1>1, <1>2 DEF Smaller
  <2> HIDE DEF kept, estimated
  <2>3. r \in Prompts /\ r.messages = kept /\ r.context = p.context /\ r.extra = p.extra
    BY <1>2, <2>1, <2>2 DEF Prompts
  <2>4. Added(r) = Added(p)
    BY <2>3 DEF Added
  <2>5. used + MessagesTokens(kept) <= limit
    BY <1>1, <1>2, <1>5
  <2>6. WithinBudget(r, b)
    BY <2>3, <2>4, <2>5, FitsProperties
  <2> QED
    BY <2>3, <2>6
<1> QED
  BY <1>3, <1>4, <1>5

(* enforceCompactedProjectionBudgetInvariant: what still does not fit has  *)
(* lost its context, and its newest turn alone is too much.                *)
LEMMA EnforceProjectionProperties ==
  ASSUME NEW p \in Prompts, NEW b \in Nat
  PROVE  LET r == EnforceProjection(p, b) IN
         /\ r \in Prompts
         /\ Added(p) = 0 => Added(r) = 0
         /\ b > 0 =>
              /\ r.context > 0 => WithinBudget(r, b)
              /\ MessagesTokens(p.messages) <= Effective(b) => WithinBudget(r, b)
              /\ r.estimated <= Effective(b) => WithinBudget(r, b)
         /\ \A whole \in Seq(Messages) :
              HoldsTurn(p.messages, whole) => HoldsTurn(r.messages, whole)
<1> DEFINE limit == Effective(b)
           newest == Newest(p.messages)
           needed == MessagesTokens(newest)
           cut == CutInjection(p, limit - needed)
           used == Tokens(Added(cut))
           most == Larger(needed, limit - used)
           kept == Bundles(p.messages, most)
           r == EnforceProjection(p, b)
<1>1. limit \in Nat /\ p.messages \in Seq(Messages)
      /\ MessagesTokens(p.messages) \in Nat
  BY EffectiveNat, PromptProperties
<1>2. newest \in Seq(Messages) /\ needed \in Nat
      /\ needed <= MessagesTokens(p.messages)
  <2>1. newest \in Seq(Messages) /\ needed <= MessagesTokens(p.messages)
    <3>1. 0 \in Int
      OBVIOUS
    <3> QED
      BY <1>1, <3>1, BundlesProperties
  <2> QED
    BY <2>1, MessagesTokensNat
<1>3. /\ cut \in Prompts /\ cut.messages = p.messages
      /\ Added(p) = 0 => Added(cut) = 0
      /\ needed <= limit => used <= limit - needed
      /\ ~ (needed <= limit) => cut.context = 0 /\ used = 0
      /\ used \in Nat
  <2>1. limit - needed \in Int /\ (needed <= limit => limit - needed >= 0)
        /\ (~ (needed <= limit) => limit - needed <= 0)
    BY <1>1, <1>2
  <2>2. cut \in Prompts
    BY <2>1, CutInjectionProperties
  <2> QED
    BY <2>1, <2>2, CutInjectionProperties, PromptProperties
<1>4. most \in Int /\ (needed <= limit => most = limit - used)
  <2>1. \A l, n, u \in Nat : /\ Larger(n, l - u) \in Int
                             /\ u <= l - n => Larger(n, l - u) = l - u
    BY DEF Larger
  <2> QED
    BY <1>1, <1>2, <1>3, <2>1
<1>5. /\ kept \in Seq(Messages) /\ MessagesTokens(kept) \in Nat
      /\ kept = newest \/ MessagesTokens(kept) <= most
  <2>1. PICK start \in 1..(Len(p.messages) + 1) : kept = From(p.messages, start)
    BY <1>1, <1>4, BundlesProperties
  <2>2. kept \in Seq(Messages)
    BY <1>1, <2>1, FromProperties
  <2> QED
    BY <1>1, <1>4, <2>2, BundlesProperties, MessagesTokensNat
<1>6. r = IF b = 0 \/ (p.estimated <= limit /\ TotalTokens(p) <= limit) THEN p
          ELSE [cut EXCEPT !.messages = kept, !.estimated = used + MessagesTokens(kept)]
  BY DEF EnforceProjection, Newest
<1>7. ASSUME NEW whole \in Seq(Messages), HoldsTurn(p.messages, whole)
      PROVE  HoldsTurn(kept, whole)
  BY <1>4, <1>7, BundlesHoldTurn
<1> HIDE DEF newest, cut, most, kept, r
<1>8. CASE b = 0 \/ (p.estimated <= limit /\ TotalTokens(p) <= limit)
  BY <1>6, <1>8 DEF WithinBudget, r
<1>9. CASE ~ (b = 0 \/ (p.estimated <= limit /\ TotalTokens(p) <= limit))
  <2>1. r = [cut EXCEPT !.messages = kept, !.estimated = used + MessagesTokens(kept)]
    BY <1>6, <1>9
  <2>2. used + MessagesTokens(kept) \in Nat
    BY <1>3, <1>5
  <2>3. /\ r \in Prompts /\ r.messages = kept /\ r.context = cut.context
        /\ r.extra = cut.extra /\ r.estimated = used + MessagesTokens(kept)
    BY <1>3, <1>5, <2>1, <2>2 DEF Prompts
  <2>4. Added(r) = Added(cut)
    BY <2>3 DEF Added
  <2>5. WithinBudget(r, b) <=> used + MessagesTokens(kept) <= limit
    BY <2>3, <2>4, FitsProperties
  <2>6. needed <= limit => WithinBudget(r, b)
    <3>1. kept = newest => MessagesTokens(kept) = needed
      OBVIOUS
    <3> QED
      BY <1>1, <1>2, <1>3, <1>4, <1>5, <2>5, <3>1
  <2>7. r.context > 0 => needed <= limit
    BY <1>3, <2>3
  <2>8. MessagesTokens(p.messages) <= limit => needed <= limit
    BY <1>1, <1>2
  <2>9. r.estimated <= limit => WithinBudget(r, b)
    BY <2>3, <2>5
  <2>10. \A whole \in Seq(Messages) :
           HoldsTurn(p.messages, whole) => HoldsTurn(r.messages, whole)
    BY <1>7, <2>3
  <2> QED
    BY <1>3, <2>3, <2>4, <2>6, <2>7, <2>8, <2>9, <2>10 DEF r
<1> QED
  BY <1>8, <1>9

(* A user message that is cut down to the limit fits it, when the limit    *)
(* leaves room for more than its wrapper.                                  *)
LEMMA ShortUserFits ==
  ASSUME NEW m \in Messages, NEW limit \in Nat
  PROVE  LET short == Shortened(m, Larger(1, limit - MessageOverhead)) IN
         /\ short \in Messages /\ <<short>> \in Seq(Messages)
         /\ short.role = m.role /\ (m.size > 0 => short.size > 0)
         /\ MessagesTokens(<<short>>) = MessageTokens(short) /\ MessageTokens(short) \in Nat
         /\ limit > MessageOverhead => MessageTokens(short) <= limit
<1>1. PICK room \in Int : room = Larger(1, limit - MessageOverhead) /\ room > 0
        /\ (limit > MessageOverhead => room + MessageOverhead = limit)
  <2>1. MessageOverhead \in Nat
    BY Sizes
  <2> QED
    BY <2>1 DEF Larger
<1> DEFINE short == Shortened(m, room)
<1>2. /\ short \in Messages /\ short.role = m.role /\ (m.size > 0 => short.size > 0)
      /\ MessageTokens(short) <= room + MessageOverhead
  BY <1>1, ShortenedProperties
<1> HIDE DEF short
<1>3. <<short>> \in Seq(Messages) /\ MessagesTokens(<<short>>) = MessageTokens(short)
      /\ MessageTokens(short) \in Nat
  BY <1>2, OneMessage, MessageTokensNat
<1> QED
  BY <1>1, <1>2, <1>3 DEF short

(* buildBudgetFallbackContext. *)
LEMMA FallbackProperties ==
  ASSUME NEW ms \in Seq(Messages), NEW b \in Nat
  PROVE  /\ Fallback(ms, b) \in Prompts
         /\ b > 0 /\ Effective(b) > MessageOverhead /\ SafeUsers(ms) # {} =>
              WithinBudget(Fallback(ms, b), b)
<1> DEFINE limit == Effective(Larger(1, b))
           whole == [messages |-> ms, context |-> 0, extra |-> 0,
                     estimated |-> MessagesTokens(ms)]
           cut == EnforceProjection(whole, b)
           user == LastSafeUser(ms)
           short == Shortened(ms[user], Larger(1, limit - MessageOverhead))
           r == Fallback(ms, b)
<1>1. limit \in Nat /\ (b > 0 => limit = Effective(b))
  <2>1. Larger(1, b) \in Nat /\ (b > 0 => Larger(1, b) = b)
    BY DEF Larger
  <2> QED
    BY <2>1, EffectiveNat
<1>2. whole \in Prompts /\ Added(whole) = 0 /\ whole.messages = ms
      /\ whole.estimated = MessagesTokens(ms) /\ MessagesTokens(ms) \in Nat
  BY MessagesTokensNat DEF Prompts, Added
<1>3. Tokens(0) = 0
  <2>1. 0 \in Nat
    OBVIOUS
  <2> QED
    BY <2>1, TokensProperties
<1> HIDE DEF whole
<1>4. cut \in Prompts /\ Added(cut) = 0
      /\ (b > 0 /\ cut.estimated <= Effective(b) => WithinBudget(cut, b))
  BY <1>2, EnforceProjectionProperties
<1>5. r = IF whole.estimated <= limit THEN whole
          ELSE IF cut.estimated <= limit THEN cut
          ELSE IF user # 0
          THEN [cut EXCEPT !.messages = <<short>>,
                           !.estimated = Smaller(limit, MessageTokens(short))]
          ELSE [cut EXCEPT !.messages = <<>>, !.estimated = 0]
  BY DEF Fallback, whole
<1> HIDE DEF limit, cut, user, short, r
<1>6. CASE whole.estimated <= limit
  <2>1. r = whole
    BY <1>5, <1>6
  <2>2. b > 0 => Tokens(Added(whole)) + MessagesTokens(whole.messages) <= Effective(b)
    BY <1>1, <1>2, <1>3, <1>6
  <2>3. b > 0 => WithinBudget(r, b)
    BY <1>2, <2>1, <2>2, FitsProperties
  <2> QED
    BY <1>2, <2>1, <2>3 DEF r
<1>7. CASE ~ (whole.estimated <= limit) /\ cut.estimated <= limit
  BY <1>1, <1>4, <1>5, <1>7 DEF r
<1>8. CASE ~ (whole.estimated <= limit) /\ ~ (cut.estimated <= limit) /\ user # 0
  <2>1. SafeUsers(ms) # {}
    BY <1>8 DEF user, LastSafeUser
  <2>2. ms[user] \in Messages
    BY <2>1, SafeUserProperties DEF user
  <2>3. /\ short \in Messages /\ <<short>> \in Seq(Messages)
        /\ MessagesTokens(<<short>>) = MessageTokens(short) /\ MessageTokens(short) \in Nat
        /\ limit > MessageOverhead => MessageTokens(short) <= limit
    BY <1>1, <2>2, ShortUserFits DEF short
  <2>4. Smaller(limit, MessageTokens(short)) \in Nat
    BY <1>1, <2>3 DEF Smaller
  <2>5. r = [cut EXCEPT !.messages = <<short>>,
                        !.estimated = Smaller(limit, MessageTokens(short))]
    BY <1>5, <1>8
  <2>6. r \in Prompts /\ r.messages = <<short>> /\ r.context = cut.context
        /\ r.extra = cut.extra
    BY <1>4, <2>3, <2>4, <2>5 DEF Prompts
  <2>7. Added(r) = 0
    BY <1>4, <2>6 DEF Added
  <2>8. b > 0 /\ Effective(b) > MessageOverhead =>
          Tokens(Added(r)) + MessagesTokens(r.messages) <= Effective(b)
    BY <1>1, <1>3, <2>3, <2>6, <2>7
  <2> QED
    BY <2>6, <2>8, FitsProperties DEF r
<1>9. CASE ~ (whole.estimated <= limit) /\ ~ (cut.estimated <= limit) /\ user = 0
  <2>1. r = [cut EXCEPT !.messages = <<>>, !.estimated = 0]
    BY <1>5, <1>9
  <2>2. r \in Prompts
    BY <1>4, <2>1, NoMessages DEF Prompts
  <2>3. SafeUsers(ms) = {}
    <3>1. SUFFICES ASSUME SafeUsers(ms) # {} PROVE FALSE
      OBVIOUS
    <3>2. LastSafeUser(ms) \in 1..Len(ms)
      BY <3>1, SafeUserProperties
    <3> QED
      BY <1>9, <3>2 DEF user
  <2> QED
    BY <2>2, <2>3 DEF r
<1> QED
  BY <1>6, <1>7, <1>8, <1>9

(* ensureReplaySafeUserTurn: what had a user message that says something   *)
(* is left alone; what had none gets one; and what fitted, or held no      *)
(* message, fits with it.                                                  *)
LEMMA RepairedProperties ==
  ASSUME NEW p \in Prompts, NEW ms \in Seq(Messages), NEW b \in Nat
  PROVE  /\ Repaired(p, ms, b) \in Prompts
         /\ SafeUsers(p.messages) # {} => Repaired(p, ms, b) = p
         /\ SafeUsers(ms) # {} => SafeUsers(Repaired(p, ms, b).messages) # {}
         /\ /\ b > 0 /\ Effective(b) > MessageOverhead /\ SafeUsers(ms) # {}
            /\ WithinBudget(p, b) \/ p.messages = <<>>
            => WithinBudget(Repaired(p, ms, b), b)
<1> DEFINE limit == Effective(b)
           user == ms[LastSafeUser(ms)]
           cost == MessageTokens(user)
           base == Larger(p.estimated, MessagesTokens(p.messages))
           all == [p EXCEPT !.messages = <<user>> \o @, !.estimated = base + cost]
           short == Shortened(user, Larger(1, limit - MessageOverhead))
           cut == CutInjection(p, limit - cost)
           kept == Trimmed(p.messages, limit - cost - Tokens(Added(cut)))
           r == Repaired(p, ms, b)
<1>1. CASE SafeUsers(p.messages) # {} \/ SafeUsers(ms) = {}
  <2>1. r = p
    BY <1>1 DEF Repaired
  <2>2. SafeUsers(<<>>) = {}
    BY DEF SafeUsers, UserPlaces
  <2>3. SafeUsers(ms) # {} => p.messages # <<>>
    BY <1>1, <2>2
  <2> QED
    BY <1>1, <2>1, <2>3
<1>2. CASE ~ (SafeUsers(p.messages) # {} \/ SafeUsers(ms) = {})
  <2>1. user \in Messages /\ user.role = "user" /\ user.size > 0
    BY <1>2, SafeUserProperties
  <2>2. cost \in Nat /\ limit \in Nat /\ p.messages \in Seq(Messages)
        /\ p.estimated \in Nat /\ MessagesTokens(p.messages) \in Nat
    BY <2>1, MessageTokensNat, EffectiveNat, PromptProperties
  <2>3. base \in Nat /\ base + cost \in Nat
    BY <2>2 DEF Larger
  <2>4. r = IF b = 0 THEN all
            ELSE IF base + cost <= limit /\ TotalTokens(all) <= limit
            THEN [all EXCEPT !.estimated = Larger(@, TotalTokens(all))]
            ELSE IF cost >= limit
            THEN [messages |-> <<short>>, context |-> 0, extra |-> 0,
                  estimated |-> Smaller(limit, MessageTokens(short))]
            ELSE [cut EXCEPT !.messages = <<user>> \o kept,
                             !.estimated = Smaller(limit, cost + Tokens(Added(cut))
                                                          + MessagesTokens(kept))]
    BY <1>2 DEF Repaired
  <2>5. ASSUME NEW m \in Messages, NEW rest \in Seq(Messages), m.role = "user", m.size > 0
        PROVE  SafeUsers(<<m>> \o rest) # {}
    <3> DEFINE more == <<m>> \o rest
    <3>1. 1 \in DOMAIN more /\ more[1] = m
      OBVIOUS
    <3> HIDE DEF more
    <3>2. 1 \in SafeUsers(more)
      BY <2>5, <3>1 DEF SafeUsers, UserPlaces
    <3> QED
      BY <3>2 DEF more
  <2>6. <<user>> \o p.messages \in Seq(Messages)
    BY <2>1, <2>2, MoreMessages
  <2>7. all \in Prompts /\ all.messages = <<user>> \o p.messages
    BY <2>3, <2>6 DEF Prompts
  <2>8. SafeUsers(all.messages) # {}
    BY <2>1, <2>2, <2>5, <2>7
  <2> HIDE DEF user, cost, base, all, short, cut, kept, r
  <2>9. CASE b = 0
    <3>1. r = all
      BY <2>4, <2>9
    <3>2. r \in Prompts /\ SafeUsers(r.messages) # {}
      BY <2>7, <2>8, <3>1
    <3>3. ~ (b > 0)
      BY <2>9
    <3> QED
      BY <1>2, <3>2, <3>3 DEF r
  <2>10. CASE b # 0 /\ base + cost <= limit /\ TotalTokens(all) <= limit
    <3> DEFINE estimated == Larger(all.estimated, TotalTokens(all))
    <3>1. r = [all EXCEPT !.estimated = estimated]
      BY <2>4, <2>10
    <3>2. all.estimated \in Nat /\ Tokens(Added(all)) \in Nat
          /\ MessagesTokens(all.messages) \in Nat
          /\ TotalTokens(all) = Tokens(Added(all)) + MessagesTokens(all.messages)
      BY <2>7, PromptProperties
    <3>3. estimated \in Nat
      BY <3>2 DEF Larger
    <3> HIDE DEF estimated
    <3>4. r \in Prompts /\ r.messages = all.messages /\ r.context = all.context
          /\ r.extra = all.extra
      BY <2>7, <3>1, <3>3 DEF Prompts
    <3>5. TotalTokens(r) = TotalTokens(all)
      BY <3>4 DEF TotalTokens, Added
    <3>6. WithinBudget(r, b)
      BY <2>10, <3>5 DEF WithinBudget
    <3> QED
      BY <1>2, <2>8, <3>4, <3>6 DEF r
  <2>11. CASE /\ b # 0 /\ ~ (base + cost <= limit /\ TotalTokens(all) <= limit)
              /\ cost >= limit
    <3>1. /\ short \in Messages /\ <<short>> \in Seq(Messages)
          /\ short.role = "user" /\ short.size > 0
          /\ MessagesTokens(<<short>>) = MessageTokens(short) /\ MessageTokens(short) \in Nat
          /\ limit > MessageOverhead => MessageTokens(short) <= limit
      BY <2>1, <2>2, ShortUserFits DEF short
    <3> DEFINE estimated == Smaller(limit, MessageTokens(short))
    <3>2. estimated \in Nat
      BY <2>2, <3>1 DEF Smaller
    <3> HIDE DEF estimated
    <3>3. r = [messages |-> <<short>>, context |-> 0, extra |-> 0,
               estimated |-> estimated]
      BY <2>4, <2>11 DEF estimated
    <3>4. r \in Prompts /\ r.messages = <<short>> /\ Added(r) = 0
      BY <3>1, <3>2, <3>3 DEF Prompts, Added
    <3>5. Tokens(0) = 0
      <4>1. 0 \in Nat
        OBVIOUS
      <4> QED
        BY <4>1, TokensProperties
    <3>6. limit > MessageOverhead =>
            Tokens(Added(r)) + MessagesTokens(r.messages) <= limit
      BY <2>2, <3>1, <3>4, <3>5
    <3>7. limit > MessageOverhead => WithinBudget(r, b)
      BY <3>4, <3>6, FitsProperties
    <3>8. SafeUsers(<<short>>) # {}
      <4>1. <<short>> \o <<>> = <<short>> /\ <<>> \in Seq(Messages)
        BY <3>1
      <4> QED
        BY <2>5, <3>1, <4>1
    <3> QED
      BY <1>2, <3>4, <3>7, <3>8 DEF r
  <2>12. CASE /\ b # 0 /\ ~ (base + cost <= limit /\ TotalTokens(all) <= limit)
              /\ ~ (cost >= limit)
    <3> DEFINE used == Tokens(Added(cut))
               left == limit - cost - used
    <3>1. limit - cost \in Int /\ limit - cost >= 0
      BY <2>2, <2>12
    <3>2. cut \in Prompts /\ used \in Nat /\ used <= limit - cost
      <4>1. cut \in Prompts /\ used <= limit - cost
        BY <3>1, CutInjectionProperties DEF cut
      <4> QED
        BY <4>1, PromptProperties
    <3>3. left \in Int /\ left >= 0
      <4>1. \A u \in Nat : u <= limit - cost =>
                limit - cost - u \in Int /\ limit - cost - u >= 0
        BY <2>2
      <4> QED
        BY <3>2, <4>1
    <3>4. kept \in Seq(Messages) /\ MessagesTokens(kept) <= left
      BY <2>2, <3>3, TrimmedProperties DEF kept
    <3>5. MessagesTokens(kept) \in Nat
      BY <3>4, MessagesTokensNat
    <3>6. <<user>> \o kept \in Seq(Messages)
          /\ MessagesTokens(<<user>> \o kept) = cost + MessagesTokens(kept)
      BY <2>1, <3>4, MoreMessages DEF cost
    <3> DEFINE estimated == Smaller(limit, cost + Tokens(Added(cut)) + MessagesTokens(kept))
    <3>7. estimated \in Nat
      BY <2>2, <3>2, <3>5 DEF Smaller
    <3> HIDE DEF estimated
    <3>8. r = [cut EXCEPT !.messages = <<user>> \o kept, !.estimated = estimated]
      BY <2>4, <2>12 DEF estimated
    <3>9. r \in Prompts /\ r.messages = <<user>> \o kept /\ r.context = cut.context
          /\ r.extra = cut.extra
      BY <3>2, <3>6, <3>7, <3>8 DEF Prompts
    <3>10. Added(r) = Added(cut)
      BY <3>9 DEF Added
    <3>11. Tokens(Added(r)) + MessagesTokens(r.messages) <= limit
      <4>1. \A u, k \in Nat : k <= limit - cost - u => u + (cost + k) <= limit
        BY <2>2
      <4> QED
        BY <3>2, <3>4, <3>5, <3>6, <3>9, <3>10, <4>1
    <3>12. WithinBudget(r, b)
      BY <3>9, <3>11, FitsProperties
    <3>13. SafeUsers(r.messages) # {}
      BY <2>1, <2>5, <3>4, <3>9
    <3> QED
      BY <1>2, <3>9, <3>12, <3>13 DEF r
  <2> QED
    BY <2>9, <2>10, <2>11, <2>12
<1> QED
  BY <1>1, <1>2

(* A prompt that loses its context to the repair loses everything else. *)
LEMMA OnlyTheUserTurn ==
  ASSUME NEW p \in Prompts, NEW ms \in Seq(Messages), NEW b \in Nat,
         p.context > 0, Repaired(p, ms, b).context = 0
  PROVE  Len(Repaired(p, ms, b).messages) = 1
<1> DEFINE limit == Effective(b)
           user == ms[LastSafeUser(ms)]
           cost == MessageTokens(user)
           base == Larger(p.estimated, MessagesTokens(p.messages))
           all == [p EXCEPT !.messages = <<user>> \o @, !.estimated = base + cost]
           short == Shortened(user, Larger(1, limit - MessageOverhead))
           cut == CutInjection(p, limit - cost)
           kept == Trimmed(p.messages, limit - cost - Tokens(Added(cut)))
           estimated == Smaller(limit, cost + Tokens(Added(cut)) + MessagesTokens(kept))
           r == Repaired(p, ms, b)
<1>1. r = IF SafeUsers(p.messages) # {} \/ SafeUsers(ms) = {} THEN p
          ELSE IF b = 0 THEN all
          ELSE IF base + cost <= limit /\ TotalTokens(all) <= limit
          THEN [all EXCEPT !.estimated = Larger(@, TotalTokens(all))]
          ELSE IF cost >= limit
          THEN [messages |-> <<short>>, context |-> 0, extra |-> 0,
                estimated |-> Smaller(limit, MessageTokens(short))]
          ELSE [cut EXCEPT !.messages = <<user>> \o kept, !.estimated = estimated]
  BY DEF Repaired
<1>2. all.context = p.context
      /\ [all EXCEPT !.estimated = Larger(@, TotalTokens(all))].context = p.context
  BY DEF Prompts
<1>3. r.context = 0 /\ ~ (p.context = 0)
  BY PromptProperties
<1> HIDE DEF all, r, estimated
<1>4. \/ /\ cost >= limit
         /\ r = [messages |-> <<short>>, context |-> 0, extra |-> 0,
                 estimated |-> Smaller(limit, MessageTokens(short))]
      \/ /\ ~ (cost >= limit) /\ SafeUsers(ms) # {}
         /\ r = [cut EXCEPT !.messages = <<user>> \o kept, !.estimated = estimated]
  BY <1>1, <1>2, <1>3
<1>5. CASE r = [messages |-> <<short>>, context |-> 0, extra |-> 0,
                estimated |-> Smaller(limit, MessageTokens(short))]
  <2>1. r.messages = <<short>>
    BY <1>5
  <2> QED
    BY <2>1 DEF r
<1>6. CASE /\ ~ (cost >= limit) /\ SafeUsers(ms) # {}
           /\ r = [cut EXCEPT !.messages = <<user>> \o kept, !.estimated = estimated]
  <2>1. user \in Messages /\ cost \in Nat /\ limit \in Nat
    BY <1>6, SafeUserProperties, MessageTokensNat, EffectiveNat
  <2>2. limit - cost \in Nat /\ limit - cost > 0
    BY <1>6, <2>1
  <2>3. limit - cost \in Int
    BY <2>2
  <2>4. cut \in Prompts
    BY <2>3, CutInjectionProperties
  <2> HIDE DEF user, cost, limit
  <2>5. r.messages = <<user>> \o kept /\ r.context = cut.context
    BY <1>6, <2>4 DEF Prompts
  <2>6. Tokens(Added(cut)) = limit - cost
    BY <1>3, <2>2, <2>5, BrokenFillsUp
  <2>7. limit - cost - Tokens(Added(cut)) = 0
    BY <2>3, <2>6
  <2>8. kept = <<>>
    <3> DEFINE left == limit - cost - Tokens(Added(cut))
    <3>1. p.messages \in Seq(Messages) /\ left \in Int /\ left <= 0
      BY <2>7, PromptProperties
    <3> HIDE DEF left
    <3>2. Trimmed(p.messages, left) = <<>>
      BY <3>1, TrimmedProperties
    <3> QED
      BY <3>2 DEF left
  <2> QED
    BY <2>5, <2>8 DEF r
<1> QED
  BY <1>4, <1>5, <1>6

(* buildUncompactedFallback. *)
LEMMA UncompactedProperties ==
  ASSUME source \in Seq(Messages), budget \in Nat, NEW p \in Prompts
  PROVE  /\ Uncompacted(p) \in Prompts
         /\ budget > 0 /\ Effective(budget) > MessageOverhead /\ SafeUsers(source) # {} =>
              WithinBudget(Uncompacted(p), budget)
<1>1. PICK f \in Prompts :
        /\ f = Fallback(source, budget)
        /\ budget > 0 /\ Effective(budget) > MessageOverhead /\ SafeUsers(source) # {} =>
             MessagesTokens(f.messages) <= Effective(budget)
  BY FallbackProperties, FitsProperties
<1> DEFINE whole == [messages |-> f.messages, context |-> 0, extra |-> p.extra,
                     estimated |-> MessagesTokens(f.messages) + Tokens(p.extra)]
<1>2. f.messages \in Seq(Messages) /\ MessagesTokens(f.messages) \in Nat
      /\ p.extra \in Nat /\ Tokens(p.extra) \in Nat
  BY PromptProperties, TokensProperties
<1>3. whole \in Prompts /\ whole.messages = f.messages
  BY <1>2 DEF Prompts
<1>4. Uncompacted(p) = EnforceProjection(whole, budget)
  BY <1>1 DEF Uncompacted
<1> HIDE DEF whole
<1> QED
  BY <1>1, <1>3, <1>4, EnforceProjectionProperties

(* A section has a size. *)
LEMMA SectionNat ==
  ASSUME NEW items \in Seq(Nat), NEW tokens \in Int
  PROVE  Section(items, tokens) \in Nat
<1> DEFINE left == tokens - Tokens(SectionFrame)
           Cost(n) == Total([i \in 1..n |-> Tokens(items[i])])
           fit == {n \in 0..Len(items) : Cost(n) <= left}
           whole == Max(fit)
           inner == left - Cost(whole) - Tokens(ItemFrame)
           short == IF whole < Len(items) /\ inner > 0
                    THEN ItemFrame + Smaller(items[whole + 1], inner * CharsPerToken) + 1
                    ELSE 0
           chars == Total([i \in 1..whole |-> items[i] + 1])
<1>1. Section(items, tokens) = IF items = <<>> \/ left <= 0 \/ chars + short = 0 THEN 0
                               ELSE SectionFrame + chars + short
  BY DEF Section
<1>2. CASE items = <<>> \/ left <= 0
  BY <1>1, <1>2
<1>3. CASE ~ (items = <<>> \/ left <= 0)
  <2>1. SectionFrame \in Nat /\ ItemFrame \in Nat /\ CharsPerToken \in Nat
        /\ Tokens(SectionFrame) \in Nat /\ Tokens(ItemFrame) \in Nat
    BY Sizes, TokensProperties
  <2>2. left \in Int /\ left > 0
    <3>1. \A t \in Nat : tokens - t \in Int
      OBVIOUS
    <3>2. left \in Int
      BY <2>1, <3>1
    <3> HIDE DEF left
    <3> QED
      BY <1>3, <3>2
  <2> HIDE DEF left
  <2>3. \A n \in 0..Len(items) : Cost(n) \in Nat /\ (n = 0 => Cost(n) = 0)
    <3> TAKE n \in 0..Len(items)
    <3> DEFINE costs == [i \in 1..n |-> Tokens(items[i])]
    <3>1. \A i \in 1..n : items[i] \in Nat
      OBVIOUS
    <3>2. \A i \in 1..n : Tokens(items[i]) \in Nat
      BY <3>1, TokensProperties
    <3>3. costs \in Seq(Nat) /\ Len(costs) = n
      BY <3>2
    <3> HIDE DEF costs
    <3>4. Total(costs) \in Nat /\ (Len(costs) = 0 => Total(costs) = 0)
      BY <3>3, TotalProperties
    <3> QED
      BY <3>3, <3>4 DEF costs
  <2>4. whole \in 0..Len(items)
    <3>1. 0 \in fit
      <4>1. Len(items) \in Nat
        OBVIOUS
      <4>2. 0 \in 0..Len(items)
        BY <4>1
      <4>3. Cost(0) = 0
        BY <2>3, <4>2
      <4> HIDE DEF Cost
      <4> QED
        BY <2>2, <4>2, <4>3
    <3>2. \E x \in fit : \A y \in fit : x >= y
      <4>1. fit \in SUBSET (0..Len(items)) /\ Len(items) \in Nat
        OBVIOUS
      <4> HIDE DEF fit
      <4> QED
        BY <3>1, <4>1, LastFit
    <3> QED
      BY <3>2 DEF Max
  <2> HIDE DEF whole
  <2>5. chars \in Nat
    <3> DEFINE sizes == [i \in 1..whole |-> items[i] + 1]
    <3>1. \A i \in 1..whole : items[i] \in Nat
      BY <2>4
    <3>2. \A i \in 1..whole : items[i] + 1 \in Nat
      BY <3>1
    <3>3. sizes \in Seq(Nat)
      BY <2>4, <3>2
    <3> HIDE DEF sizes
    <3>4. Total(sizes) \in Nat
      BY <3>3, TotalProperties
    <3> QED
      BY <3>4 DEF sizes
  <2>6. short \in Nat
    <3>1. CASE whole < Len(items) /\ inner > 0
      <4>1. inner \in Int
        <5>1. \A c, t \in Nat : left - c - t \in Int
          BY <2>2
        <5> QED
          BY <2>1, <2>3, <2>4, <5>1
      <4>2. items[whole + 1] \in Nat
        BY <2>4, <3>1
      <4> HIDE DEF inner
      <4>3. inner * CharsPerToken \in Nat
        <5>1. \A k \in Nat : inner * k \in Nat
          BY <3>1, <4>1
        <5> QED
          BY <2>1, <5>1
      <4>4. Smaller(items[whole + 1], inner * CharsPerToken) \in Nat
        BY <4>2, <4>3 DEF Smaller
      <4> QED
        BY <2>1, <3>1, <4>4
    <3>2. CASE ~ (whole < Len(items) /\ inner > 0)
      BY <3>2
    <3> QED
      BY <3>1, <3>2
  <2> HIDE DEF chars, short
  <2> QED
    BY <1>1, <1>3, <2>1, <2>5, <2>6
<1> QED
  BY <1>2, <1>3

-----------------------------------------------------------------------------
(* The assembly.                                                           *)

BudgetTypes ==
  /\ stage \in {"asked", "judged", "assembled", "recalled", "injected", "returned"}
  /\ source \in Transcripts /\ budget \in Budgets /\ owned \in BOOLEAN
  /\ remembered \in {Nothing} \cup Snapshots(source)
  /\ prompt \in Prompts

(* While the projection is owned, the prompt ends with the newest turn. *)
TurnHeld ==
  owned /\ stage \in {"assembled", "recalled", "injected"} =>
    HoldsTurn(prompt.messages, source)

(* What the second enforcement leaves: a prompt that fits, one without     *)
(* messages, or a projection whose context is gone.                        *)
Enforced ==
  stage = "injected" /\ budget > 0 =>
    \/ WithinBudget(prompt, budget)
    \/ ~ owned /\ prompt.messages = <<>>
    \/ owned /\ prompt.context = 0

(* Budgets leave room for more than the wrapper of one message. *)
RoomForOne == \A b \in Budgets : b > 0 => Effective(b) > MessageOverhead

BudgetInv ==
  /\ BudgetTypes /\ TurnHeld /\ Enforced /\ AimsLower /\ TurnsKept
  /\ RoomForOne => FitsBudget

LEMMA SourceTypes ==
  ASSUME BudgetTypes
  PROVE  /\ source \in Seq(Messages) /\ budget \in Nat
         /\ \A i \in DOMAIN source : source[i].place = i
  BY Inputs DEF BudgetTypes

(* What is remembered has a size, and what it leaves of the transcript     *)
(* holds its newest turn, as the recent tail does.                         *)
LEMMA RememberedNat ==
  ASSUME NEW ms, NEW snapshot \in {Nothing} \cup Snapshots(ms)
  PROVE  snapshot.context \in Nat
<1>1. Nothing.context \in Nat
  BY DEF Nothing
<1>2. \A any \in Snapshots(ms) : any.context \in Nat
  BY Inputs DEF Snapshots
<1> QED
  BY <1>1, <1>2

LEMMA ProjectedProperties ==
  ASSUME source \in Seq(Messages), NEW owns \in BOOLEAN,
         NEW snapshot \in {Nothing} \cup Snapshots(source)
  PROVE  /\ Projected(owns, snapshot) \in Seq(Messages)
         /\ owns => HoldsTurn(Projected(owns, snapshot), source)
<1>1. CASE ~ owns
  BY <1>1 DEF Projected
<1>2. CASE owns /\ snapshot = Nothing
  <2>1. Projected(owns, snapshot) = AlignedSuffix(source, WindowSize)
    BY <1>2 DEF Projected
  <2> QED
    BY <2>1, AlignedHoldsTurn, Sizes
<1>3. CASE owns /\ snapshot # Nothing
  <2>1. Projected(owns, snapshot) = From(source, snapshot.start + 1)
    BY <1>3 DEF Projected
  <2>2. snapshot.start \in Starts(source)
    BY <1>3 DEF Snapshots
  <2> QED
    BY <2>1, <2>2, SnapshotHoldsTurn
<1> QED
  BY <1>1, <1>2, <1>3

LEMMA EnforceProperties ==
  ASSUME BudgetTypes, NEW p \in Prompts
  PROVE  /\ Enforce(p) \in Prompts
         /\ budget > 0 =>
              \/ WithinBudget(Enforce(p), budget)
              \/ ~ owned /\ Enforce(p).messages = <<>>
              \/ owned /\ Enforce(p).context = 0
         /\ owned /\ HoldsTurn(p.messages, source) => HoldsTurn(Enforce(p).messages, source)
<1>1. source \in Seq(Messages) /\ budget \in Nat /\ owned \in BOOLEAN
  BY SourceTypes DEF BudgetTypes
<1>2. CASE owned
  <2>1. Enforce(p) = EnforceProjection(p, budget)
    BY <1>2 DEF Enforce
  <2> DEFINE r == EnforceProjection(p, budget)
  <2>2. /\ r \in Prompts
        /\ budget > 0 => (r.context > 0 => WithinBudget(r, budget))
        /\ HoldsTurn(p.messages, source) => HoldsTurn(r.messages, source)
    BY <1>1, EnforceProjectionProperties
  <2>3. r.context \in Nat
    BY <2>2, PromptProperties
  <2> HIDE DEF r
  <2> QED
    BY <1>2, <2>1, <2>2, <2>3 DEF r
<1>3. CASE ~ owned
  <2>1. Enforce(p) = EnforcePlain(p, budget)
    BY <1>3 DEF Enforce
  <2> QED
    BY <1>1, <1>3, <2>1, EnforcePlainProperties
<1> QED
  BY <1>1, <1>2, <1>3

(* A projection that holds the newest turn is not repaired, when the turn's *)
(* user message says something, and all of the turn is in it.              *)
LEMMA TurnIsKept ==
  ASSUME BudgetTypes, NEW p \in Prompts, HoldsTurn(p.messages, source),
         LastSafeUser(source) = LastUser(source)
  PROVE  /\ LastUser(source) > 0 => SafeUsers(p.messages) # {}
         /\ NewestTurn \subseteq {m.place : m \in ToSet(p.messages)}
<1>1. source \in Seq(Messages) /\ Len(source) \in Nat
      /\ \A i \in DOMAIN source : source[i].place = i
  BY SourceTypes
<1>2. PICK s \in 1..(Len(source) + 1) :
        p.messages = From(source, s) /\ (LastUser(source) > 0 => s <= LastUser(source))
  BY DEF HoldsTurn
<1>3. PICK ms \in Seq(Messages) :
        /\ ms = p.messages /\ Len(ms) = Len(source) - s + 1
        /\ \A j \in 1..(Len(source) - s + 1) : ms[j] = source[s + j - 1]
  BY <1>1, <1>2, FromProperties
<1>4. ASSUME LastUser(source) > 0 PROVE SafeUsers(ms) # {}
  <2>1. SafeUsers(source) # {}
    BY <1>4 DEF LastSafeUser
  <2>2. LastUser(source) \in SafeUsers(source) /\ LastUser(source) \in 1..Len(source)
        /\ source[LastUser(source)].role = "user" /\ source[LastUser(source)].size > 0
    BY <1>1, <2>1, SafeUserProperties
  <2> DEFINE j == LastUser(source) - s + 1
  <2>3. j \in 1..(Len(source) - s + 1) /\ s + j - 1 = LastUser(source)
    BY <1>1, <1>2, <1>4, <2>2
  <2> HIDE DEF j
  <2>4. j \in DOMAIN ms /\ ms[j].role = "user" /\ ms[j].size > 0
    BY <1>3, <2>2, <2>3
  <2> QED
    BY <2>4 DEF SafeUsers, UserPlaces
<1>5. ASSUME NEW i \in NewestTurn PROVE i \in {m.place : m \in ToSet(ms)}
  <2>1. i \in 1..Len(source) /\ LastUser(source) > 0 /\ LastUser(source) <= i
    BY <1>1, <1>5 DEF NewestTurn
  <2>2. LastUser(source) \in Int
    <3>1. UserPlaces(source) # {}
      BY <2>1 DEF LastUser
    <3>2. LastUser(source) \in UserPlaces(source)
          /\ UserPlaces(source) \in SUBSET (1..Len(source))
      BY <1>1, <3>1, LastUserProperties
    <3> QED
      BY <3>2
  <2> DEFINE j == i - s + 1
  <2>3. j \in 1..(Len(source) - s + 1) /\ s + j - 1 = i
    BY <1>1, <1>2, <2>1, <2>2
  <2> HIDE DEF j
  <2>4. j \in DOMAIN ms /\ ms[j] = source[i] /\ source[i].place = i
    BY <1>1, <1>3, <2>1, <2>3
  <2>5. ms[j] \in ToSet(ms)
    BY <2>4 DEF ToSet
  <2> QED
    BY <2>4, <2>5
<1> QED
  BY <1>3, <1>4, <1>5

LEMMA SameSnapshots == source' = source => Snapshots(source)' = Snapshots(source)
  BY DEF Snapshots, Starts, AlignedSuffix, UserPlaces, From, Larger

LEMMA TargetBelow ==
  ASSUME NEW count \in Nat, count > 0, NEW threshold \in Int
  PROVE  LET target == Target(count, threshold) IN
         target > 0 => target <= count /\ (count > 1 => target < count)
  BY DEF Target, Larger

LEMMA ThresholdInt ==
  ASSUME NEW b \in Nat
  PROVE  Threshold(b) \in Int
<1>1. CompactThreshold \in Nat /\ ThresholdPercent \in Nat /\ ThresholdFloor \in Nat
      /\ ThresholdCeiling \in Nat /\ SessionBudget \in Int
  BY Sizes
<1> DEFINE percent == Larger(5, Smaller(99, ThresholdPercent))
           derived == Larger(1, (b * percent) \div 100)
           bounded == Larger(ThresholdFloor, Smaller(ThresholdCeiling, derived))
<1>2. percent \in Nat
  BY <1>1 DEF Larger, Smaller
<1> HIDE DEF percent
<1>3. b * percent \in Nat
  BY <1>2
<1>4. derived \in Nat
  <2>1. \A n \in Nat : Larger(1, n \div 100) \in Nat
    BY DEF Larger
  <2> QED
    BY <1>3, <2>1
<1> HIDE DEF derived
<1>5. bounded \in Nat
  BY <1>1, <1>4 DEF Larger, Smaller
<1> HIDE DEF bounded
<1>6. Threshold(b) = IF CompactThreshold > 0 THEN CompactThreshold
                     ELSE IF SessionBudget = 0 \/ b = 0 THEN 0
                     ELSE IF SessionBudget > 0 THEN Smaller(bounded, SessionBudget)
                     ELSE bounded
  BY DEF Threshold, bounded, derived, percent
<1> QED
  BY <1>1, <1>5, <1>6 DEF Smaller

LEMMA BudgetInitially == BudgetInit => BudgetInv
<1> SUFFICES ASSUME BudgetInit PROVE BudgetInv
  OBVIOUS
<1>1. prompt \in Prompts
  BY NoMessages DEF BudgetInit, Prompts
<1> QED
  BY <1>1 DEF BudgetInit, BudgetInv, BudgetTypes, TurnHeld, Enforced, AimsLower, TurnsKept,
              FitsBudget

(* What is judged, assembled and cut stays within the invariant, and       *)
(* nothing is returned yet.                                                *)
LEMMA JudgeStep == BudgetInv /\ Judge => BudgetInv'
<1> SUFFICES ASSUME BudgetInv, Judge PROVE BudgetInv'
  OBVIOUS
<1>1. BudgetTypes /\ source \in Seq(Messages) /\ budget \in Nat
  BY SourceTypes DEF BudgetInv
<1>2. /\ stage' = "judged" /\ UNCHANGED <<source, budget, prompt>>
      /\ \/ UNCHANGED <<owned, remembered>>
         \/ owned' = FALSE /\ remembered' = Nothing
  BY DEF Judge, Advance
<1>3. PICK claimed \in Claims :
        LET count == Larger(1, Larger(claimed,
                       MessagesTokens(AlignedSuffix(source, WindowSize)))) IN
        pressure' = [count |-> count, target |-> Target(count, Threshold(budget))]
  BY DEF Judge
<1> DEFINE recent == MessagesTokens(AlignedSuffix(source, WindowSize))
           count == Larger(1, Larger(claimed, recent))
<1>4. recent \in Nat /\ claimed \in Nat
  BY <1>1, AlignedHoldsTurn, MessagesTokensNat, Sizes, Inputs
<1> HIDE DEF recent
<1>5. count \in Nat /\ count > 0
  BY <1>4 DEF Larger
<1>6. pressure' = [count |-> count, target |-> Target(count, Threshold(budget))]
  BY <1>3 DEF recent
<1> HIDE DEF count
<1>7. AimsLower'
  BY <1>1, <1>5, <1>6, ThresholdInt, TargetBelow DEF AimsLower
<1>8. BudgetTypes'
  <2>1. Snapshots(source)' = Snapshots(source)
    BY <1>2, SameSnapshots
  <2>2. owned' \in BOOLEAN /\ remembered' \in {Nothing} \cup Snapshots(source)
    BY <1>1, <1>2 DEF BudgetTypes
  <2> QED
    BY <1>1, <1>2, <2>1, <2>2 DEF BudgetTypes
<1> QED
  BY <1>2, <1>7, <1>8 DEF BudgetInv, TurnHeld, Enforced, TurnsKept, FitsBudget

LEMMA AssembleStep == BudgetInv /\ Assemble => BudgetInv'
<1> SUFFICES ASSUME BudgetInv, Assemble PROVE BudgetInv'
  OBVIOUS
<1>1. /\ BudgetTypes /\ source \in Seq(Messages) /\ budget \in Nat /\ owned \in BOOLEAN
      /\ remembered \in {Nothing} \cup Snapshots(source)
  BY SourceTypes DEF BudgetInv, BudgetTypes
<1>2. stage' = "assembled" /\ UNCHANGED <<source, budget>>
      /\ pressure' = [count |-> 0, target |-> 0]
  BY DEF Assemble, Advance
<1>3. PICK context \in ContextSizes, extra \in ExtraSizes,
           estimate \in {0} \cup Budgets, asked \in BOOLEAN :
        /\ owned' = (owned \/ context > 0)
        /\ remembered' = IF asked /\ context > 0 THEN Nothing ELSE remembered
        /\ prompt' = [messages |-> Projected(owned', remembered'),
                      context |-> IF asked /\ context = 0 THEN remembered.context
                                  ELSE context,
                      extra |-> extra, estimated |-> estimate]
  BY DEF Assemble
<1>4. context \in Nat /\ extra \in Nat /\ estimate \in Nat
      /\ remembered.context \in Nat
  <2>1. context \in Nat /\ extra \in Nat /\ estimate \in Nat
    <3>1. Budgets \subseteq Nat /\ ExtraSizes \subseteq Nat /\ ContextSizes \subseteq Nat
      BY Inputs
    <3> QED
      BY <3>1
  <2>2. remembered.context \in Nat
    BY <1>1, RememberedNat
  <2> QED
    BY <2>1, <2>2
<1>5. PICK owns \in BOOLEAN, snapshot \in {Nothing} \cup Snapshots(source) :
        owns = owned' /\ snapshot = remembered'
  <2>1. owned' \in BOOLEAN
    BY <1>1, <1>3
  <2>2. Nothing \in {Nothing} \cup Snapshots(source)
    OBVIOUS
  <2>3. remembered' \in {Nothing} \cup Snapshots(source)
    <3>1. remembered' = Nothing \/ remembered' = remembered
      BY <1>3
    <3> QED
      BY <1>1, <2>2, <3>1
  <2> QED
    BY <2>1, <2>3
<1>6. /\ Projected(owns, snapshot) \in Seq(Messages)
      /\ owns => HoldsTurn(Projected(owns, snapshot), source)
  BY <1>1, ProjectedProperties
<1>7. prompt' = [messages |-> Projected(owns, snapshot),
                 context |-> IF asked /\ context = 0 THEN remembered.context ELSE context,
                 extra |-> extra, estimated |-> estimate]
  BY <1>3, <1>5
<1>8. prompt' \in Prompts /\ (owned' => HoldsTurn(prompt'.messages, source))
  BY <1>4, <1>5, <1>6, <1>7 DEF Prompts
<1>9. BudgetTypes'
  <2>1. Snapshots(source)' = Snapshots(source)
    BY <1>2, SameSnapshots
  <2> QED
    BY <1>1, <1>2, <1>5, <1>8, <2>1 DEF BudgetTypes
<1>10. TurnHeld'
  <2>1. \A ms : HoldsTurn(ms, source) => HoldsTurn(ms, source')
    BY <1>2
  <2> QED
    BY <1>2, <1>8 DEF TurnHeld, HoldsTurn, From, LastUser, UserPlaces
<1> QED
  BY <1>2, <1>9, <1>10
     DEF BudgetInv, Enforced, AimsLower, TurnsKept, FitsBudget

LEMMA RecallStep == BudgetInv /\ Recall => BudgetInv'
<1> SUFFICES ASSUME BudgetInv, Recall PROVE BudgetInv'
  OBVIOUS
<1>1. BudgetTypes /\ prompt \in Prompts /\ AimsLower
      /\ (owned => HoldsTurn(prompt.messages, source))
  BY DEF BudgetInv, BudgetTypes, TurnHeld, Recall, Advance
<1>2. stage' = "recalled" /\ UNCHANGED <<source, budget, owned, remembered, pressure>>
  BY DEF Recall, Advance
<1>3. PICK extra \in ExtraSizes : prompt' = Enforce([prompt EXCEPT !.extra = @ + extra])
  BY DEF Recall
<1> DEFINE more == [prompt EXCEPT !.extra = @ + extra]
<1>4. prompt.extra + extra \in Nat
  BY <1>1, Inputs DEF Prompts
<1>5. more \in Prompts /\ more.messages = prompt.messages
  BY <1>1, <1>4 DEF Prompts
<1> HIDE DEF more
<1>6. prompt' \in Prompts /\ (owned => HoldsTurn(prompt'.messages, source))
  BY <1>1, <1>3, <1>5, EnforceProperties DEF more
<1> QED
  BY <1>1, <1>2, <1>6
     DEF BudgetInv, BudgetTypes, TurnHeld, Enforced, AimsLower, TurnsKept, FitsBudget

LEMMA InjectStep == BudgetInv /\ Inject => BudgetInv'
<1> SUFFICES ASSUME BudgetInv, Inject PROVE BudgetInv'
  OBVIOUS
<1>1. BudgetTypes /\ prompt \in Prompts /\ AimsLower /\ budget \in Nat
      /\ (owned => HoldsTurn(prompt.messages, source))
  BY SourceTypes DEF BudgetInv, BudgetTypes, TurnHeld, Inject, Advance
<1>2. stage' = "injected" /\ UNCHANGED <<source, budget, owned, remembered, pressure>>
  BY DEF Inject, Advance
<1> DEFINE left == IF budget = 0 THEN 1000
                   ELSE Effective(budget) - Tokens(Added(prompt)) - Reserved
           More(section, block) ==
             [prompt EXCEPT !.extra = @ + section + block,
                            !.estimated = @ + Tokens(section) + Tokens(block)]
           Capped(more) == CutInjection(more, InjectionCap)
           Freed(more) == Tokens(Added(more)) - Tokens(Added(Capped(more)))
           Lowered(more) ==
             [Capped(more) EXCEPT !.estimated = Larger(0, @ - Freed(more))]
<1>3. PICK items \in ItemLists, block \in ExtraSizes :
        prompt' = Enforce(Lowered(More(Section(items, left), block)))
  BY DEF Inject
<1>4. left \in Int
  <2>1. Effective(budget) \in Nat /\ Tokens(Added(prompt)) \in Nat /\ Reserved \in Nat
    BY <1>1, EffectiveNat, PromptProperties, Sizes
  <2>2. \A l, u, k \in Nat : l - u - k \in Int
    OBVIOUS
  <2> QED
    BY <2>1, <2>2
<1> HIDE DEF left
<1>5. PICK section \in Nat : section = Section(items, left)
  BY <1>4, SectionNat, Inputs
<1> DEFINE more == More(section, block)
<1>6. more \in Prompts /\ more.messages = prompt.messages
  <2>1. block \in Nat /\ prompt.extra \in Nat /\ prompt.estimated \in Nat
        /\ Tokens(section) \in Nat /\ Tokens(block) \in Nat
    BY <1>1, Inputs, PromptProperties, TokensProperties
  <2>2. prompt.extra + section + block \in Nat
        /\ prompt.estimated + Tokens(section) + Tokens(block) \in Nat
    BY <2>1
  <2> QED
    BY <1>1, <2>2 DEF Prompts
<1>7. prompt' = Enforce(Lowered(more))
  BY <1>3, <1>5
<1> HIDE DEF more
<1> DEFINE capped == CutInjection(more, InjectionCap)
           estimated == Larger(0, capped.estimated - Freed(more))
<1>8. capped \in Prompts /\ capped.messages = prompt.messages
  <2>1. InjectionCap \in Int
    BY Sizes
  <2> QED
    BY <1>6, <2>1, CutInjectionProperties
<1>9. estimated \in Nat
  <2>1. capped.estimated \in Nat /\ Tokens(Added(capped)) \in Nat /\ Tokens(Added(more)) \in Nat
    BY <1>6, <1>8, PromptProperties
  <2>2. \A e, m, c \in Nat : Larger(0, e - (m - c)) \in Nat
    BY DEF Larger
  <2> QED
    BY <2>1, <2>2
<1> DEFINE lowered == [capped EXCEPT !.estimated = estimated]
<1>10. prompt' = Enforce(lowered)
  BY <1>7
<1> HIDE DEF capped, estimated
<1>11. lowered \in Prompts /\ lowered.messages = prompt.messages
  BY <1>8, <1>9 DEF Prompts
<1> HIDE DEF lowered
<1>12. /\ prompt' \in Prompts
       /\ budget > 0 => \/ WithinBudget(prompt', budget)
                        \/ ~ owned /\ prompt'.messages = <<>>
                        \/ owned /\ prompt'.context = 0
       /\ owned => HoldsTurn(prompt'.messages, source)
  BY <1>1, <1>10, <1>11, EnforceProperties
<1> QED
  BY <1>1, <1>2, <1>12
     DEF BudgetInv, BudgetTypes, TurnHeld, Enforced, AimsLower, TurnsKept, FitsBudget

(* What is returned: a projection only with its context, and anything else *)
(* repaired from the source.                                               *)
LEMMA ReturnStep == BudgetInv /\ Return => BudgetInv'
<1> SUFFICES ASSUME BudgetInv, Return PROVE BudgetInv'
  OBVIOUS
<1>1. /\ BudgetTypes /\ prompt \in Prompts /\ AimsLower /\ owned \in BOOLEAN
      /\ source \in Seq(Messages) /\ budget \in Nat /\ budget \in Budgets
      /\ owned => HoldsTurn(prompt.messages, source)
      /\ budget > 0 => \/ WithinBudget(prompt, budget)
                       \/ ~ owned /\ prompt.messages = <<>>
                       \/ owned /\ prompt.context = 0
  BY SourceTypes DEF BudgetInv, BudgetTypes, TurnHeld, Enforced, Return, Advance
<1> DEFINE repaired == Repaired(prompt, source, budget)
           intact == owned => prompt.context > 0 /\ repaired.context > 0
           replaced == Repaired(Uncompacted(prompt), source, budget)
           plain == Repaired(Fallback(source, budget), source, budget)
<1>2. stage' = "returned" /\ UNCHANGED <<source, budget, remembered, pressure>>
  BY DEF Return, Advance
<1>3. PICK current \in BOOLEAN :
        /\ prompt' = IF ~ current THEN plain ELSE IF intact THEN repaired ELSE replaced
        /\ owned' = (owned /\ intact /\ current)
  BY DEF Return
<1>4. /\ repaired \in Prompts
      /\ SafeUsers(prompt.messages) # {} => repaired = prompt
      /\ SafeUsers(source) # {} => SafeUsers(repaired.messages) # {}
      /\ /\ budget > 0 /\ Effective(budget) > MessageOverhead /\ SafeUsers(source) # {}
         /\ WithinBudget(prompt, budget) \/ prompt.messages = <<>>
         => WithinBudget(repaired, budget)
  BY <1>1, RepairedProperties
<1>5. /\ replaced \in Prompts
      /\ SafeUsers(source) # {} => SafeUsers(replaced.messages) # {}
      /\ budget > 0 /\ Effective(budget) > MessageOverhead /\ SafeUsers(source) # {}
         => WithinBudget(replaced, budget)
  BY <1>1, UncompactedProperties, RepairedProperties
<1>6. /\ plain \in Prompts
      /\ SafeUsers(source) # {} => SafeUsers(plain.messages) # {}
      /\ budget > 0 /\ Effective(budget) > MessageOverhead /\ SafeUsers(source) # {}
         => WithinBudget(plain, budget)
  BY <1>1, FallbackProperties, RepairedProperties
<1> HIDE DEF repaired, replaced, plain
<1>7. prompt' \in Prompts /\ owned' \in BOOLEAN
      /\ (SafeUsers(source) # {} => SafeUsers(prompt'.messages) # {})
  BY <1>1, <1>3, <1>4, <1>5, <1>6
<1>8. ASSUME RoomForOne, budget > 0, SafeUsers(source) # {}
      PROVE  WithinBudget(prompt', budget)
  <2>1. Effective(budget) > MessageOverhead
    BY <1>1, <1>8 DEF RoomForOne
  <2>2. CASE current /\ intact
    <3>1. owned => prompt.context > 0 /\ prompt.context # 0
      BY <1>1, <2>2, PromptProperties
    <3>2. WithinBudget(prompt, budget) \/ prompt.messages = <<>>
      BY <1>1, <1>8, <3>1
    <3> QED
      BY <1>3, <1>4, <1>8, <2>1, <2>2, <3>2
  <2>3. CASE current /\ ~ intact
    BY <1>3, <1>5, <1>8, <2>1, <2>3
  <2>4. CASE ~ current
    BY <1>3, <1>6, <1>8, <2>1, <2>4
  <2> QED
    BY <2>2, <2>3, <2>4
<1>9. ASSUME owned' PROVE owned /\ prompt' = repaired /\ prompt'.context # 0
  <2>1. owned /\ current /\ intact
    BY <1>3, <1>9
  <2>2. prompt' = repaired /\ repaired.context > 0
    BY <1>3, <2>1
  <2>3. repaired.context \in Nat
    BY <1>4, PromptProperties
  <2> QED
    BY <2>1, <2>2, <2>3
<1>10. ASSUME owned', LastSafeUser(source) = LastUser(source)
       PROVE  NewestTurn \subseteq {m.place : m \in ToSet(prompt'.messages)}
  <2>1. owned /\ prompt' = repaired /\ HoldsTurn(prompt.messages, source)
    BY <1>1, <1>9, <1>10
  <2>2. /\ LastUser(source) > 0 => SafeUsers(prompt.messages) # {}
        /\ NewestTurn \subseteq {m.place : m \in ToSet(prompt.messages)}
    BY <1>1, <1>10, <2>1, TurnIsKept
  <2>3. CASE LastUser(source) > 0
    BY <1>4, <2>1, <2>2, <2>3
  <2>4. CASE ~ (LastUser(source) > 0)
    <3>1. NewestTurn = {}
      BY <2>4 DEF NewestTurn
    <3> QED
      BY <3>1
  <2> QED
    BY <2>3, <2>4
<1>11. BudgetTypes' /\ TurnHeld' /\ Enforced' /\ AimsLower'
  <2>1. BudgetTypes'
    BY <1>1, <1>2, <1>7, SameSnapshots DEF BudgetTypes
  <2> QED
    BY <1>1, <1>2, <2>1 DEF TurnHeld, Enforced, AimsLower
<1>12. TurnsKept'
  <2>1. NewestTurn' = NewestTurn /\ source' = source
    BY <1>2 DEF NewestTurn
  <2> QED
    BY <1>7, <1>9, <1>10, <2>1 DEF TurnsKept, KeptPlaces
<1>13. RoomForOne => FitsBudget'
  BY <1>2, <1>8 DEF FitsBudget, WithinBudget
<1> QED
  BY <1>11, <1>12, <1>13 DEF BudgetInv, RoomForOne

(* buildAssembleFallback: a projection that keeps its context fits.        *)
LEMMA AssembleFallbackProperties ==
  ASSUME BudgetTypes, owned
  PROVE  /\ AssembleFallback \in Prompts
         /\ HoldsTurn(AssembleFallback.messages, source)
         /\ budget > 0 /\ AssembleFallback.context > 0 =>
              WithinBudget(AssembleFallback, budget)
<1>1. /\ source \in Seq(Messages) /\ budget \in Nat
      /\ remembered \in {Nothing} \cup Snapshots(source)
  BY SourceTypes DEF BudgetTypes
<1>2. PICK messages \in Seq(Messages) :
        messages = Projected(owned, remembered) /\ HoldsTurn(messages, source)
  <2>1. owned \in BOOLEAN
    BY DEF BudgetTypes
  <2> QED
    BY <1>1, <2>1, ProjectedProperties
<1>3. PICK context \in Nat : context = remembered.context
  BY <1>1, RememberedNat
<1>4. PICK estimated \in Nat : estimated = MessagesTokens(messages) + Tokens(context)
  BY MessagesTokensNat, TokensProperties
<1> DEFINE whole == [messages |-> messages, context |-> context, extra |-> 0,
                     estimated |-> estimated]
<1>5. whole \in Prompts /\ whole.messages = messages
  BY DEF Prompts
<1>6. AssembleFallback = EnforceProjection(whole, budget)
  BY <1>2, <1>3, <1>4 DEF AssembleFallback
<1> HIDE DEF whole
<1> QED
  BY <1>1, <1>2, <1>5, <1>6, EnforceProjectionProperties

(* What a failure returns: what is remembered, if its context is whole, or *)
(* the plain fallback; and either is repaired from the source.             *)
LEMMA FailStep == BudgetInv /\ Fail => BudgetInv'
<1> SUFFICES ASSUME BudgetInv, Fail PROVE BudgetInv'
  OBVIOUS
<1>1. /\ BudgetTypes /\ source \in Seq(Messages) /\ budget \in Nat
      /\ budget \in Budgets /\ owned \in BOOLEAN
  BY SourceTypes DEF BudgetInv, BudgetTypes
<1> DEFINE plain == Repaired(Fallback(source, budget), source, budget)
           kept == Repaired(AssembleFallback, source, budget)
<1>2. stage' = "returned" /\ UNCHANGED <<source, budget, remembered>>
      /\ pressure' = [count |-> 0, target |-> 0]
  BY DEF Fail
<1>3. \/ owned' = FALSE /\ prompt' = plain
      \/ /\ owned' = TRUE /\ prompt' = kept
         /\ owned /\ AssembleFallback.context > 0
  BY <1>1 DEF Fail
<1>4. /\ plain \in Prompts
      /\ SafeUsers(source) # {} => SafeUsers(plain.messages) # {}
      /\ budget > 0 /\ Effective(budget) > MessageOverhead /\ SafeUsers(source) # {}
         => WithinBudget(plain, budget)
  BY <1>1, FallbackProperties, RepairedProperties
<1>5. ASSUME owned, AssembleFallback.context > 0
      PROVE  /\ kept \in Prompts
             /\ SafeUsers(source) # {} => SafeUsers(kept.messages) # {}
             /\ SafeUsers(AssembleFallback.messages) # {} => kept = AssembleFallback
             /\ budget > 0 /\ Effective(budget) > MessageOverhead /\ SafeUsers(source) # {}
                => WithinBudget(kept, budget)
             /\ kept.context = 0 => Len(kept.messages) = 1
  <2>1. /\ AssembleFallback \in Prompts
        /\ budget > 0 => WithinBudget(AssembleFallback, budget)
    BY <1>1, <1>5, AssembleFallbackProperties
  <2> QED
    BY <1>1, <1>5, <2>1, RepairedProperties, OnlyTheUserTurn
<1>6. ASSUME owned', LastSafeUser(source) = LastUser(source)
      PROVE  NewestTurn \subseteq {m.place : m \in ToSet(prompt'.messages)}
  <2>1. owned /\ prompt' = kept /\ AssembleFallback.context > 0
    BY <1>3, <1>6
  <2>2. AssembleFallback \in Prompts /\ HoldsTurn(AssembleFallback.messages, source)
    BY <1>1, <2>1, AssembleFallbackProperties
  <2>3. /\ LastUser(source) > 0 => SafeUsers(AssembleFallback.messages) # {}
        /\ NewestTurn \subseteq {m.place : m \in ToSet(AssembleFallback.messages)}
    BY <1>1, <1>6, <2>2, TurnIsKept
  <2>4. CASE LastUser(source) > 0
    BY <1>5, <2>1, <2>3, <2>4
  <2>5. CASE ~ (LastUser(source) > 0)
    <3>1. NewestTurn = {}
      BY <2>5 DEF NewestTurn
    <3> QED
      BY <3>1
  <2> QED
    BY <2>4, <2>5
<1> HIDE DEF plain, kept
<1>7. prompt' \in Prompts /\ owned' \in BOOLEAN
      /\ (SafeUsers(source) # {} => SafeUsers(prompt'.messages) # {})
      /\ (owned' /\ prompt'.context = 0 => Len(prompt'.messages) = 1)
  BY <1>3, <1>4, <1>5
<1>8. BudgetTypes' /\ TurnHeld' /\ Enforced' /\ AimsLower'
  <2>1. BudgetTypes'
    BY <1>1, <1>2, <1>7, SameSnapshots DEF BudgetTypes
  <2> QED
    BY <1>2, <2>1 DEF TurnHeld, Enforced, AimsLower
<1>9. TurnsKept'
  <2>1. NewestTurn' = NewestTurn /\ source' = source
    BY <1>2 DEF NewestTurn
  <2> QED
    BY <1>6, <1>7, <2>1 DEF TurnsKept, KeptPlaces
<1>10. RoomForOne => FitsBudget'
  <2>1. ASSUME RoomForOne, budget > 0, SafeUsers(source) # {}
        PROVE  WithinBudget(prompt', budget)
    <3>1. Effective(budget) > MessageOverhead
      BY <1>1, <2>1 DEF RoomForOne
    <3> QED
      BY <1>3, <1>4, <1>5, <2>1, <3>1
  <2> QED
    BY <1>2, <2>1 DEF FitsBudget, WithinBudget
<1> QED
  BY <1>8, <1>9, <1>10 DEF BudgetInv, RoomForOne

LEMMA BudgetStep == BudgetInv /\ [BudgetNext]_budgetVars => BudgetInv'
<1>1. ASSUME BudgetInv, UNCHANGED budgetVars PROVE BudgetInv'
  BY <1>1 DEF BudgetInv, budgetVars, BudgetTypes, TurnHeld, Enforced, AimsLower, TurnsKept,
              FitsBudget, RoomForOne, NewestTurn, KeptPlaces
<1> QED
  BY <1>1, JudgeStep, AssembleStep, RecallStep, InjectStep, ReturnStep, FailStep
     DEF BudgetNext

LEMMA BudgetInvariant == BudgetSpec => []BudgetInv
  BY BudgetInitially, BudgetStep, PTL DEF BudgetSpec

(* What a prompt is made of is estimated within the budget once it is      *)
(* returned to a host that has one, whatever was recalled and injected and *)
(* whichever of the cuts, the fallback and the repair it went through, the *)
(* projection a failure sends from memory included: as long as there is a  *)
(* user message to answer and the budget has room for more than the        *)
(* wrapper of one message.                                                 *)
THEOREM PromptsFitTheBudget ==
  ASSUME \A b \in Budgets : b > 0 => Effective(b) > MessageOverhead
  PROVE  BudgetSpec => []FitsBudget
<1>1. RoomForOne
  BY DEF RoomForOne
<1>2. BudgetInv => FitsBudget
  BY <1>1 DEF BudgetInv
<1> QED
  BY <1>2, BudgetInvariant, PTL

(* Whatever was cut, a transcript with a user message that says something  *)
(* is answered by a prompt with one.  A projection that is returned,       *)
(* whether it was assembled or is what the catch block remembers, holds    *)
(* the whole of the newest turn; and if the repair of the user turn cost   *)
(* it its context, it holds that user turn and nothing else.               *)
THEOREM NewestTurnsAreKept == BudgetSpec => []TurnsKept
<1>1. BudgetInv => TurnsKept
  BY DEF BudgetInv
<1> QED
  BY <1>1, BudgetInvariant, PTL

(* A compaction is asked for less than there is (resolvePredictiveCompac-  *)
(* tionTarget), whatever the thresholds are configured to be.              *)
THEOREM CompactionAimsLower == BudgetSpec => []AimsLower
<1>1. BudgetInv => AimsLower
  BY DEF BudgetInv
<1> QED
  BY <1>1, BudgetInvariant, PTL
=============================================================================
