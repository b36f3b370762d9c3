--------------------------- MODULE DebateFileProofs ---------------------------
(***************************************************************************)
(* The record of a debate for any critics, claims, windows, and any number *)
(* of rounds, sections and crashes.                                        *)
(***************************************************************************)
EXTENDS DebateFile, FiniteSetTheorems, WellFoundedInduction, TLAPS

-----------------------------------------------------------------------------
(* The last k of a finite set of numbers.                                  *)

\* A set of numbers has a least one, a finite set a greatest one.
LEMMA LeastOne ==
  ASSUME NEW T \in SUBSET Nat, T # {}
  PROVE  \E x \in T : \A y \in T : x <= y
<1>1. PICK x \in T : \A y \in T : ~(<<y, x>> \in OpToRel(<, Nat))
  BY NatLessThanWellFounded, WFMin
<1>2. \A y \in T : ~(y < x)
  BY <1>1 DEF OpToRel
<1> QED
  BY <1>2

Above(rounds, r) == {q \in rounds : q > r}

LEMMA AboveFinite ==
  ASSUME NEW R, IsFiniteSet(R), NEW r
  PROVE  /\ IsFiniteSet(Above(R, r)) /\ Cardinality(Above(R, r)) \in Nat
         /\ Cardinality(Above(R, r)) <= Cardinality(R)
<1>1. Above(R, r) \in SUBSET R
  BY DEF Above
<1> QED
  BY <1>1, FS_Subset, FS_CardinalityType

LEMMA AboveShrinks ==
  ASSUME NEW R \in SUBSET Nat, NEW x \in Nat, NEW y \in Nat, x <= y
  PROVE  Above(R, y) \in SUBSET Above(R, x)
<1> SUFFICES ASSUME NEW q \in R, q > y PROVE q > x
  BY DEF Above
<1>1. q \in Nat
  OBVIOUS
<1> QED
  BY <1>1

LEMMA GreatestOne ==
  ASSUME NEW S \in SUBSET Nat, IsFiniteSet(S), S # {}
  PROVE  \E x \in S : \A y \in S : y <= x
<1> DEFINE T == {n \in Nat : \E x \in S : n = Cardinality(Above(S, x))}
<1>1. T \in SUBSET Nat /\ T # {}
  BY AboveFinite
<1>2. PICK t \in T : \A u \in T : t <= u
  BY <1>1, LeastOne
<1>3. PICK x \in S : t = Cardinality(Above(S, x))
  OBVIOUS
<1>4. ASSUME NEW y \in S, y > x PROVE FALSE
  <2>1. Above(S, y) \subseteq Above(S, x) /\ y \in Above(S, x) /\ y \notin Above(S, y)
    <3>1. x \in Nat /\ y \in Nat /\ x <= y /\ ~(y > y)
      BY <1>4
    <3> QED
      BY <1>4, <3>1, AboveShrinks DEF Above
  <2>2. Cardinality(Above(S, y)) < t
    <3>1. IsFiniteSet(Above(S, x)) /\ t \in Nat /\ Cardinality(Above(S, y)) \in Nat
      BY <1>3, AboveFinite
    <3> QED
      BY <2>1, <3>1, <1>3, FS_Subset
  <2>3. t <= Cardinality(Above(S, y))
    BY <1>2, AboveFinite
  <2> QED
    BY <2>2, <2>3, AboveFinite
<1> QED
  BY <1>4

\* One that is among the last of a set is among the last of a part of it.
LEMMA LastOfPart ==
  ASSUME NEW R \in SUBSET Nat, IsFiniteSet(R), NEW Q \in SUBSET R, NEW k \in Int
  PROVE  Last(R, k) \cap Q \subseteq Last(Q, k)
<1> SUFFICES ASSUME NEW r \in Last(R, k), r \in Q PROVE r \in Last(Q, k)
  OBVIOUS
<1>1. Above(Q, r) \in SUBSET Above(R, r) /\ IsFiniteSet(Q)
  BY FS_Subset DEF Above
<1>2. /\ Cardinality(Above(Q, r)) <= Cardinality(Above(R, r))
      /\ Cardinality(Above(Q, r)) \in Nat /\ Cardinality(Above(R, r)) \in Nat
  BY <1>1, AboveFinite, FS_Subset
<1>3. Cardinality(Above(R, r)) < k
  BY DEF Last, Above
<1>4. Cardinality(Above(Q, r)) < k
  BY <1>2, <1>3
<1> QED
  BY <1>4 DEF Last, Above

\* They are k, when there are so many.
LEMMA LastAreEnough ==
  ASSUME NEW R \in SUBSET Nat, IsFiniteSet(R), NEW k \in Int, k <= Cardinality(R)
  PROVE  k <= Cardinality(Last(R, k))
<1>1. Last(R, k) \subseteq R
  BY DEF Last
<1>2. IsFiniteSet(Last(R, k)) /\ Cardinality(Last(R, k)) \in Nat
  BY <1>1, AboveFinite, FS_Subset, FS_CardinalityType
<1>3. CASE R \subseteq Last(R, k)
  <2>1. Last(R, k) = R
    BY <1>1, <1>3
  <2> QED
    BY <2>1
<1>4. CASE ~(R \subseteq Last(R, k))
  <2>5. IsFiniteSet(R \ Last(R, k))
    BY FS_Subset
  <2>1. PICK r \in R \ Last(R, k) : \A q \in R \ Last(R, k) : q <= r
    BY <1>4, <2>5, GreatestOne
  <2>2. Above(R, r) \subseteq Last(R, k)
    <3> SUFFICES ASSUME NEW q \in R, q > r PROVE q \in Last(R, k)
      BY DEF Above
    <3>1. q \in Nat /\ r \in Nat
      BY <2>1
    <3> QED
      BY <2>1, <3>1
  <2>3. Cardinality(Above(R, r)) <= Cardinality(Last(R, k))
    BY <1>2, <2>2, FS_Subset
  <2>4. ~(Cardinality(Above(R, r)) < k)
    BY <2>1 DEF Last, Above
  <2> QED
    BY <1>2, <2>3, <2>4, AboveFinite
<1> QED
  BY <1>3, <1>4

\* A part of a set that has its last ones has the same last ones.
LEMMA LastOfTail ==
  ASSUME NEW R \in SUBSET Nat, IsFiniteSet(R), NEW Q \in SUBSET R, NEW k \in Int,
         Last(R, k) \subseteq Q
  PROVE  /\ Last(Q, k) = Last(R, k)
         /\ Cardinality(Q) < k <=> Cardinality(R) < k
<1>1. /\ IsFiniteSet(R) /\ IsFiniteSet(Q) /\ Cardinality(R) \in Nat /\ Cardinality(Q) \in Nat
      /\ Cardinality(Q) <= Cardinality(R)
  BY FS_Subset, FS_CardinalityType
<1>2. Cardinality(R) >= k => Cardinality(Q) >= k
  <2>1. Cardinality(Last(R, k)) <= Cardinality(Q) /\ Cardinality(Last(R, k)) \in Nat
    BY <1>1, FS_Subset, FS_CardinalityType
  <2> QED
    BY <1>1, <2>1, LastAreEnough
<1>3. ASSUME NEW r \in Last(Q, k) PROVE r \in Last(R, k)
  <2> SUFFICES ASSUME r \notin Last(R, k) PROVE FALSE
    OBVIOUS
  <2>1. r \in R /\ r \in Q /\ r \in Int
    BY <1>3 DEF Last
  <2>2. ~(Cardinality(Above(R, r)) < k)
    BY <2>1 DEF Last, Above
  <2>3. Cardinality(Above(R, r)) <= Cardinality(R) /\ Cardinality(Above(R, r)) \in Nat
    BY <1>1, AboveFinite, FS_Subset, Above(R, r) \subseteq R DEF Above
  <2>4. k <= Cardinality(Last(R, k))
    BY <1>1, <2>2, <2>3, LastAreEnough
  <2>5. Last(R, k) \subseteq Above(Q, r)
    <3> SUFFICES ASSUME NEW q \in Last(R, k) PROVE q > r
      BY DEF Above
    <3>1. q \in R /\ q \in Int /\ Cardinality(Above(R, q)) < k
      BY DEF Last, Above
    <3>2. q <= r => Above(R, r) \in SUBSET Above(R, q)
      BY <2>1, <3>1, AboveShrinks
    <3>3. q <= r => Cardinality(Above(R, r)) <= Cardinality(Above(R, q))
      BY <3>2, AboveFinite, FS_Subset
    <3> QED
      BY <2>1, <2>2, <3>1, <3>3, AboveFinite
  <2>6. Cardinality(Last(R, k)) <= Cardinality(Above(Q, r)) /\ Cardinality(Last(R, k)) \in Nat
    BY <2>5, AboveFinite, FS_Subset, FS_CardinalityType
  <2>7. Cardinality(Above(Q, r)) < k /\ Cardinality(Above(Q, r)) \in Nat
    BY <1>1, <1>3, AboveFinite DEF Last, Above
  <2> QED
    BY <2>4, <2>6, <2>7
<1> QED
  BY <1>1, <1>2, <1>3, LastOfPart

\* What follows one of the last is one of them.
LEMMA LastIsUp ==
  ASSUME NEW R \in SUBSET Nat, IsFiniteSet(R), NEW k \in Int,
         NEW r \in Last(R, k), NEW q \in R, r <= q
  PROVE  q \in Last(R, k)
<1>1. r \in Nat /\ q \in Nat /\ Cardinality(Above(R, r)) < k
  BY DEF Last, Above
<1>2. Cardinality(Above(R, q)) <= Cardinality(Above(R, r))
  BY <1>1, AboveShrinks, AboveFinite, FS_Subset
<1>3. Cardinality(Above(R, q)) < k
  BY <1>1, <1>2, AboveFinite
<1> QED
  BY <1>3 DEF Last, Above

\* The last of fewer are among the last of more.
LEMMA LastOfFewer ==
  ASSUME NEW R \in SUBSET Nat, IsFiniteSet(R), NEW k \in Int, NEW j \in Int, j <= k
  PROVE  Last(R, j) \subseteq Last(R, k)
<1> SUFFICES ASSUME NEW r \in Last(R, j) PROVE r \in Last(R, k)
  OBVIOUS
<1>1. r \in R /\ Cardinality(Above(R, r)) < j
  BY DEF Last, Above
<1>2. Cardinality(Above(R, r)) < k
  BY <1>1, AboveFinite
<1> QED
  BY <1>1, <1>2 DEF Last, Above

\* There is one last one at most.
LEMMA LastIsOne ==
  ASSUME NEW R \in SUBSET Nat, IsFiniteSet(R)
  PROVE  Cardinality(Last(R, 1)) < 2
<1>1. ASSUME NEW r \in Last(R, 1) PROVE Above(R, r) = {}
  <2>1. Cardinality(Above(R, r)) < 1
    BY DEF Last, Above
  <2> QED
    BY <2>1, AboveFinite, FS_EmptySet
<1>2. ASSUME NEW r \in Last(R, 1), NEW q \in Last(R, 1) PROVE r = q
  <2>1. r \in R /\ q \in R /\ ~(r > q) /\ ~(q > r)
    BY <1>1 DEF Last, Above
  <2> QED
    BY <2>1
<1>3. CASE Last(R, 1) = {}
  BY <1>3, FS_EmptySet
<1>4. CASE Last(R, 1) # {}
  <2>1. PICK r \in Last(R, 1) : TRUE
    BY <1>4
  <2>2. Last(R, 1) = {r}
    BY <1>2, <2>1
  <2> QED
    BY <2>2, FS_Singleton
<1> QED
  BY <1>3, <1>4

-----------------------------------------------------------------------------
(* Types.                                                                  *)

\* The places of a longer record, and what stands at the old ones.
LEMMA Appended ==
  ASSUME said \in Seq(Section), NEW sec \in Section, said' = Append(said, sec)
  PROVE  /\ said' \in Seq(Section) /\ Len(said') = Len(said) + 1 /\ Len(said) \in Nat
         /\ All' = All \cup {Len(said')} /\ Len(said') \notin All
         /\ said'[Len(said')] = sec /\ \A i \in All : said'[i] = said[i]
BY DEF All

LEMMA OpenAreItems == \A f : Open(f) \subseteq Item
BY DEF Open, Listed

\* A step in which somebody speaks appends one section of the round.
LEMMA SpokenSection ==
  ASSUME TypeOK, Criticise \/ Reply
  PROVE  \E sec \in Section : sec.round = round /\ Speak(sec) /\ UNCHANGED <<round, turn>>
<1> DEFINE Sec(by, ships, raises, resolves, closed, still, after) ==
      [round |-> round, by |-> by, ships |-> ships, raises |-> raises, resolves |-> resolves,
       closed |-> closed, still |-> still, after |-> after]
<1>1. CASE Criticise
  <2>1. PICK ships \in BOOLEAN, after \in BOOLEAN, raises \in SUBSET Names(turn),
             called \in SUBSET (1..Cardinality(Numbered(conv, round))) :
               \E closed \in SUBSET called : Speak(Sec(turn, ships, raises, {}, closed, called \ closed, after))
    BY <1>1 DEF Criticise
  <2>4. PICK closed \in SUBSET called : Speak(Sec(turn, ships, raises, {}, closed, called \ closed, after))
    BY <2>1
  <2>2. raises \in SUBSET (Claim \cup Concern) /\ called \in SUBSET Nat
    BY <2>1 DEF Names
  <2>3. Sec(turn, ships, raises, {}, closed, called \ closed, after) \in Section
    BY <1>1, <2>1, <2>2, <2>4 DEF Criticise, Section, TypeOK
  <2> QED
    BY <2>3, <2>4 DEF Speak, Checkpoint
<1>2. CASE Reply
  <2>1. PICK resolves \in SUBSET Open(conv) :
          Speak(Sec("Reply", FALSE, {}, resolves, {}, {}, FALSE))
    BY <1>2 DEF Reply
  <2>2. Sec("Reply", FALSE, {}, resolves, {}, {}, FALSE) \in Section
    BY <2>1, OpenAreItems DEF Section, TypeOK
  <2> QED
    BY <2>1, <2>2 DEF Speak, Checkpoint
<1> QED
  BY <1>1, <1>2

LEMMA TypeInit == Init => TypeOK
<1> SUFFICES ASSUME Init PROVE TypeOK
  OBVIOUS
<1>1. 1 \in 1..MaxRounds /\ crashes \in 0..MaxCrashes
  BY DebateFileAssumption DEF Init
<1>2. said \in Seq(Section)
  BY DEF Init
<1> QED
  BY <1>1, <1>2, DebateFileAssumption DEF Init, TypeOK

LEMMA TypeStep == TypeOK /\ [Next]_vars => TypeOK'
<1> SUFFICES ASSUME TypeOK, [Next]_vars PROVE TypeOK'
  OBVIOUS
<1> USE DebateFileAssumption DEF TypeOK
<1>1. CASE Read
  BY <1>1 DEF Read, At, Checkpoint, All
<1>2. CASE NoCondense \/ AskAgain \/ Silent
  BY <1>2 DEF NoCondense, AskAgain, Silent, At, Checkpoint, All
<1>3. CASE Archive
  <2>1. UNCHANGED <<said, conv>> /\ Condense(conv) # conv
    BY <1>3 DEF Archive
  <2>2. Condense(conv)' # conv'
    BY <2>1 DEF Condense, LastRounds, RoundsOf
  <2> QED
    BY <1>3, <2>2 DEF Archive, At, Checkpoint, All
<1>4. CASE Truncate
  <2>1. UNCHANGED <<said, conv>> /\ Condense(conv) # conv
    BY <1>4 DEF Truncate, At
  <2>2. Condense(conv)' # conv'
    BY <2>1 DEF Condense, LastRounds, RoundsOf
  <2> QED
    BY <1>4, <2>2 DEF Truncate, At, Checkpoint, All
<1>5. CASE Rewrite
  BY <1>5 DEF Rewrite, At, Checkpoint, All, Condense
<1>6. ASSUME NEW sec \in Section, Speak(sec), UNCHANGED <<round, turn>> PROVE TypeOK'
  <2>1. said' \in Seq(Section) /\ All' = All \cup {Len(said')}
    BY <1>6, Appended DEF Speak
  <2>2. live' \subseteq All' /\ full' \subseteq All' /\ conv' \subseteq All'
    BY <1>6, <2>1 DEF Speak
  <2> QED
    BY <1>6, <2>1, <2>2 DEF Speak, At
<1>7. CASE Criticise \/ Reply
  BY <1>6, <1>7, SpokenSection
<1>9. CASE Commit
  BY <1>9 DEF Commit, At, All
<1>10. CASE Crash
  <2>1. live' \subseteq All
    BY <1>10 DEF Crash, Condense
  <2> QED
    BY <1>10, <2>1 DEF Crash, Checkpoint, All
<1>11. CASE UNCHANGED vars
  <2>1. Condense(conv)' = Condense(conv)
    BY <1>11 DEF vars, Condense, LastRounds, RoundsOf
  <2> QED
    BY <1>11, <2>1 DEF vars, All
<1> QED
  BY <1>1, <1>2, <1>3, <1>4, <1>5, <1>7, <1>9, <1>10, <1>11 DEF Next

\* The types, and no file is written that could not be condensed further.
THEOREM TypeCorrect == Spec => []TypeOK
BY TypeInit, TypeStep, PTL DEF Spec

-----------------------------------------------------------------------------
(* Nothing is lost.                                                        *)

\* A file is cut only after all that was said is in the archive or stays there.
Archived ==
  /\ All \subseteq live \cup full
  /\ pc \in {"rewrite", "cut"} => All \subseteq full

LEMMA ArchivedStep == TypeOK /\ Archived /\ [Next]_vars => Archived'
<1> SUFFICES ASSUME TypeOK, Archived, [Next]_vars PROVE Archived'
  OBVIOUS
<1> USE DEF Archived
<1>1. CASE Read \/ NoCondense \/ AskAgain \/ Silent
  BY <1>1 DEF Read, NoCondense, AskAgain, Silent, At, All
<1>2. CASE Archive \/ Truncate \/ Rewrite
  BY <1>2 DEF Archive, Truncate, Rewrite, At, All
<1>3. ASSUME NEW sec \in Section, Speak(sec) PROVE Archived'
  <2>1. All' = All \cup {Len(said')} /\ pc' = "end"
    BY <1>3, Appended DEF Speak, TypeOK, At
  <2> QED
    BY <1>3, <2>1 DEF Speak
<1>4. CASE Criticise \/ Reply
  BY <1>3, <1>4, SpokenSection
<1>5. CASE Commit
  BY <1>5 DEF Commit, At, All
<1>6. CASE Crash
  BY <1>6 DEF Crash, All
<1>7. CASE UNCHANGED vars
  BY <1>7 DEF vars, All
<1> QED
  BY <1>1, <1>2, <1>4, <1>5, <1>6, <1>7 DEF Next

\* What was said is in the file or in the archive.
THEOREM NothingLost == Spec => []NothingSaidIsLost
<1>1. Init => Archived
  BY DEF Init, Archived, All
<1>2. Archived => NothingSaidIsLost
  BY DEF Archived, NothingSaidIsLost
<1> QED
  BY TypeInit, TypeStep, <1>1, <1>2, ArchivedStep, PTL DEF Spec

-----------------------------------------------------------------------------
(* What stays in the file.                                                 *)

\* The rounds follow one another.
RoundsRise ==
  \A i, j \in All : said[i].round <= round /\ (i < j => said[i].round <= said[j].round)

\* A file has the last rounds, and all that was said after anything it has.
KeepsRecent(f) == \A i \in All : said[i].round \in LastRounds(All, KeepRecent) => i \in f
KeepsEnd(f) == \A i \in f, j \in All : i < j => j \in f

FileInv ==
  /\ RoundsRise
  /\ ~torn =>
       /\ pc # "cut" => KeepsRecent(live) /\ KeepsEnd(live)
       /\ pc \in {"condense", "rewrite", "cut", "call"} => KeepsRecent(conv) /\ KeepsEnd(conv)

LEMMA RoundsAreNumbers ==
  ASSUME TypeOK, NEW f \in SUBSET All
  PROVE  /\ RoundsOf(f) \in SUBSET RoundsOf(All) /\ RoundsOf(f) \in SUBSET (1..MaxRounds)
         /\ RoundsOf(f) \in SUBSET Nat /\ IsFiniteSet(RoundsOf(f))
<1>1. \A i \in All : said[i] \in Section
  BY DEF TypeOK, All
<1>2. RoundsOf(f) \in SUBSET RoundsOf(All) /\ RoundsOf(f) \in SUBSET (1..MaxRounds)
  BY <1>1 DEF RoundsOf, Section
<1>3. IsFiniteSet(1..MaxRounds)
  BY DebateFileAssumption, FS_Interval
<1>4. IsFiniteSet(RoundsOf(f))
  BY <1>2, <1>3, FS_Subset
<1> QED
  BY <1>2, <1>4

\* A file that has the last rounds and its end still has them when it is condensed.
LEMMA CondensedKeeps ==
  ASSUME TypeOK, RoundsRise, NEW f \in SUBSET All, KeepsRecent(f), KeepsEnd(f)
  PROVE  KeepsRecent(Condense(f)) /\ KeepsEnd(Condense(f))
<1>1. LastRounds(All, KeepRecent) \cap RoundsOf(f) \subseteq LastRounds(f, KeepRecent)
  BY RoundsAreNumbers, LastOfPart, DebateFileAssumption DEF LastRounds
<1>2. KeepsRecent(Condense(f))
  BY <1>1 DEF KeepsRecent, Condense, RoundsOf
<1>3. ASSUME NEW i \in Condense(f), NEW j \in All, i < j PROVE j \in Condense(f)
  <2>1. i \in f /\ j \in f /\ said[i].round \in LastRounds(f, KeepRecent)
    BY <1>3 DEF Condense, KeepsEnd
  <2>2. said[i].round <= said[j].round
    BY <1>3, <2>1 DEF RoundsRise
  <2>3. said[j].round \in LastRounds(f, KeepRecent)
    <3>1. RoundsOf(f) \in SUBSET Nat /\ IsFiniteSet(RoundsOf(f)) /\ said[j].round \in RoundsOf(f)
      BY <2>1, RoundsAreNumbers DEF RoundsOf
    <3> QED
      BY <2>1, <2>2, <3>1, LastIsUp, DebateFileAssumption DEF LastRounds
  <2> QED
    BY <2>1, <2>3 DEF Condense
<1> QED
  BY <1>2, <1>3 DEF KeepsEnd

\* A round that begins or goes on leaves the last rounds among the last ones before.
LEMMA SpeakKeeps ==
  ASSUME TypeOK, RoundsRise, NEW sec \in Section, sec.round = round, Speak(sec)
  PROVE  /\ RoundsRise'
         /\ KeepsRecent(live) => KeepsRecent(live)'
         /\ KeepsEnd(live) => KeepsEnd(live)'
<1> DEFINE n == Len(said')
<1>1. /\ said' \in Seq(Section) /\ All' = All \cup {n} /\ n \notin All /\ n = Len(said) + 1
      /\ said'[n] = sec /\ \A i \in All : said'[i] = said[i]
  BY Appended DEF Speak, TypeOK
<1>2. live' = live \cup {n} /\ UNCHANGED round
  BY DEF Speak, Checkpoint
<1>3. \A i \in All : i < n /\ ~(n < i)
  BY <1>1 DEF All, TypeOK
<1>4. ~(n < n) /\ round <= round
  BY <1>1 DEF TypeOK
<1> HIDE DEF n
<1>5. RoundsRise'
  BY <1>1, <1>2, <1>3, <1>4 DEF RoundsRise
<1>6. ASSUME KeepsEnd(live) PROVE KeepsEnd(live)'
  BY <1>1, <1>2, <1>3, <1>4, <1>6 DEF KeepsEnd
<1>7. ASSUME KeepsRecent(live) PROVE KeepsRecent(live)'
  <2>1. RoundsOf(All)' = RoundsOf(All) \cup {round}
    BY <1>1 DEF RoundsOf
  <2>2. RoundsOf(All)' \in SUBSET Nat /\ IsFiniteSet(RoundsOf(All)')
    BY <2>1, RoundsAreNumbers, FS_AddElement DEF TypeOK
  <2>3. Last(RoundsOf(All)', KeepRecent) \cap RoundsOf(All) \subseteq Last(RoundsOf(All), KeepRecent)
    BY <2>1, <2>2, LastOfPart, DebateFileAssumption
  <2>4. ASSUME NEW i \in All, said[i].round \in Last(RoundsOf(All)', KeepRecent) PROVE i \in live
    BY <1>7, <2>3, <2>4 DEF KeepsRecent, LastRounds, RoundsOf
  <2> QED
    BY <1>1, <1>2, <2>4 DEF KeepsRecent, LastRounds
<1> QED
  BY <1>5, <1>6, <1>7

LEMMA FileInit == Init => FileInv
BY DEF Init, FileInv, RoundsRise, KeepsRecent, KeepsEnd, All

LEMMA FileStep == TypeOK /\ FileInv /\ [Next]_vars => FileInv'
<1> SUFFICES ASSUME TypeOK, FileInv, [Next]_vars PROVE FileInv'
  OBVIOUS
<1> USE DEF FileInv
<1>1. CASE Read
  BY <1>1 DEF Read, At, Checkpoint, All, RoundsRise, KeepsRecent, KeepsEnd, LastRounds, RoundsOf
<1>2. CASE NoCondense \/ AskAgain \/ Silent
  BY <1>2 DEF NoCondense, AskAgain, Silent, At, Checkpoint, All, RoundsRise, KeepsRecent, KeepsEnd,
              LastRounds, RoundsOf
<1>3. CASE Archive \/ Truncate
  BY <1>3 DEF Archive, Truncate, At, Checkpoint, All, RoundsRise, KeepsRecent, KeepsEnd, LastRounds, RoundsOf
<1>4. CASE Rewrite
  <2>1. ~torn => KeepsRecent(Condense(conv)) /\ KeepsEnd(Condense(conv))
    BY <1>4, CondensedKeeps DEF Rewrite, At, TypeOK
  <2>2. live' = Condense(conv) /\ UNCHANGED <<said, conv, round, torn>> /\ pc = "cut" /\ pc' = "call"
    BY <1>4 DEF Rewrite, At, Checkpoint
  <2>3. RoundsRise' /\ All' = All /\ LastRounds(All, KeepRecent)' = LastRounds(All, KeepRecent)
    BY <2>2 DEF RoundsRise, All, LastRounds, RoundsOf
  <2> QED
    BY <2>1, <2>2, <2>3 DEF KeepsRecent, KeepsEnd
<1>5. CASE Criticise \/ Reply
  <2>1. PICK sec \in Section : sec.round = round /\ Speak(sec)
    BY <1>5, SpokenSection
  <2>2. /\ RoundsRise'
        /\ KeepsRecent(live) => KeepsRecent(live)'
        /\ KeepsEnd(live) => KeepsEnd(live)'
    BY <2>1, SpeakKeeps
  <2>3. pc = "call" /\ pc' = "end" /\ UNCHANGED torn
    BY <2>1 DEF Speak, At
  <2> QED
    BY <2>2, <2>3
<1>6. CASE Commit
  <2>1. round' \in {round, round + 1} /\ UNCHANGED <<said, live, torn>> /\ pc = "end" /\ pc' = "begin"
    BY <1>6 DEF Commit, At
  <2>2. RoundsRise'
    <3>3. \A i \in All : said[i] \in Section
      BY DEF TypeOK, All
    <3>1. \A i \in All : said[i].round \in Int /\ said[i].round <= round
      BY <3>3 DEF Section, RoundsRise
    <3>2. \A i \in All : said[i].round <= round'
      BY <2>1, <3>1 DEF TypeOK
    <3> QED
      BY <2>1, <3>2 DEF RoundsRise, All
  <2> QED
    BY <2>1, <2>2 DEF All, KeepsRecent, KeepsEnd, LastRounds, RoundsOf
<1>7. CASE Crash
  <2>1. /\ UNCHANGED <<said, round>> /\ pc' = "begin" /\ torn' = (torn \/ pc = "cut")
        /\ pc # "cut" => UNCHANGED live
    BY <1>7 DEF Crash, Checkpoint
  <2> QED
    BY <2>1 DEF RoundsRise, All, KeepsRecent, KeepsEnd, LastRounds, RoundsOf
<1>8. CASE UNCHANGED vars
  BY <1>8 DEF vars, RoundsRise, All, KeepsRecent, KeepsEnd, LastRounds, RoundsOf
<1> QED
  BY <1>1, <1>2, <1>3, <1>4, <1>5, <1>6, <1>7, <1>8 DEF Next

LEMMA AlwaysKeeps == Spec => [](TypeOK /\ FileInv)
BY TypeInit, TypeStep, FileInit, FileStep, PTL DEF Spec

\* The last rounds are in the file as they were said.
THEOREM RecentKept == Spec => []RecentVerbatim
<1>1. TypeOK /\ FileInv => RecentVerbatim
  BY DEF FileInv, KeepsRecent, Condensed, RecentVerbatim
<1> QED
  BY <1>1, AlwaysKeeps, PTL

-----------------------------------------------------------------------------
(* What is read from the file is what the whole debate says.               *)

\* A round that is kept is read as it was said.
LEMMA RoundsAgree ==
  ASSUME NEW f \in SUBSET All, KeepsRecent(f), NEW r \in LastRounds(All, KeepRecent)
  PROVE  /\ \A c : Speaks(f, r, c) <=> Speaks(All, r, c)
         /\ \A c : LastSection(f, r, c) = LastSection(All, r, c)
         /\ RoundClaims(f, r) = RoundClaims(All, r)
         /\ Blockers(f, r) = Blockers(All, r)
<1>1. \A c : Sections(f, r, c) = Sections(All, r, c)
  BY DEF Sections, KeepsRecent
<1>2. \A c : Speaks(f, r, c) <=> Speaks(All, r, c)
  BY <1>1 DEF Speaks
<1>3. \A c : LastSection(f, r, c) = LastSection(All, r, c)
  <2> SUFFICES ASSUME NEW c PROVE LastSection(f, r, c) = LastSection(All, r, c)
    OBVIOUS
  <2>1. Sections(f, r, c) = Sections(All, r, c)
    BY <1>1
  <2> QED
    BY <2>1, Zenon DEF LastSection
<1>4. RoundClaims(f, r) = RoundClaims(All, r)
  BY <1>2, <1>3 DEF RoundClaims
<1>5. Blockers(f, r) = Blockers(All, r)
  BY <1>2, <1>3 DEF Blockers
<1> QED
  BY <1>2, <1>3, <1>4, <1>5

\* In a window within the rounds that are kept there are the same rounds.
LEMMA LastAgree ==
  ASSUME TypeOK, NEW f \in SUBSET All, KeepsRecent(f), NEW k \in Int, k <= KeepRecent
  PROVE  /\ LastRounds(All, k) \subseteq LastRounds(All, KeepRecent)
         /\ LastRounds(f, k) = LastRounds(All, k)
         /\ Cardinality(RoundsOf(f)) < k <=> Cardinality(RoundsOf(All)) < k
<1>1. /\ RoundsOf(All) \in SUBSET Nat /\ IsFiniteSet(RoundsOf(All))
      /\ RoundsOf(f) \in SUBSET RoundsOf(All)
  BY RoundsAreNumbers
<1>2. Last(RoundsOf(All), k) \subseteq Last(RoundsOf(All), KeepRecent)
  BY <1>1, LastOfFewer, DebateFileAssumption
<1>3. Last(RoundsOf(All), KeepRecent) \subseteq RoundsOf(f)
  BY DEF KeepsRecent, LastRounds, Last, RoundsOf
<1>4. /\ Last(RoundsOf(f), k) = Last(RoundsOf(All), k)
      /\ Cardinality(RoundsOf(f)) < k <=> Cardinality(RoundsOf(All)) < k
  BY <1>1, <1>2, <1>3, LastOfTail
<1> QED
  BY <1>2, <1>4 DEF LastRounds

LEMMA StuckAgree ==
  ASSUME TypeOK, NEW f \in SUBSET All, KeepsRecent(f), NEW k \in Int, k <= KeepRecent
  PROVE  StuckClaims(f, k) = StuckClaims(All, k)
<1>1. /\ LastRounds(All, k) \subseteq LastRounds(All, KeepRecent)
      /\ LastRounds(f, k) = LastRounds(All, k)
      /\ Cardinality(RoundsOf(f)) < k <=> Cardinality(RoundsOf(All)) < k
  BY LastAgree
<1>2. \A r \in LastRounds(All, k) : RoundClaims(f, r) = RoundClaims(All, r)
  BY <1>1, RoundsAgree
<1> QED
  BY <1>1, <1>2 DEF StuckClaims

\* The debate is found stuck exactly when the whole debate is.
THEOREM StuckSeen == Spec => []StuckIsStuck
<1>1. TypeOK /\ FileInv => StuckIsStuck
  <2>1. StuckWindow \in Int /\ StuckWindow <= KeepRecent
    BY DebateFileAssumption DEF StuckWindow, AtLeastOne
  <2> QED
    BY <2>1, StuckAgree DEF FileInv, Condensed, StuckIsStuck, TypeOK
<1> QED
  BY <1>1, AlwaysKeeps, PTL

\* The signals of an item that is not misread: those of the whole debate in the sections
\* that are in the file.
LEMMA SignalsAgree ==
  ASSUME TypeOK, NEW x \in Item, ~Misread(x)
  PROVE  /\ Openings(live, x) \subseteq Openings(All, x) /\ Closings(live, x) \subseteq Closings(All, x)
         /\ \A u \in Openings(All, x) \ Openings(live, x) : \E i \in All \ live : u \in Int /\ u <= 3 * i + 2
         /\ \A t \in Closings(All, x) \ Closings(live, x) : \E i \in All \ live : t \in Int /\ t <= 3 * i + 2
<1>1. live \subseteq All /\ \A i \in All : i \in Int
  BY DEF TypeOK, All
<1>2. \A i \in live :
        /\ x \in ByNumber(live, i, said[i].still) <=> x \in ByNumber(All, i, said[i].still)
        /\ x \in ByNumber(live, i, said[i].closed) <=> x \in ByNumber(All, i, said[i].closed)
  BY DEF Misread
<1>3. Raised(live, x) = Raised(All, x) \cap live
  BY <1>1 DEF Raised
<1>4. \A i \in All : AtNumbers(i) \in Int /\ AtNumbers(i) <= 3 * i + 2 /\ 3 * i + 1 <= 3 * i + 2
  BY <1>1 DEF AtNumbers
<1> DEFINE Still(f) == {j \in f : x \in ByNumber(f, j, said[j].still)}
           Closed(f) == {j \in f : x \in ByNumber(f, j, said[j].closed)}
           Replied(f) == {j \in f : x \in said[j].resolves}
<1>5. /\ Still(live) = Still(All) \cap live /\ Closed(live) = Closed(All) \cap live
      /\ Replied(live) = Replied(All) \cap live
  BY <1>1, <1>2
<1>6. \A f : /\ Openings(f, x) = {3 * i + 1 : i \in Raised(f, x)} \cup {AtNumbers(i) : i \in Still(f)}
             /\ Closings(f, x) = {3 * i + 1 : i \in Replied(f)} \cup {AtNumbers(i) : i \in Closed(f)}
  BY DEF Openings, Closings
<1>7. Raised(All, x) \subseteq All /\ Still(All) \subseteq All /\ Closed(All) \subseteq All /\ Replied(All) \subseteq All
  BY DEF Raised
<1> HIDE DEF Still, Closed, Replied
<1>8. Openings(live, x) \subseteq Openings(All, x) /\ Closings(live, x) \subseteq Closings(All, x)
  BY <1>3, <1>5, <1>6
<1>9. ASSUME NEW u \in Openings(All, x) \ Openings(live, x)
      PROVE  \E i \in All \ live : u \in Int /\ u <= 3 * i + 2
  <2>1. PICK i \in All : /\ u = 3 * i + 1 \/ u = AtNumbers(i)
                         /\ i \notin live
    BY <1>3, <1>5, <1>6, <1>7, <1>9
  <2> QED
    BY <1>1, <1>4, <2>1
<1>10. ASSUME NEW t \in Closings(All, x) \ Closings(live, x)
       PROVE  \E i \in All \ live : t \in Int /\ t <= 3 * i + 2
  <2>1. PICK i \in All : /\ t = 3 * i + 1 \/ t = AtNumbers(i)
                         /\ i \notin live
    BY <1>5, <1>6, <1>7, <1>10
  <2> QED
    BY <1>1, <1>4, <2>1
<1> QED
  BY <1>8, <1>9, <1>10

\* What the ledger still lists it lists as the whole debate has left it, unless a number of
\* the designer means it in the file or in the whole debate, and not in both.
THEOREM LedgerKept == Spec => []LedgerAgrees
<1>1. TypeOK /\ FileInv => LedgerAgrees
  <2> SUFFICES ASSUME TypeOK, KeepsEnd(live), NEW x \in Listed(live), ~Misread(x)
               PROVE  x \in Open(live) <=> x \in Open(All)
    BY DEF FileInv, Condensed, LedgerAgrees
  <2>1. x \in Item /\ Raised(live, x) \subseteq Raised(All, x) /\ live \subseteq All /\ x \in Listed(All)
    BY DEF Listed, Raised, TypeOK
  <2>2. PICK k \in Raised(live, x) : k \in live
    BY DEF Listed, Raised
  <2>3. \A i \in All \ live : i \in Int /\ k \in Int /\ i < k
    BY <2>1, <2>2 DEF KeepsEnd, All, TypeOK
  <2>4. 3 * k + 1 \in Openings(live, x) /\ 3 * k + 1 \in Openings(All, x)
    BY <2>1, <2>2 DEF Openings
  <2>5. \A i \in All \ live, t \in Int : t <= 3 * i + 2 => t < 3 * k + 1
    BY <2>3
  <2>6. k \in Int
    BY <2>1, <2>2 DEF All
  <2>7. ASSUME x \in Open(live), NEW t \in Closings(All, x) PROVE \E u \in Openings(All, x) : u > t
    <3>1. CASE t \in Closings(live, x)
      BY <3>1, <2>1, <2>7, SignalsAgree DEF Open
    <3>2. CASE t \notin Closings(live, x)
      <4>1. PICK i \in All \ live : t \in Int /\ t <= 3 * i + 2
        BY <3>2, <2>1, <2>7, SignalsAgree
      <4>2. 3 * k + 1 > t
        BY <2>5, <2>6, <4>1
      <4> QED
        BY <2>4, <4>2
    <3> QED
      BY <3>1, <3>2
  <2>8. ASSUME x \in Open(All), NEW t \in Closings(live, x) PROVE \E u \in Openings(live, x) : u > t
    <3>1. PICK u \in Openings(All, x) : u > t
      BY <2>1, <2>8, SignalsAgree DEF Open
    <3>2. CASE u \notin Openings(live, x)
      <4>1. PICK i \in All \ live : u \in Int /\ u <= 3 * i + 2
        BY <3>1, <3>2, <2>1, SignalsAgree
      <4>2. t \in Int
        BY <2>1 DEF Closings, AtNumbers, All
      <4>3. 3 * k + 1 > t
        BY <2>5, <2>6, <3>1, <4>1, <4>2
      <4> QED
        BY <2>4, <4>3
    <3> QED
      BY <3>1, <3>2
  <2> QED
    BY <2>1, <2>7, <2>8 DEF Open
<1> QED
  BY <1>1, AlwaysKeeps, PTL

LEMMA ThrashWindowBound ==
  /\ ThrashWindow \in Nat \ {0}
  /\ ThrashWindow <= KeepRecent \/ ThrashWindow = 1
BY DebateFileAssumption DEF ThrashWindow, AtLeastOne

LEMMA ActiveAreRounds == \A f : Active(f) \subseteq RoundsOf(f)
BY DEF Active

\* As long as no round of the window has shipped, the window is the same in the file.
LEMMA WindowAgrees ==
  ASSUME TypeOK, NEW f \in SUBSET All, KeepsRecent(f), ThrashWindow <= KeepRecent,
         LastRounds(All, ThrashWindow) \subseteq Active(All)
  PROVE  /\ Last(Active(f), ThrashWindow) = Last(Active(All), ThrashWindow)
         /\ Last(Active(f), ThrashWindow) \subseteq LastRounds(All, KeepRecent)
<1>1. /\ RoundsOf(All) \in SUBSET Nat /\ IsFiniteSet(RoundsOf(All))
      /\ RoundsOf(f) \in SUBSET Nat /\ IsFiniteSet(RoundsOf(f))
  BY RoundsAreNumbers
<1>2. /\ LastRounds(All, ThrashWindow) \subseteq LastRounds(All, KeepRecent)
      /\ LastRounds(f, ThrashWindow) = LastRounds(All, ThrashWindow)
  BY LastAgree, ThrashWindowBound
<1>3. LastRounds(f, ThrashWindow) \subseteq Active(f)
  <2> SUFFICES ASSUME NEW r \in LastRounds(f, ThrashWindow) PROVE r \in Active(f)
    OBVIOUS
  <2>1. r \in LastRounds(All, KeepRecent) /\ r \in Active(All) /\ r \in RoundsOf(f)
    BY <1>2 DEF LastRounds, Last
  <2> QED
    BY <2>1, RoundsAgree DEF Active
<1>4. Last(Active(All), ThrashWindow) = LastRounds(All, ThrashWindow)
  <2>1. Last(RoundsOf(All), ThrashWindow) \subseteq Active(All)
    BY DEF LastRounds
  <2>2. Active(All) \in SUBSET RoundsOf(All)
    BY ActiveAreRounds
  <2>3. Last(Active(All), ThrashWindow) = Last(RoundsOf(All), ThrashWindow)
    <3>1. ThrashWindow \in Int
      BY ThrashWindowBound
    <3> QED
      BY <1>1, <2>1, <2>2, <3>1, LastOfTail
  <2> QED
    BY <2>3 DEF LastRounds
<1>5. Last(Active(f), ThrashWindow) = LastRounds(f, ThrashWindow)
  <2>1. Last(RoundsOf(f), ThrashWindow) \subseteq Active(f)
    BY <1>3 DEF LastRounds
  <2>2. Active(f) \in SUBSET RoundsOf(f)
    BY ActiveAreRounds
  <2>3. Last(Active(f), ThrashWindow) = Last(RoundsOf(f), ThrashWindow)
    <3>1. ThrashWindow \in Int
      BY ThrashWindowBound
    <3> QED
      BY <1>1, <2>1, <2>2, <3>1, LastOfTail
  <2> QED
    BY <2>3 DEF LastRounds
<1> QED
  BY <1>2, <1>4, <1>5

LEMMA ModeAgrees ==
  ASSUME TypeOK, NEW f \in SUBSET All, KeepsRecent(f),
         LastRounds(All, ThrashWindow) \subseteq Active(All)
  PROVE  Mode(f) = Mode(All)
<1> DEFINE W(g) == Last(Active(g), ThrashWindow)
<1>1. \A g \in SUBSET All : Active(g) \in SUBSET Nat /\ IsFiniteSet(Active(g))
  BY RoundsAreNumbers, ActiveAreRounds, FS_Subset
<1>2. CASE ThrashWindow = 1
  <2>1. Cardinality(W(f)) < 2 /\ Cardinality(W(All)) < 2
    BY <1>1, <1>2, LastIsOne
  <2>2. Mode(f) = "unknown"
    BY <2>1 DEF Mode
  <2>3. Mode(All) = "unknown"
    BY <2>1 DEF Mode
  <2> QED
    BY <2>2, <2>3
<1>3. CASE ThrashWindow <= KeepRecent
  <2>1. W(f) = W(All) /\ W(f) \subseteq LastRounds(All, KeepRecent)
    BY <1>3, WindowAgrees
  <2>2. \A r \in W(All) : RoundClaims(f, r) = RoundClaims(All, r) /\ Blockers(f, r) = Blockers(All, r)
    BY <2>1, RoundsAgree
  <2>3. StuckClaims(f, ThrashWindow) = StuckClaims(All, ThrashWindow)
    BY <1>3, StuckAgree, ThrashWindowBound
  <2>4. CASE Cardinality(W(All)) < 2
    BY <2>1, <2>4 DEF Mode
  <2>5. CASE ~(Cardinality(W(All)) < 2)
    <3> DEFINE Latest(w) == CHOOSE r \in w : \A q \in w : q <= r
               Follows(w, q, r) == r < q /\ ~\E x \in w : r < x /\ x < q
               New(g, w) == UNION {RoundClaims(g, Latest(w)) \ RoundClaims(g, r)
                                     : r \in {q \in w : Follows(w, Latest(w), q)}}
               Falls(g, w) == \A r, q \in w : Follows(w, q, r) => Blockers(g, q) < Blockers(g, r)
               Told(stuck, none, falls, news) ==
                 IF stuck # {} THEN "stuck" ELSE IF none = 0 \/ falls THEN "converging"
                 ELSE IF news # {} THEN "thrashing" ELSE "unknown"
               last == Latest(W(All))
    <3>1. Mode(f) = Told(StuckClaims(f, ThrashWindow), Blockers(f, Latest(W(f))), Falls(f, W(f)), New(f, W(f)))
      BY <2>1, <2>5 DEF Mode
    <3>2. Mode(All) = Told(StuckClaims(All, ThrashWindow), Blockers(All, last), Falls(All, W(All)), New(All, W(All)))
      BY <2>5 DEF Mode
    <3>3. last \in W(All)
      <4>1. W(All) \in SUBSET Active(All)
        BY DEF Last
      <4>2. Active(All) \in SUBSET Nat /\ IsFiniteSet(Active(All))
        BY <1>1
      <4>3. W(All) \in SUBSET Nat /\ IsFiniteSet(W(All))
        BY <4>1, <4>2, FS_Subset
      <4>4. W(All) # {}
        BY <2>5, FS_EmptySet
      <4>5. \E r \in W(All) : \A q \in W(All) : q <= r
        BY <4>3, <4>4, GreatestOne
      <4> QED
        BY <4>5
    <3>4. Blockers(f, last) = Blockers(All, last) /\ RoundClaims(f, last) = RoundClaims(All, last)
      BY <2>2, <3>3
    <3>5. New(f, W(All)) = New(All, W(All))
      BY <2>2, <3>4
    <3>6. Falls(f, W(All)) <=> Falls(All, W(All))
      BY <2>2
    <3> HIDE DEF Told, New, Falls, Latest
    <3>7. Mode(f) = Told(StuckClaims(f, ThrashWindow), Blockers(f, last), Falls(f, W(All)), New(f, W(All)))
      BY <2>1, <3>1
    <3>8. CASE Falls(f, W(All))
      BY <2>3, <3>4, <3>5, <3>6, <3>2, <3>7, <3>8 DEF Told
    <3>9. CASE ~Falls(f, W(All))
      BY <2>3, <3>4, <3>5, <3>6, <3>2, <3>7, <3>9 DEF Told
    <3> QED
      BY <3>8, <3>9
  <2> QED
    BY <2>4, <2>5
<1> QED
  BY <1>2, <1>3, ThrashWindowBound

\* While no round of the window has shipped, the trend that is reported is the one of the
\* whole debate.
THEOREM TrendSeen == Spec => []TrendIsSeen
<1>1. TypeOK /\ FileInv => TrendIsSeen
  BY ModeAgrees DEF FileInv, Condensed, TrendIsSeen, TypeOK
<1> QED
  BY <1>1, AlwaysKeeps, PTL
=============================================================================
