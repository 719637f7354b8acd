--------------------------- MODULE QwkHub_proofs ---------------------------
(***************************************************************************)
(* What holds of the QWK hub for every number of nodes, areas, requests    *)
(* and messages.                                                           *)
(***************************************************************************)
EXTENDS QwkHub, FiniteSetTheorems, SequenceTheorems, WellFoundedInduction, TLAPS

(* A finite set of numbers has a largest one: of the subsets that have none  *)
(* a smallest would have an element to take away.                           *)
LEMMA LargestExists ==
  ASSUME NEW S \in SUBSET Nat, IsFiniteSet(S), S # {}
  PROVE  \E m \in S : \A k \in S : k <= m
<1> DEFINE HasLargest(T) == \E m \in T : \A k \in T : k <= m
           bad == {T \in FiniteSubsetsOf(S) : T # {} /\ ~ HasLargest(T)}
<1> SUFFICES ASSUME ~ HasLargest(S) PROVE FALSE
  OBVIOUS
<1>1. S \in bad
  BY DEF FiniteSubsetsOf
<1>2. PICK T \in bad : \A U \in bad : <<U, T>> \notin StrictSubsetOrdering(S)
  <2>1. bad \subseteq FiniteSubsetsOf(S) /\ bad # {}
    BY <1>1
  <2> HIDE DEF bad
  <2> QED
    BY <2>1, WFMin, FS_StrictSubsetOrderingWellFounded, Zenon
<1>3. T \subseteq S /\ IsFiniteSet(T) /\ T # {} /\ ~ HasLargest(T)
  BY DEF FiniteSubsetsOf
<1>4. PICK x \in T : TRUE
  BY <1>3
<1>5. IsFiniteSet(T \ {x})
  BY <1>3, FS_RemoveElement
<1>6. T \ {x} \notin bad
  BY <1>2, <1>3, <1>4 DEF StrictSubsetOrdering
<1>7. T \ {x} = {} \/ HasLargest(T \ {x})
  BY <1>3, <1>5, <1>6 DEF FiniteSubsetsOf
<1>8. CASE T \ {x} = {}
  <2>1. T = {x} /\ x \in Nat
    BY <1>3, <1>4, <1>8
  <2> QED
    BY <1>3, <2>1
<1>9. CASE HasLargest(T \ {x})
  <2>1. PICK m \in T \ {x} : \A k \in T \ {x} : k <= m
    BY <1>9
  <2>2. m \in Nat /\ x \in Nat /\ T \subseteq Nat
    BY <1>3, <1>4
  <2>3. CASE x <= m
    BY <1>3, <2>1, <2>2, <2>3
  <2>4. CASE m <= x
    BY <1>3, <1>4, <2>1, <2>2, <2>4
  <2> QED
    BY <2>2, <2>3, <2>4
<1> QED
  BY <1>7, <1>8, <1>9

LEMMA NewestIsLargest ==
  ASSUME NEW S \in SUBSET Nat, IsFiniteSet(S), S # {}
  PROVE  NewestOf(S) \in S /\ \A k \in S : k <= NewestOf(S)
  BY LargestExists DEF NewestOf

(* A new id is above all others, and the next after one of them.            *)
LEMMA NextIsFresh ==
  ASSUME NEW S \in SUBSET Nat, IsFiniteSet(S)
  PROVE  /\ NextId(S) \in Nat \ {0}
         /\ \A k \in S : k < NextId(S)
         /\ \A n \in Nat : (\A k \in S : k <= n) => NextId(S) <= n + 1
<1>1. CASE S = {}
  BY <1>1 DEF NextId
<1>2. CASE S # {}
  <2>1. NewestOf(S) \in S /\ \A k \in S : k <= NewestOf(S)
    BY <1>2, NewestIsLargest
  <2>2. NewestOf(S) \in Nat /\ NextId(S) = NewestOf(S) + 1
    BY <1>2, <2>1 DEF NextId
  <2> QED
    BY <2>1, <2>2
<1> QED
  BY <1>1, <1>2

LEMMA NoRep == << >> \in UNION {[S -> [area : Areas, key : Keys]] : S \in SUBSET Ids}
<1>1. << >> \in [1 .. 0 -> [area : Areas, key : Keys]]
  BY EmptySeq, LenProperties
<1>2. 1 .. 0 \in SUBSET Ids
  OBVIOUS
<1> QED
  BY <1>1, <1>2

LEMMA IdleType == Idle \in Work
  BY NoRep, QwkNames DEF Idle, Work

-----------------------------------------------------------------------------
(* Types                                                                    *)

(* Ids are given out no further than messages have been stored.             *)
IdsStored == \A m \in DOMAIN messages : m <= serials

TypeInv == TypeOK /\ IdsStored

(* The parts of TypeOK in the form the steps use.                           *)
LEMMA Types ==
  ASSUME TypeOK
  PROVE  /\ messages \in [DOMAIN messages -> Message] /\ DOMAIN messages \subseteq Ids
         /\ rows \in [DOMAIN rows -> Subscription] /\ DOMAIN rows \subseteq RowIds
         /\ IsFiniteSet(DOMAIN messages) /\ IsFiniteSet(DOMAIN rows)
         /\ DOMAIN messages \subseteq Nat /\ DOMAIN rows \subseteq Nat
<1>1. /\ messages \in [DOMAIN messages -> Message] /\ DOMAIN messages \subseteq Ids
      /\ rows \in [DOMAIN rows -> Subscription] /\ DOMAIN rows \subseteq RowIds
  BY DEF TypeOK
<1>2. IsFiniteSet(Ids) /\ IsFiniteSet(RowIds) /\ Ids \subseteq Nat /\ RowIds \subseteq Nat
  BY FS_Interval, QwkBounds DEF Ids, RowIds
<1> QED
  BY <1>1, <1>2, FS_Subset

LEMMA InitType == Init => TypeInv
<1> SUFFICES ASSUME Init PROVE TypeInv
  OBVIOUS
<1>1. messages \in [1 .. 0 -> Message] /\ DOMAIN messages = {}
  BY EmptySeq, LenProperties DEF Init
<1>2. \E S \in SUBSET Ids : messages \in [S -> Message]
  BY <1>1
<1>3. \E S \in SUBSET RowIds : rows \in [S -> Subscription]
  BY QwkStart DEF Init
<1>4. work \in [Workers -> Work]
  BY IdleType DEF Init
<1>5. /\ open \subseteq Areas /\ file \in [Nodes -> SUBSET Ids]
      /\ edits \in 0 .. MaxEdits /\ faults \in 0 .. MaxFaults /\ serials \in 0 .. MaxMessages
      /\ packed \subseteq Nodes \X Ids /\ received \subseteq Nodes \X Ids
      /\ lost \subseteq Nodes \X Ids /\ uploaded \subseteq Ids /\ tossed \subseteq Ids
  BY QwkBounds DEF Init
<1> QED
  BY <1>1, <1>2, <1>3, <1>4, <1>5 DEF TypeInv, TypeOK, IdsStored

(* The work of one request set to something well-typed.                     *)
LEMMA WorkType ==
  ASSUME TypeOK, NEW w \in Workers, NEW r \in Work, work' = [work EXCEPT ![w] = r]
  PROVE  /\ work' \in [Workers -> Work]
         /\ work'[w] = r /\ \A v \in Workers \ {w} : work'[v] = work[v]
  BY DEF TypeOK

LEMMA FinishFacts ==
  ASSUME TypeOK, NEW w \in Workers, Finish(w)
  PROVE  /\ work' \in [Workers -> Work]
         /\ work'[w].pc = "idle" /\ work'[w].marks = {}
         /\ \A v \in Workers \ {w} : work'[v] = work[v]
<1>1. work' = [work EXCEPT ![w] = Idle]
  BY DEF Finish
<1>2. Idle.pc = "idle" /\ Idle.marks = {}
  BY DEF Idle
<1> QED
  BY <1>1, <1>2, IdleType, WorkType

(* Marks written to the rows keep everything else of them.                  *)
LEMMA SetMarksFacts ==
  ASSUME TypeOK, NEW new \in [DOMAIN rows -> SUBSET NewMark], SetMarks(new)
  PROVE  /\ rows' \in [DOMAIN rows -> Subscription] /\ DOMAIN rows' = DOMAIN rows
         /\ \A i \in DOMAIN rows :
              /\ rows'[i].node = rows[i].node /\ rows'[i].area = rows[i].area
              /\ rows'[i].conf = rows[i].conf
              /\ \/ rows'[i].mark = rows[i].mark
                 \/ \E k \in new[i] : rows'[i].mark = k.upto
<1> DEFINE pick(i) == CHOOSE k \in new[i] : TRUE
<1>1. rows' = [i \in DOMAIN rows |->
                 IF new[i] = {} THEN rows[i] ELSE [rows[i] EXCEPT !.mark = pick(i).upto]]
  BY DEF SetMarks
<1>2. \A i \in DOMAIN rows : new[i] # {} => pick(i) \in new[i]
  OBVIOUS
<1>3. \A i \in DOMAIN rows : \A k \in new[i] : k.upto \in Marks
  BY QwkBounds DEF NewMark, Ids, Marks
<1>4. \A i \in DOMAIN rows : rows[i] \in Subscription
  BY Types
<1> HIDE DEF pick
<1>5. ASSUME NEW i \in DOMAIN rows
      PROVE  /\ rows'[i] \in Subscription
             /\ rows'[i].node = rows[i].node /\ rows'[i].area = rows[i].area
             /\ rows'[i].conf = rows[i].conf
             /\ \/ rows'[i].mark = rows[i].mark
                \/ new[i] # {} /\ rows'[i].mark = pick(i).upto
  BY <1>1, <1>2, <1>3, <1>4 DEF Subscription
<1> QED
  BY <1>1, <1>2, <1>5

LEMMA SerialType ==
  ASSUME TypeOK, NEW S \in SUBSET DOMAIN messages
  PROVE  Serials(S) \subseteq Ids
<1>1. \A m \in S : messages[m].serial \in Ids
  BY Types DEF Message
<1> QED
  BY <1>1 DEF Serials

PacketOf(winners, taken) == UNION {Serials(taken[i]) : i \in winners}

(* A packet, and the marks that go with it: each is the newest of what was   *)
(* taken from the area of its row.                                          *)
IsBuilt(w, n, winners, marked, taken) ==
  /\ work' \in [Workers -> Work]
  /\ work'[w].pc = "built" /\ work'[w].node = n
  /\ work'[w].packet = PacketOf(winners, taken)
  /\ work'[w].packet \subseteq Ids
  /\ \A k \in work'[w].marks :
       /\ k.row \in marked /\ k.area = rows[k.row].area
       /\ k.upto \in taken[k.row] /\ \A m \in taken[k.row] : m <= k.upto
  /\ \A v \in Workers \ {w} : work'[v] = work[v]
  /\ packed' = packed \union ({n} \X work'[w].packet)

LEMMA BuiltFacts ==
  ASSUME TypeOK, NEW w \in Workers, NEW n \in Nodes,
         NEW winners \in SUBSET RowsOf(n), NEW marked \in SUBSET RowsOf(n),
         NEW taken \in [DOMAIN rows -> SUBSET DOMAIN messages],
         \A i \in marked : taken[i] # {},
         Built(w, n, winners, marked, taken)
  PROVE  IsBuilt(w, n, winners, marked, taken)
<1> DEFINE packet == UNION {Serials(taken[i]) : i \in winners}
           new == MarksFor(marked, taken)
           r == [Idle EXCEPT !.pc = "built", !.node = n, !.packet = packet, !.marks = new]
<1>1. RowsOf(n) \subseteq DOMAIN rows
  BY DEF RowsOf
<1>2. packet \subseteq Ids
  <2>1. \A i \in winners : Serials(taken[i]) \subseteq Ids
    BY <1>1, SerialType
  <2> QED
    BY <2>1
<1>3. \A i \in marked : /\ NewestOf(taken[i]) \in taken[i]
                        /\ \A m \in taken[i] : m <= NewestOf(taken[i])
  <2> TAKE i \in marked
  <2>1. taken[i] \in SUBSET Nat /\ IsFiniteSet(taken[i]) /\ taken[i] # {}
    BY <1>1, Types, FS_Subset
  <2> QED
    BY <2>1, NewestIsLargest
<1>4. new \in SUBSET NewMark
  <2>1. ASSUME NEW i \in marked
        PROVE  i \in RowIds /\ rows[i].area \in Areas /\ NewestOf(taken[i]) \in Ids
    <3>1. i \in DOMAIN rows
      BY <1>1
    <3> QED
      BY <1>3, <3>1, Types DEF Subscription
  <2> QED
    BY <2>1 DEF MarksFor, NewMark
<1>5. r \in Work
  BY <1>2, <1>4, IdleType DEF Work, Idle
<1>6. work' = [work EXCEPT ![w] = r] /\ packed' = packed \union ({n} \X packet)
  BY DEF Built
<1>7. /\ r.pc = "built" /\ r.node = n /\ r.packet = packet /\ r.marks = new
  BY DEF Idle
<1>8. \A k \in new : /\ k.row \in marked /\ k.area = rows[k.row].area
                     /\ k.upto = NewestOf(taken[k.row])
  BY DEF MarksFor
<1> HIDE DEF r, packet, new
<1>9. /\ work' \in [Workers -> Work] /\ work'[w] = r
      /\ \A v \in Workers \ {w} : work'[v] = work[v]
  BY <1>5, <1>6, WorkType
<1> QED
  BY <1>2, <1>3, <1>6, <1>7, <1>8, <1>9 DEF packet, PacketOf, IsBuilt

(* The oldest of some messages are some of them, and all up to the last one. *)
LEMMA OldestFacts ==
  ASSUME NEW S \in SUBSET Ids
  PROVE  /\ Oldest(S) \subseteq S
         /\ S # {} => Oldest(S) # {}
         /\ \A u \in Oldest(S), m \in S : m <= u => m \in Oldest(S)
<1>1. /\ \A k \in S : k \in Nat
      /\ IsFiniteSet(S)
  <2>1. IsFiniteSet(Ids) /\ \A k \in Ids : k \in Nat
    BY FS_Interval, QwkBounds DEF Ids
  <2> QED
    BY <2>1, FS_Subset
<1>2. ASSUME S # {} PROVE Oldest(S) # {}
  <2>1. PICK x \in S : \A y \in S : <<y, x>> \notin OpToRel(<, Nat)
    <3>1. S \subseteq Nat
      BY <1>1
    <3> QED
      BY <1>2, <3>1, WFMin, NatLessThanWellFounded, Zenon
  <2>2. \A y \in S : x <= y
    <3>1. \A y \in S : ~ (y < x)
      BY <1>1, <2>1 DEF OpToRel
    <3> QED
      BY <1>1, <3>1
  <2>3. {k \in S : k <= x} = {x}
    BY <1>1, <2>2
  <2>4. Cardinality({k \in S : k <= x}) <= Batch
    BY <2>3, FS_Singleton, QwkBounds
  <2> QED
    BY <2>4 DEF Oldest
<1>3. ASSUME NEW u \in Oldest(S), NEW m \in S, m <= u
      PROVE  m \in Oldest(S)
  <2> DEFINE under(x) == {k \in S : k <= x}
  <2>1. under(m) \subseteq under(u)
    <3>1. u \in S
      BY DEF Oldest
    <3>2. \A k \in S : k <= m => k <= u
      BY <1>1, <1>3, <3>1
    <3> QED
      BY <3>2
  <2>2. IsFiniteSet(under(u)) /\ under(u) \subseteq S /\ under(m) \subseteq S
    BY <1>1, FS_Subset
  <2>3. IsFiniteSet(under(m)) /\ Cardinality(under(m)) <= Cardinality(under(u))
    <3> HIDE DEF under
    <3> QED
      BY <2>1, <2>2, FS_Subset
  <2>4. Cardinality(under(u)) <= Batch
    BY <1>3 DEF Oldest
  <2>5. Cardinality(under(m)) \in Nat /\ Cardinality(under(u)) \in Nat
    BY <2>2, <2>3, FS_CardinalityType
  <2> HIDE DEF under
  <2>6. Cardinality(under(m)) <= Batch
    BY <2>3, <2>4, <2>5, QwkBounds
  <2> QED
    BY <2>6 DEF Oldest, under
<1> QED
  BY <1>2, <1>3 DEF Oldest

(* What a request or the FTP thread has in hand when it has built a packet.  *)
Holds(w, n) ==
  /\ work'[w].pc = "built" /\ work'[w].node = n /\ work'[w].packet \subseteq Ids
  /\ \A v \in Workers \ {w} : work'[v] = work[v]
  /\ \A k \in work'[w].marks :
       /\ k.row \in DOMAIN rows /\ rows[k.row].node = n /\ rows[k.row].area = k.area
       /\ k.upto \in DOMAIN messages /\ messages[k.upto].area = k.area

(* What of an area lies between the old mark and the new is in the packet.   *)
Covers(w) ==
  \A k \in work'[w].marks, m \in DOMAIN messages :
    (/\ messages[m].area = k.area /\ m <= k.upto /\ ~ (m <= rows[k.row].mark))
      => messages[m].serial \in work'[w].packet

LEMMA HttpBuildFacts ==
  ASSUME TypeOK, NEW w \in Workers, NEW n \in Nodes, HttpBuild(w, n)
  PROVE  /\ work' \in [Workers -> Work] /\ packed' \subseteq Nodes \X Ids
         /\ Holds(w, n) /\ Covers(w)
<1>1. PICK winners, marked, taken :
        /\ winners \in OnePerConf({i \in RowsOf(n) : rows[i].area \in open})
        /\ marked = {i \in winners : Unsent(i) # {}}
        /\ taken = [i \in DOMAIN rows |-> Unsent(i)]
        /\ Built(w, n, winners, marked, taken)
  BY DEF HttpBuild
<1>2. /\ RowsOf(n) \subseteq DOMAIN rows /\ winners \in SUBSET RowsOf(n)
      /\ marked \in SUBSET RowsOf(n)
  BY <1>1 DEF RowsOf, OnePerConf
<1>3. taken \in [DOMAIN rows -> SUBSET DOMAIN messages]
  BY <1>1 DEF Unsent
<1>4. \A i \in marked : taken[i] # {}
  BY <1>1, <1>2
<1>5. \A i \in DOMAIN rows : taken[i] = Unsent(i)
  BY <1>1
<1>6. IsBuilt(w, n, winners, marked, taken)
  BY <1>1, <1>2, <1>3, <1>4, BuiltFacts
<1>7. Holds(w, n)
  BY <1>2, <1>5, <1>6 DEF IsBuilt, Holds, Unsent, RowsOf
<1>8. Covers(w)
  <2> SUFFICES ASSUME NEW k \in work'[w].marks, NEW m \in DOMAIN messages,
                      messages[m].area = k.area, m <= k.upto, ~ (m <= rows[k.row].mark)
               PROVE  messages[m].serial \in work'[w].packet
    BY DEF Covers
  <2>1. k.row \in winners /\ k.row \in DOMAIN rows /\ k.area = rows[k.row].area
    BY <1>1, <1>2, <1>6 DEF IsBuilt
  <2>2. m \in Nat /\ rows[k.row].mark \in Nat
    BY <2>1, Types, QwkBounds DEF Subscription, Marks
  <2>3. m \in taken[k.row]
    BY <1>5, <2>1, <2>2 DEF Unsent
  <2>4. messages[m].serial \in Serials(taken[k.row])
    BY <2>3 DEF Serials
  <2> QED
    BY <1>6, <2>1, <2>4 DEF IsBuilt, PacketOf
<1>9. packed' \subseteq Nodes \X Ids
  BY <1>6 DEF IsBuilt, TypeOK
<1> QED
  BY <1>6, <1>7, <1>8, <1>9 DEF IsBuilt

(* No two subscriptions of a node have one conference number.               *)
OneConfEach ==
  \A i, j \in DOMAIN rows :
    (rows[i].node = rows[j].node /\ rows[i].conf = rows[j].conf) => i = j

LEMMA FtpBuildFacts ==
  ASSUME TypeOK, NEW n \in Nodes, FtpBuild(n)
  PROVE  /\ work' \in [Workers -> Work] /\ packed' \subseteq Nodes \X Ids
         /\ Holds(Ftp, n) /\ file' = [file EXCEPT ![n] = work'[Ftp].packet]
         /\ OneConfEach => Covers(Ftp)
<1> DEFINE Some == {i \in RowsOf(n) : rows[i].area \in open /\ Unsent(i) # {}}
           Taken == [i \in DOMAIN rows |-> Oldest(Unsent(i))]
<1>0. PICK some, taken : some = Some /\ taken = Taken
  OBVIOUS
<1>1. \E winners \in OnePerConf(Some) :
        /\ Built(Ftp, n, winners, Some, Taken)
        /\ file' = [file EXCEPT ![n] = PacketOf(winners, Taken)]
  BY DEF FtpBuild, PacketOf
<1> HIDE DEF Some, Taken
<1>6. PICK winners \in OnePerConf(some) :
        /\ Built(Ftp, n, winners, some, taken)
        /\ file' = [file EXCEPT ![n] = PacketOf(winners, taken)]
  BY <1>0, <1>1
<1> USE DEF Some, Taken
<1>2. /\ RowsOf(n) \subseteq DOMAIN rows /\ winners \in SUBSET RowsOf(n)
      /\ some \in SUBSET RowsOf(n) /\ Ftp \in Workers
  BY <1>0, <1>6 DEF RowsOf, OnePerConf, Workers
<1>3. \A i \in DOMAIN rows : /\ taken[i] = Oldest(Unsent(i))
                             /\ Unsent(i) \in SUBSET Ids /\ taken[i] \subseteq Unsent(i)
                             /\ Unsent(i) \in SUBSET DOMAIN messages
                             /\ Unsent(i) # {} => taken[i] # {}
  <2> TAKE i \in DOMAIN rows
  <2>1. Unsent(i) \in SUBSET Ids /\ Unsent(i) \in SUBSET DOMAIN messages
    BY Types DEF Unsent
  <2> QED
    BY <1>0, <2>1, OldestFacts
<1>4. taken \in [DOMAIN rows -> SUBSET DOMAIN messages]
  BY <1>0, <1>3
<1>5. \A i \in some : taken[i] # {}
  BY <1>0, <1>2, <1>3
<1>7. OneConfEach => winners = some
  BY <1>0, <1>2 DEF OneConfEach, OnePerConf, RowsOf
<1>8. IsBuilt(Ftp, n, winners, some, taken)
  BY <1>6, <1>2, <1>4, <1>5, BuiltFacts
<1>9. Holds(Ftp, n)
  <2>1. \A i \in some : /\ i \in DOMAIN rows /\ rows[i].node = n
                        /\ taken[i] \subseteq Unsent(i)
    BY <1>2, <1>3 DEF RowsOf
  <2>2. \A i \in DOMAIN rows : \A m \in Unsent(i) :
          m \in DOMAIN messages /\ messages[m].area = rows[i].area
    BY DEF Unsent
  <2> QED
    BY <1>8, <2>1, <2>2 DEF IsBuilt, Holds
<1>10. ASSUME OneConfEach PROVE Covers(Ftp)
  <2> SUFFICES ASSUME NEW k \in work'[Ftp].marks, NEW m \in DOMAIN messages,
                      messages[m].area = k.area, m <= k.upto, ~ (m <= rows[k.row].mark)
               PROVE  messages[m].serial \in work'[Ftp].packet
    BY DEF Covers
  <2>1. k.row \in winners /\ k.row \in DOMAIN rows /\ k.area = rows[k.row].area
    BY <1>2, <1>7, <1>8, <1>10 DEF IsBuilt
  <2>2. m \in Nat /\ rows[k.row].mark \in Nat
    BY <2>1, Types, QwkBounds DEF Subscription, Marks
  <2>3. m \in Unsent(k.row)
    BY <2>1, <2>2 DEF Unsent
  <2>4. m \in taken[k.row]
    BY <1>3, <1>8, <2>1, <2>3, OldestFacts DEF IsBuilt
  <2>5. messages[m].serial \in Serials(taken[k.row])
    BY <2>4 DEF Serials
  <2> QED
    BY <1>8, <2>1, <2>5 DEF IsBuilt, PacketOf
<1>11. packed' \subseteq Nodes \X Ids
  BY <1>8 DEF IsBuilt, TypeOK
<1> QED
  BY <1>6, <1>8, <1>9, <1>10, <1>11 DEF IsBuilt

-----------------------------------------------------------------------------
(* Types are kept                                                           *)

(* Messages with new ids: one above the other, and above those there are.   *)
LEMMA PostType ==
  ASSUME TypeInv, NEW a \in Areas, Post(a)
  PROVE  /\ TypeInv'
         /\ DOMAIN messages \subseteq DOMAIN messages'
         /\ \A m \in DOMAIN messages : messages'[m] = messages[m]
         /\ \A m \in DOMAIN messages' \ DOMAIN messages, k \in DOMAIN messages : k < m
<1> DEFINE D == DOMAIN messages
           id == NextId(D)
<1>1. /\ D \subseteq Nat /\ IsFiniteSet(D) /\ D \subseteq Ids
      /\ \A m \in D : messages[m] \in Message
  BY Types DEF TypeInv
<1>2. /\ id \in Nat \ {0} /\ (\A k \in D : k < id)
      /\ \A n \in Nat : (\A k \in D : k <= n) => id <= n + 1
  BY <1>1, NextIsFresh
<1>3. serials + 1 <= MaxMessages /\ serials \in Nat
  <2> DEFINE due == {p \in Workers \X Ids : p[2] \in DOMAIN work[p[1]].rep}
  <2>1. serials + 1 + Cardinality(due) <= MaxMessages /\ serials \in Nat
    BY DEF Post, Room, TypeInv, TypeOK
  <2>2. IsFiniteSet(Workers) /\ IsFiniteSet(Ids)
    <3>1. IsFiniteSet(Workers)
      BY FS_AddElement, QwkNames DEF Workers
    <3>2. IsFiniteSet(Ids)
      BY FS_Interval, QwkBounds DEF Ids
    <3> QED
      BY <3>1, <3>2
  <2>3. IsFiniteSet(Workers \X Ids)
    BY <2>2, FS_Product
  <2>4. IsFiniteSet(due)
    BY <2>3, FS_Subset
  <2>5. Cardinality(due) \in Nat
    BY <2>4, FS_CardinalityType
  <2> QED
    BY <2>1, <2>5, QwkBounds
<1>4. id \in Ids /\ id <= serials + 1 /\ id \notin D
  BY <1>1, <1>2, <1>3, QwkBounds DEF TypeInv, IdsStored, Ids
<1>5. messages' = [m \in D \union {id} |->
                     IF m \in D THEN messages[m]
                     ELSE [area |-> a, key |-> Composed, serial |-> serials + 1]]
  BY DEF Post
<1> HIDE DEF id, D
<1>6. [area |-> a, key |-> Composed, serial |-> serials + 1] \in Message
  BY <1>3, QwkBounds DEF Message, Ids
<1>7. messages' \in [D \union {id} -> Message] /\ D \union {id} \in SUBSET Ids
  BY <1>1, <1>4, <1>5, <1>6
<1>8. serials' = serials + 1 /\ serials' \in 0 .. MaxMessages
  BY <1>3, QwkBounds DEF Post
<1>9. IdsStored'
  BY <1>1, <1>3, <1>4, <1>5, <1>8 DEF IdsStored, TypeInv, D
<1>10. TypeOK'
  BY <1>7, <1>8 DEF TypeInv, TypeOK, Post, boundVars
<1> QED
  BY <1>2, <1>5, <1>9, <1>10 DEF TypeInv, D

LEMMA RepStoreType ==
  ASSUME TypeInv, NEW w \in Workers, RepStore(w)
  PROVE  /\ TypeInv'
         /\ DOMAIN messages \subseteq DOMAIN messages'
         /\ \A m \in DOMAIN messages : messages'[m] = messages[m]
         /\ \A m \in DOMAIN messages' \ DOMAIN messages, k \in DOMAIN messages : k < m
         /\ work'[w].pc = "stored" /\ work'[w].marks = {}
         /\ \A v \in Workers \ {w} : work'[v] = work[v]
<1> DEFINE D == DOMAIN messages
           rep == work[w].rep
           first == NextId(D)
           kept == Kept(rep, work[w].known)
           before(i) == {j \in kept : j < i}
           rank(i) == Cardinality(before(i))
           place(m) == CHOOSE j \in kept : first + rank(j) = m
           new == [m \in {first + rank(i) : i \in kept} |->
                     [area |-> rep[place(m)].area, key |-> rep[place(m)].key,
                      serial |-> serials + 1 + rank(place(m))]]
           fresh == {new[m].serial : m \in DOMAIN new}
<1>0. /\ serials' = serials + Cardinality(kept)
      /\ messages' = [m \in D \union DOMAIN new |->
                          IF m \in DOMAIN new THEN new[m] ELSE messages[m]]
      /\ uploaded' = uploaded \union fresh
      /\ work' = [work EXCEPT ![w] = [Idle EXCEPT !.pc = "stored", !.node = work[w].node,
                                          !.fresh = fresh]]
  BY DEF RepStore
<1>1. /\ D \subseteq Nat /\ IsFiniteSet(D) /\ D \subseteq Ids
      /\ \A m \in D : messages[m] \in Message
      /\ serials \in Nat
  BY Types DEF TypeInv, TypeOK
<1>2. /\ first \in Nat \ {0} /\ (\A k \in D : k < first)
      /\ \A n \in Nat : (\A k \in D : k <= n) => first <= n + 1
  BY <1>1, NextIsFresh
<1>3. first <= serials + 1
  BY <1>1, <1>2 DEF TypeInv, IdsStored
<1>4. /\ DOMAIN rep \subseteq Ids
      /\ \A i \in DOMAIN rep : rep[i].area \in Areas /\ rep[i].key \in Keys
  BY DEF TypeInv, TypeOK, Work
<1>5. kept \subseteq DOMAIN rep /\ kept \subseteq Nat /\ IsFiniteSet(kept)
  <2>1. kept \subseteq DOMAIN rep
    BY DEF Kept
  <2>2. IsFiniteSet(Ids) /\ Ids \subseteq Nat
    BY FS_Interval, QwkBounds DEF Ids
  <2> QED
    BY <1>4, <2>1, <2>2, FS_Subset
<1>6. Cardinality(kept) \in Nat /\ serials + Cardinality(kept) <= MaxMessages
  <2>1. Cardinality(kept) \in Nat
    BY <1>5, FS_CardinalityType
  <2> QED
    BY <2>1 DEF RepStore
<1> HIDE DEF kept
<1>7. ASSUME NEW i \in kept PROVE rank(i) \in Nat /\ rank(i) < Cardinality(kept)
  <2>1. before(i) \subseteq kept /\ i \notin before(i)
    BY <1>5
  <2> HIDE DEF before
  <2>2. IsFiniteSet(before(i)) /\ Cardinality(before(i)) <= Cardinality(kept)
        /\ Cardinality(before(i)) # Cardinality(kept)
    BY <1>5, <2>1, FS_Subset
  <2>3. Cardinality(before(i)) \in Nat
    BY <2>2, FS_CardinalityType
  <2> QED
    BY <1>6, <2>2, <2>3
<1> HIDE DEF rank, first
<1>8. \A m \in DOMAIN new : place(m) \in kept /\ first + rank(place(m)) = m
  OBVIOUS
<1>9. ASSUME NEW m \in DOMAIN new
      PROVE  /\ new[m] \in Message /\ m \in Ids /\ m <= serials + Cardinality(kept)
             /\ \A k \in D : k < m
  <2> DEFINE i == place(m)
  <2>1. i \in kept /\ first + rank(i) = m
    BY <1>8
  <2>2. new[m] = [area |-> rep[i].area, key |-> rep[i].key, serial |-> serials + 1 + rank(i)]
    OBVIOUS
  <2> HIDE DEF i, new, D
  <2>3. rank(i) \in Nat /\ rank(i) < Cardinality(kept)
    BY <1>7, <2>1
  <2>4. serials + 1 + rank(i) \in Ids
    BY <1>1, <1>6, <2>3, QwkBounds DEF Ids
  <2>5. rep[i].area \in Areas /\ rep[i].key \in Keys
    BY <1>4, <1>5, <2>1
  <2>6. new[m] \in Message
    BY <2>2, <2>4, <2>5 DEF Message
  <2>7. m \in Ids /\ m <= serials + Cardinality(kept)
    BY <1>1, <1>2, <1>3, <1>6, <2>1, <2>3, QwkBounds DEF Ids
  <2>8. \A k \in D : k < m
    BY <1>1, <1>2, <2>1, <2>3
  <2> QED
    BY <2>6, <2>7, <2>8
<1> HIDE DEF new, D
<1>10. messages' \in [D \union DOMAIN new -> Message] /\ D \union DOMAIN new \in SUBSET Ids
  BY <1>1, <1>9, <1>0
<1>11. \A m \in D : messages'[m] = messages[m]
  BY <1>1, <1>9, <1>0
<1>12. serials' \in 0 .. MaxMessages /\ IdsStored'
  <2>1. serials' \in 0 .. MaxMessages
    BY <1>1, <1>6, <1>0
  <2>2. \A m \in D \union DOMAIN new : m <= serials'
    BY <1>1, <1>6, <1>9, <1>0 DEF TypeInv, IdsStored, D
  <2>3. DOMAIN messages' = D \union DOMAIN new
    BY <1>0
  <2> QED
    BY <2>1, <2>2, <2>3 DEF IdsStored
<1>13. fresh \subseteq Ids
  BY <1>9 DEF Message
<1> DEFINE r == [Idle EXCEPT !.pc = "stored", !.node = work[w].node, !.fresh = fresh]
<1>14. r \in Work /\ r.pc = "stored" /\ r.marks = {}
  BY <1>13, IdleType DEF Work, Idle, TypeInv, TypeOK
<1> HIDE DEF r, fresh
<1>15. /\ work' \in [Workers -> Work] /\ work'[w] = r
       /\ \A v \in Workers \ {w} : work'[v] = work[v]
  BY <1>0, <1>14, WorkType DEF r, TypeInv
<1>16. TypeOK'
  BY <1>0, <1>10, <1>12, <1>13, <1>15 DEF TypeInv, TypeOK, RepStore, boundVars
<1> QED
  BY <1>9, <1>0, <1>11, <1>12, <1>14, <1>15, <1>16 DEF TypeInv, D

(* A step of one request or thread that leaves messages and rows alone, and  *)
(* ends with no marks to write.                                             *)
Quiet(w) ==
  /\ work'[w].pc # "built" /\ work'[w].marks = {}
  /\ \A v \in Workers \ {w} : work'[v] = work[v]
  /\ UNCHANGED <<messages, rows, serials, open>>

LEMMA RepReadType ==
  ASSUME TypeInv, NEW w \in Workers, NEW n \in Nodes, NEW rep \in Reps, RepRead(w, n, rep)
  PROVE  /\ TypeInv' /\ Quiet(w) /\ work[w].pc = "idle" /\ work'[w].pc = "read"
         /\ UNCHANGED <<file, received, lost>>
<1>1. PICK area \in [{c \in {rep[i].conf : i \in DOMAIN rep} : AreasOf(n, c) # {}} -> Areas],
           known \in BOOLEAN :
        work' = [work EXCEPT ![w] = [Idle EXCEPT !.pc = "read", !.node = n,
                                       !.rep = Addressed(rep, area), !.known = known]]
  <2>1. \A a, key : Stored(a, key) \in BOOLEAN
    BY DEF Stored
  <2> QED
    BY <2>1 DEF RepRead
<1> DEFINE S == {k \in DOMAIN rep : rep[k].conf \in DOMAIN area}
           todo == Addressed(rep, area)
<1>3. /\ DOMAIN rep \subseteq Ids
      /\ \A k \in DOMAIN rep : rep[k] \in [conf : Nat, key : Keys]
  <2>1. rep \in Seq([conf : Nat, key : Keys]) /\ Len(rep) <= MaxMessages
    BY QwkNames
  <2>2. Len(rep) \in Nat /\ DOMAIN rep = 1 .. Len(rep)
        /\ rep \in [1 .. Len(rep) -> [conf : Nat, key : Keys]]
    BY <2>1, LenProperties
  <2> QED
    BY <2>1, <2>2, QwkBounds DEF Ids
<1>4. todo \in [S -> [area : Areas, key : Keys]] /\ S \in SUBSET Ids
  BY <1>3 DEF Addressed
<1> DEFINE r == [Idle EXCEPT !.pc = "read", !.node = n, !.rep = todo, !.known = known]
<1> HIDE DEF todo, S
<1>5. r \in Work /\ r.pc = "read" /\ r.marks = {}
  <2>1. todo \in UNION {[T -> [area : Areas, key : Keys]] : T \in SUBSET Ids}
    BY <1>4
  <2> QED
    BY <2>1, IdleType DEF Work, Idle
<1> HIDE DEF r
<1>6. work' \in [Workers -> Work] /\ work'[w] = r /\ \A v \in Workers \ {w} : work'[v] = work[v]
  BY <1>1, <1>5, WorkType DEF r, todo, TypeInv
<1>7. /\ work[w].pc = "idle"
      /\ UNCHANGED <<messages, rows, open, file, boundVars, historyVars>>
  BY DEF RepRead
<1> QED
  BY <1>5, <1>6, <1>7 DEF TypeInv, TypeOK, IdsStored, Quiet, boundVars, historyVars

LEMMA FinishType ==
  ASSUME TypeInv, NEW w \in Workers,
         \/ w \in Requests /\ (HttpAnswered(w) \/ HttpLost(w) \/ HttpToss(w))
         \/ w = Ftp /\ (FtpMarkFails \/ FtpToss \/ FtpTossFails)
  PROVE  TypeInv' /\ Quiet(w)
<1>1. Finish(w) /\ UNCHANGED <<messages, rows, open, file, edits, serials, packed, uploaded>>
  BY DEF HttpAnswered, HttpLost, HttpToss, FtpMarkFails, FtpToss, FtpTossFails, boundVars, historyVars
<1>2. /\ work' \in [Workers -> Work] /\ work'[w].pc = "idle" /\ work'[w].marks = {}
      /\ \A v \in Workers \ {w} : work'[v] = work[v]
  BY <1>1, FinishFacts DEF TypeInv
<1>3. /\ work[w].node \in Nodes /\ work[w].packet \subseteq Ids /\ work[w].fresh \subseteq Ids
  BY DEF TypeInv, TypeOK, Work
<1>4. faults' \in 0 .. MaxFaults
  BY QwkBounds DEF HttpAnswered, HttpLost, HttpToss, FtpMarkFails, FtpToss, FtpTossFails,
     boundVars, historyVars, TypeInv, TypeOK
<1>5. received' \subseteq Nodes \X Ids /\ lost' \subseteq Nodes \X Ids
  BY <1>3 DEF HttpAnswered, HttpLost, HttpToss, FtpMarkFails, FtpToss, FtpTossFails,
     boundVars, historyVars, TypeInv, TypeOK
<1>6. tossed' \subseteq Ids
  BY <1>3 DEF HttpAnswered, HttpLost, HttpToss, FtpMarkFails, FtpToss, FtpTossFails,
     boundVars, historyVars, TypeInv, TypeOK
<1> QED
  BY <1>1, <1>2, <1>4, <1>5, <1>6 DEF TypeInv, TypeOK, IdsStored, Quiet

LEMMA FetchType ==
  ASSUME TypeInv, NEW n \in Nodes, FtpFetch(n)
  PROVE  TypeInv'
  BY DEF FtpFetch, TypeInv, TypeOK, IdsStored, boundVars

LEMMA BuildType ==
  ASSUME TypeInv, NEW w \in Workers, NEW n \in Nodes,
         HttpBuild(w, n) \/ (w = Ftp /\ FtpBuild(n))
  PROVE  TypeInv' /\ Holds(w, n)
<1>1. /\ work' \in [Workers -> Work] /\ packed' \subseteq Nodes \X Ids /\ Holds(w, n)
      /\ FtpBuild(n) => file' = [file EXCEPT ![n] = work'[Ftp].packet]
  BY HttpBuildFacts, FtpBuildFacts DEF TypeInv
<1>2. CASE HttpBuild(w, n)
  BY <1>1, <1>2 DEF HttpBuild, TypeInv, TypeOK, IdsStored, boundVars
<1>3. CASE w = Ftp /\ FtpBuild(n)
  <2>1. file' \in [Nodes -> SUBSET Ids]
    BY <1>1, <1>3 DEF Holds, TypeInv, TypeOK
  <2>2. lost' \subseteq Nodes \X Ids
    BY <1>3 DEF FtpBuild, TypeInv, TypeOK
  <2> QED
    BY <1>1, <1>3, <2>1, <2>2 DEF FtpBuild, TypeInv, TypeOK, IdsStored, boundVars
<1> QED
  BY <1>2, <1>3

(* What a step that writes marks does to the rows.                          *)
Marked(w) ==
  /\ DOMAIN rows' = DOMAIN rows
  /\ \A i \in DOMAIN rows :
       /\ rows'[i].node = rows[i].node /\ rows'[i].area = rows[i].area
       /\ rows'[i].conf = rows[i].conf
       /\ \/ rows'[i].mark = rows[i].mark
          \/ \E k \in work[w].marks :
               /\ rows'[i].mark = k.upto
               /\ \/ w \in Requests /\ rows[i].node = work[w].node /\ rows[i].area = k.area
                  \/ w = Ftp /\ k.row = i

LEMMA HttpMarkType ==
  ASSUME TypeInv, NEW w \in Requests, HttpMark(w)
  PROVE  /\ TypeInv' /\ Marked(w)
         /\ work'[w] = [work[w] EXCEPT !.pc = "answer", !.marks = {}]
         /\ \A v \in Workers \ {w} : work'[v] = work[v]
<1>0. w \in Workers /\ work[w] \in Work
  BY DEF Workers, TypeInv, TypeOK
<1>1. PICK new : new = [i \in DOMAIN rows |->
                {k \in work[w].marks : rows[i].node = work[w].node /\ rows[i].area = k.area}]
  OBVIOUS
<1>2. new \in [DOMAIN rows -> SUBSET NewMark] /\ SetMarks(new)
  BY <1>0, <1>1 DEF HttpMark, Work
<1>3. /\ rows' \in [DOMAIN rows -> Subscription] /\ DOMAIN rows' = DOMAIN rows
      /\ \A i \in DOMAIN rows :
              /\ rows'[i].node = rows[i].node /\ rows'[i].area = rows[i].area
              /\ rows'[i].conf = rows[i].conf
              /\ \/ rows'[i].mark = rows[i].mark
                 \/ \E k \in new[i] : rows'[i].mark = k.upto
  BY <1>2, SetMarksFacts DEF TypeInv
<1>4. Marked(w)
  BY <1>1, <1>3 DEF Marked
<1> DEFINE r == [work[w] EXCEPT !.pc = "answer", !.marks = {}]
<1>5. work' = [work EXCEPT ![w] = r]
  BY <1>0 DEF HttpMark, TypeInv, TypeOK
<1>6. r \in Work
  BY <1>0 DEF Work
<1>7. work' \in [Workers -> Work] /\ work'[w] = r /\ \A v \in Workers \ {w} : work'[v] = work[v]
  BY <1>0, <1>5, <1>6, WorkType DEF TypeInv
<1>8. \E S \in SUBSET RowIds : rows' \in [S -> Subscription]
  BY <1>3, Types DEF TypeInv
<1> QED
  BY <1>4, <1>7, <1>8 DEF HttpMark, TypeInv, TypeOK, IdsStored, boundVars, historyVars

LEMMA FtpMarkType ==
  ASSUME TypeInv, FtpMark
  PROVE  /\ TypeInv' /\ Marked(Ftp)
         /\ work'[Ftp].pc = "idle" /\ work'[Ftp].marks = {}
         /\ \A v \in Workers \ {Ftp} : work'[v] = work[v]
<1>0. Ftp \in Workers /\ work[Ftp] \in Work
  BY DEF Workers, TypeInv, TypeOK
<1>1. PICK new : /\ new = [i \in DOMAIN rows |-> {k \in work[Ftp].marks : k.row = i}]
                 /\ UNCHANGED rows \/ SetMarks(new)
  BY DEF FtpMark
<1>2. new \in [DOMAIN rows -> SUBSET NewMark]
  BY <1>0, <1>1 DEF Work
<1>3. ASSUME SetMarks(new) PROVE Marked(Ftp)
  <2>1. /\ rows' \in [DOMAIN rows -> Subscription] /\ DOMAIN rows' = DOMAIN rows
        /\ \A i \in DOMAIN rows :
              /\ rows'[i].node = rows[i].node /\ rows'[i].area = rows[i].area
              /\ rows'[i].conf = rows[i].conf
              /\ \/ rows'[i].mark = rows[i].mark
                 \/ \E k \in new[i] : rows'[i].mark = k.upto
    BY <1>2, <1>3, SetMarksFacts DEF TypeInv
  <2> QED
    BY <1>1, <2>1 DEF Marked
<1>5. ASSUME UNCHANGED rows PROVE Marked(Ftp)
  BY <1>5 DEF Marked
<1>6. rows' \in [DOMAIN rows -> Subscription]
  <2>1. ASSUME SetMarks(new) PROVE rows' \in [DOMAIN rows -> Subscription]
    BY <1>2, <2>1, SetMarksFacts DEF TypeInv
  <2>2. ASSUME UNCHANGED rows PROVE rows' \in [DOMAIN rows -> Subscription]
    BY <2>2, Types DEF TypeInv
  <2> QED
    BY <1>1, <2>1, <2>2
<1>7. /\ work' \in [Workers -> Work] /\ work'[Ftp].pc = "idle" /\ work'[Ftp].marks = {}
      /\ \A v \in Workers \ {Ftp} : work'[v] = work[v]
  BY <1>0, FinishFacts DEF FtpMark, TypeInv
<1>8. \E S \in SUBSET RowIds : rows' \in [S -> Subscription]
  BY <1>6, Types DEF TypeInv
<1> QED
  BY <1>1, <1>3, <1>5, <1>7, <1>8 DEF FtpMark, TypeInv, TypeOK, IdsStored, boundVars, historyVars

-----------------------------------------------------------------------------
(* The sysop                                                                *)

(* A new row of the table is apart from those there are.                    *)
LEMMA SubscribeType ==
  ASSUME TypeInv, NEW n \in Nodes, NEW a \in Areas, Subscribe(n, a)
  PROVE  /\ TypeInv'
         /\ \A i \in DOMAIN rows : i \in DOMAIN rows' /\ rows'[i] = rows[i]
         /\ \A i \in DOMAIN rows' \ DOMAIN rows :
              /\ rows'[i].node = n /\ rows'[i].area = a
              /\ rows'[i].conf = ConfFor(n, a) /\ rows'[i].mark = 0
              /\ DOMAIN rows' = DOMAIN rows \union {i}
<1> DEFINE id == NextId(DOMAIN rows)
           r == [node |-> n, area |-> a, conf |-> ConfFor(n, a), mark |-> 0]
           confs == {rows[i].conf : i \in RowsOf(n)}
<1>1. ConfFor(n, a) \in Nat
  <2>1. RowsOf(n) \subseteq DOMAIN rows /\ IsFiniteSet(RowsOf(n))
    BY Types, FS_Subset DEF RowsOf, TypeInv
  <2>2. confs \subseteq Nat
    BY <2>1, Types DEF Subscription, TypeInv
  <2>3. IsFiniteSet(confs)
    <3> DEFINE f == [i \in RowsOf(n) |-> rows[i].conf]
    <3>1. f \in Surjection(RowsOf(n), confs)
      BY DEF Surjection
    <3> QED
      BY <2>1, <3>1, FS_Surjection
  <2>4. NextId(confs) \in Nat
    BY <2>2, <2>3, NextIsFresh
  <2>5. TagNumber[a] \in Nat
    BY QwkNames
  <2> QED
    BY <2>4, <2>5 DEF ConfFor
<1>2. r \in Subscription
  BY <1>1, QwkBounds DEF Subscription, Marks
<1>3. id \in RowIds
  BY DEF Subscribe
<1>4. rows' = [i \in DOMAIN rows \union {id} |-> IF i \in DOMAIN rows THEN rows[i] ELSE r]
  BY DEF Subscribe
<1> HIDE DEF id, r
<1>5. rows' \in [DOMAIN rows \union {id} -> Subscription]
      /\ DOMAIN rows \union {id} \in SUBSET RowIds
  BY <1>2, <1>3, <1>4, Types DEF TypeInv
<1>6. edits' \in 0 .. MaxEdits
  BY QwkBounds DEF Subscribe, Edit, TypeInv, TypeOK
<1>7. TypeOK'
  BY <1>5, <1>6 DEF Subscribe, Edit, TypeInv, TypeOK, historyVars
<1>8. IdsStored'
  BY DEF Subscribe, TypeInv, IdsStored, historyVars
<1> QED
  BY <1>4, <1>7, <1>8 DEF TypeInv, r

(* An edit that takes something away; a row keeps its mark only while the    *)
(* message is there.                                                        *)
Trimmed ==
  /\ DOMAIN rows' \subseteq DOMAIN rows /\ DOMAIN messages' \subseteq DOMAIN messages
  /\ \A m \in DOMAIN messages' : messages'[m] = messages[m]
  /\ \A i \in DOMAIN rows' :
       /\ rows'[i].node = rows[i].node /\ rows'[i].area = rows[i].area
       /\ rows'[i].conf = rows[i].conf
       /\ \/ rows'[i].mark = 0
          \/ /\ rows'[i].mark = rows[i].mark
             /\ rows[i].mark \in DOMAIN messages => rows[i].mark \in DOMAIN messages'

LEMMA TrimType ==
  ASSUME TypeInv,
         \/ \E i \in RowIds : Unsubscribe(i) \/ ResetMark(i)
         \/ \E a \in Areas : SwitchArea(a)
         \/ \E m \in Ids : Delete(m)
  PROVE  TypeInv' /\ Trimmed /\ Edit /\ UNCHANGED <<work, file, historyVars>>
<1>0. /\ rows \in [DOMAIN rows -> Subscription] /\ DOMAIN rows \subseteq RowIds
      /\ messages \in [DOMAIN messages -> Message] /\ DOMAIN messages \subseteq Ids
      /\ 0 \in Marks
  BY Types, QwkBounds DEF TypeInv, Marks
<1> DEFINE RowsType == \E S \in SUBSET RowIds : rows' \in [S -> Subscription]
           MessagesType == \E S \in SUBSET Ids : messages' \in [S -> Message]
<1>1. ASSUME NEW i \in RowIds, Unsubscribe(i) PROVE Trimmed /\ RowsType /\ MessagesType
  <2>1. /\ rows' = [j \in DOMAIN rows \ {i} |-> rows[j]] /\ UNCHANGED messages
    BY <1>1 DEF Unsubscribe, Restrict
  <2> QED
    BY <1>0, <2>1 DEF Trimmed
<1>2. ASSUME NEW i \in RowIds, ResetMark(i) PROVE Trimmed /\ RowsType /\ MessagesType
  <2>1. /\ rows' = [rows EXCEPT ![i].mark = 0] /\ UNCHANGED messages /\ i \in DOMAIN rows
    BY <1>2 DEF ResetMark
  <2>2. rows' \in [DOMAIN rows -> Subscription]
    BY <1>0, <2>1 DEF Subscription
  <2> QED
    BY <1>0, <2>1, <2>2 DEF Trimmed, Subscription
<1>3. ASSUME NEW a \in Areas, SwitchArea(a) PROVE Trimmed /\ RowsType /\ MessagesType
  BY <1>0, <1>3 DEF SwitchArea, Trimmed
<1>4. ASSUME NEW m \in Ids, Delete(m) PROVE Trimmed /\ RowsType /\ MessagesType
  <2>1. /\ messages' = [k \in DOMAIN messages \ {m} |-> messages[k]]
        /\ rows' = [i \in DOMAIN rows |->
                      IF rows[i].mark = m THEN [rows[i] EXCEPT !.mark = 0] ELSE rows[i]]
    BY <1>4 DEF Delete, Restrict, WithoutMark
  <2>2. rows' \in [DOMAIN rows -> Subscription]
    BY <1>0, <2>1 DEF Subscription
  <2>3. \A i \in DOMAIN rows :
          /\ rows'[i].node = rows[i].node /\ rows'[i].area = rows[i].area
          /\ rows'[i].conf = rows[i].conf
          /\ rows'[i].mark = IF rows[i].mark = m THEN 0 ELSE rows[i].mark
    BY <1>0, <2>1 DEF Subscription
  <2> QED
    BY <1>0, <2>1, <2>2, <2>3 DEF Trimmed
<1>5. Trimmed /\ RowsType /\ MessagesType
  BY <1>1, <1>2, <1>3, <1>4
<1>6. Edit /\ UNCHANGED <<work, file, faults, historyVars>> /\ open' \subseteq Areas
  BY DEF Unsubscribe, ResetMark, SwitchArea, Delete, TypeInv, TypeOK
<1>7. edits' \in 0 .. MaxEdits
  BY <1>6, QwkBounds DEF Edit, TypeInv, TypeOK
<1>8. IdsStored'
  BY <1>5, <1>6 DEF Trimmed, TypeInv, IdsStored, historyVars
<1>9. TypeOK'
  BY <1>5, <1>6, <1>7 DEF TypeInv, TypeOK, historyVars
<1> QED
  BY <1>5, <1>6, <1>8, <1>9 DEF TypeInv

LEMMA NextType == TypeInv /\ [Next]_vars => TypeInv'
<1> SUFFICES ASSUME TypeInv, [Next]_vars PROVE TypeInv'
  OBVIOUS
<1>0. Requests \subseteq Workers /\ Ftp \in Workers
  BY DEF Workers
<1>1. CASE UNCHANGED vars
  BY <1>1 DEF vars, TypeInv, TypeOK, IdsStored, boundVars, historyVars
<1>2. CASE \E a \in Areas : Post(a)
  BY <1>2, PostType
<1>3. CASE \E w \in Requests : Download(w)
  BY <1>0, <1>3, BuildType, HttpMarkType, FinishType DEF Download
<1>4. CASE Login
  BY <1>0, <1>4, BuildType, FetchType, FtpMarkType, FinishType DEF Login
<1>5. CASE \E w \in Workers : Upload(w)
  <2>1. \A w \in Workers : HttpToss(w) => w \in Requests
    BY DEF HttpToss
  <2> QED
    BY <1>5, <2>1, RepReadType, RepStoreType, FinishType DEF Upload
<1>6. CASE FtpToss \/ FtpTossFails
  BY <1>0, <1>6, FinishType
<1>7. CASE Sysop
  BY <1>7, SubscribeType, TrimType DEF Sysop
<1> QED
  BY <1>1, <1>2, <1>3, <1>4, <1>5, <1>6, <1>7 DEF Next

LEMMA TypeHolds == Spec => []TypeInv
  BY InitType, NextType, PTL DEF Spec

(* The tables, the packets being built or stored and the files of the nodes  *)
(* keep their types (EchomailMessage, QWKNodeLastSent, the handlers' locals). *)
THEOREM TypeCorrect == Spec => []TypeOK
<1>1. TypeInv => TypeOK
  BY DEF TypeInv
<1> QED
  BY <1>1, TypeHolds, PTL

-----------------------------------------------------------------------------
(* No mark outlives its message                                             *)

(* The marks a request or the FTP thread is about to write point at stored   *)
(* messages of their areas.                                                 *)
MarkInv ==
  /\ MarkIsStored
  /\ \A w \in Workers : work[w].pc # "built" => work[w].marks = {}
  /\ \A w \in Workers : \A k \in work[w].marks :
       k.upto \in DOMAIN messages /\ messages[k.upto].area = k.area
  /\ \A k \in work[Ftp].marks :
       k.row \in DOMAIN rows =>
         rows[k.row].area = k.area /\ rows[k.row].node = work[Ftp].node

(* Steps that store messages, each above all there were.                    *)
Grow ==
  /\ DOMAIN messages \subseteq DOMAIN messages'
  /\ \A m \in DOMAIN messages : messages'[m] = messages[m]
  /\ \A m \in DOMAIN messages' \ DOMAIN messages, k \in DOMAIN messages : k < m

LEMMA GrowMarks ==
  ASSUME MarkInv, Grow, UNCHANGED rows,
         \A w \in Workers : \/ work'[w] = work[w]
                            \/ w # Ftp /\ work'[w].pc = "stored" /\ work'[w].marks = {}
                            \/ w = Ftp /\ work'[w].pc = "stored" /\ work'[w].marks = {}
  PROVE  MarkInv'
<1>0. Ftp \in Workers
  BY DEF Workers
<1>1. MarkIsStored'
  BY DEF MarkInv, MarkIsStored, Grow
<1>2. \A w \in Workers : work'[w].pc # "built" => work'[w].marks = {}
  BY DEF MarkInv
<1>3. \A w \in Workers : \A k \in work'[w].marks :
         k.upto \in DOMAIN messages' /\ messages'[k.upto].area = k.area
  BY DEF MarkInv, Grow
<1>4. \A k \in work'[Ftp].marks :
         k.row \in DOMAIN rows' =>
           rows'[k.row].area = k.area /\ rows'[k.row].node = work'[Ftp].node
  BY <1>0 DEF MarkInv
<1> QED
  BY <1>1, <1>2, <1>3, <1>4 DEF MarkInv

LEMMA BuildMarks ==
  ASSUME MarkInv, NEW w \in Workers, NEW n \in Nodes, Holds(w, n), UNCHANGED <<messages, rows>>
  PROVE  MarkInv'
<1>0. Ftp \in Workers
  BY DEF Workers
<1>1. MarkIsStored'
  BY DEF MarkInv, MarkIsStored
<1>2. \A v \in Workers : work'[v].pc # "built" => work'[v].marks = {}
  BY DEF MarkInv, Holds
<1>3. \A v \in Workers : \A k \in work'[v].marks :
         k.upto \in DOMAIN messages' /\ messages'[k.upto].area = k.area
  BY DEF MarkInv, Holds
<1>4. \A k \in work'[Ftp].marks :
         k.row \in DOMAIN rows' =>
           rows'[k.row].area = k.area /\ rows'[k.row].node = work'[Ftp].node
  BY <1>0 DEF MarkInv, Holds
<1> QED
  BY <1>1, <1>2, <1>3, <1>4 DEF MarkInv

LEMMA QuietMarks ==
  ASSUME MarkInv, NEW w \in Workers, Quiet(w)
  PROVE  MarkInv'
<1>0. Ftp \in Workers
  BY DEF Workers
<1>1. MarkIsStored'
  BY DEF MarkInv, MarkIsStored, Quiet
<1> QED
  BY <1>0, <1>1 DEF MarkInv, Quiet

LEMMA MarkedMarks ==
  ASSUME MarkInv, NEW w \in Workers, Marked(w), UNCHANGED messages,
         work'[w].pc # "built" /\ work'[w].marks = {},
         \A v \in Workers \ {w} : work'[v] = work[v]
  PROVE  MarkInv'
<1>0. Ftp \in Workers
  BY DEF Workers
<1>1. MarkIsStored'
  <2> SUFFICES ASSUME NEW i \in DOMAIN rows, rows'[i].mark # 0
               PROVE  /\ rows'[i].mark \in DOMAIN messages
                      /\ messages[rows'[i].mark].area = rows[i].area
    BY DEF MarkIsStored, Marked
  <2>1. CASE rows'[i].mark = rows[i].mark
    BY <2>1 DEF MarkInv, MarkIsStored
  <2>2. CASE \E k \in work[w].marks :
               /\ rows'[i].mark = k.upto
               /\ \/ w \in Requests /\ rows[i].node = work[w].node /\ rows[i].area = k.area
                  \/ w = Ftp /\ k.row = i
    BY <2>2 DEF MarkInv
  <2> QED
    BY <2>1, <2>2 DEF Marked
<1>2. \A k \in work'[Ftp].marks :
         k.row \in DOMAIN rows' =>
           rows'[k.row].area = k.area /\ rows'[k.row].node = work'[Ftp].node
  BY <1>0 DEF MarkInv, Marked
<1> QED
  BY <1>1, <1>2 DEF MarkInv

(* While nobody is between the halves of a download there are no marks to    *)
(* write.                                                                   *)
LEMMA EditMarks ==
  ASSUME ~ EditsDuringDownload, MarkInv, Edit
  PROVE  \A w \in Workers : work[w].marks = {}
  BY DEF MarkInv, Edit, AdminMayAct

LEMMA SysopMarks ==
  ASSUME ~ EditsDuringDownload, TypeInv, MarkInv, Sysop
  PROVE  MarkInv'
<1>1. Edit /\ UNCHANGED work /\ Ftp \in Workers
  BY TrimType DEF Sysop, Subscribe, Workers
<1>2. \A w \in Workers : work[w].marks = {} /\ work'[w] = work[w]
  BY <1>1, EditMarks
<1>3. MarkIsStored'
  <2>1. CASE \E n \in Nodes, a \in Areas : Subscribe(n, a)
    <3>1. PICK n \in Nodes, a \in Areas : Subscribe(n, a)
      BY <2>1
    <3>2. /\ \A i \in DOMAIN rows : i \in DOMAIN rows' /\ rows'[i] = rows[i]
          /\ \A i \in DOMAIN rows' \ DOMAIN rows : rows'[i].mark = 0
      BY <3>1, SubscribeType
    <3>3. UNCHANGED messages
      BY <3>1 DEF Subscribe
    <3> QED
      BY <3>2, <3>3 DEF MarkInv, MarkIsStored
  <2>2. CASE \/ \E i \in RowIds : Unsubscribe(i) \/ ResetMark(i)
             \/ \E a \in Areas : SwitchArea(a)
             \/ \E m \in Ids : Delete(m)
    <3>1. Trimmed
      BY <2>2, TrimType
    <3> QED
      BY <3>1 DEF Trimmed, MarkInv, MarkIsStored
  <2> QED
    BY <2>1, <2>2 DEF Sysop
<1> QED
  BY <1>1, <1>2, <1>3 DEF MarkInv

LEMMA NextMarks ==
  ~ EditsDuringDownload => (TypeInv /\ MarkInv /\ [Next]_vars => MarkInv')
<1> SUFFICES ASSUME ~ EditsDuringDownload, TypeInv, MarkInv, [Next]_vars PROVE MarkInv'
  OBVIOUS
<1>0. Requests \subseteq Workers /\ Ftp \in Workers
  BY DEF Workers
<1>1. CASE UNCHANGED vars
  BY <1>1 DEF vars, MarkInv, MarkIsStored
<1>2. ASSUME NEW a \in Areas, Post(a) PROVE MarkInv'
  <2>1. Grow /\ UNCHANGED <<rows, work>>
    BY <1>2, PostType DEF Grow, Post
  <2> QED
    BY <2>1, GrowMarks
<1>3. ASSUME NEW w \in Requests, Download(w) PROVE MarkInv'
  <2>1. ASSUME NEW n \in Nodes, HttpBuild(w, n) PROVE MarkInv'
    <3>1. Holds(w, n) /\ UNCHANGED <<messages, rows>>
      BY <1>0, <2>1, BuildType DEF HttpBuild
    <3> QED
      BY <1>0, <3>1, BuildMarks
  <2>2. ASSUME HttpMark(w) PROVE MarkInv'
    <3>1. /\ Marked(w) /\ UNCHANGED messages /\ work[w] \in Work
          /\ work'[w] = [work[w] EXCEPT !.pc = "answer", !.marks = {}]
          /\ \A v \in Workers \ {w} : work'[v] = work[v]
      BY <1>0, <2>2, HttpMarkType DEF HttpMark, TypeInv, TypeOK
    <3>2. work'[w].pc # "built" /\ work'[w].marks = {}
      BY <3>1 DEF Work
    <3> QED
      BY <1>0, <3>1, <3>2, MarkedMarks
  <2>3. ASSUME HttpAnswered(w) \/ HttpLost(w) PROVE MarkInv'
    BY <1>0, <2>3, FinishType, QuietMarks
  <2> QED
    BY <1>3, <2>1, <2>2, <2>3 DEF Download
<1>4. CASE Login
  <2>1. ASSUME NEW n \in Nodes, FtpBuild(n) PROVE MarkInv'
    <3>1. Holds(Ftp, n) /\ UNCHANGED <<messages, rows>>
      BY <1>0, <2>1, BuildType DEF FtpBuild
    <3> QED
      BY <1>0, <3>1, BuildMarks
  <2>2. ASSUME NEW n \in Nodes, FtpFetch(n) PROVE MarkInv'
    BY <2>2 DEF FtpFetch, MarkInv, MarkIsStored
  <2>3. ASSUME FtpMark PROVE MarkInv'
    <3>1. UNCHANGED messages
      BY <2>3 DEF FtpMark
    <3>2. /\ Marked(Ftp) /\ work'[Ftp].pc = "idle" /\ work'[Ftp].marks = {}
          /\ \A v \in Workers \ {Ftp} : work'[v] = work[v]
      BY <2>3, FtpMarkType
    <3> QED
      BY <1>0, <3>1, <3>2, MarkedMarks
  <2>4. ASSUME FtpMarkFails PROVE MarkInv'
    BY <1>0, <2>4, FinishType, QuietMarks
  <2> QED
    BY <1>4, <2>1, <2>2, <2>3, <2>4 DEF Login
<1>5. ASSUME NEW w \in Workers, Upload(w) PROVE MarkInv'
  <2>1. ASSUME NEW n \in Nodes, NEW rep \in Reps, RepRead(w, n, rep) PROVE MarkInv'
    BY <2>1, RepReadType, QuietMarks
  <2>2. ASSUME RepStore(w) PROVE MarkInv'
    <3>1. /\ Grow /\ work'[w].pc = "stored" /\ work'[w].marks = {}
          /\ \A v \in Workers \ {w} : work'[v] = work[v]
      BY <2>2, RepStoreType DEF Grow
    <3>2. UNCHANGED rows
      BY <2>2 DEF RepStore
    <3> QED
      BY <3>1, <3>2, GrowMarks
  <2>3. ASSUME HttpToss(w) PROVE MarkInv'
    <3>1. w \in Requests
      BY <2>3 DEF HttpToss
    <3> QED
      BY <2>3, <3>1, FinishType, QuietMarks
  <2> QED
    BY <1>5, <2>1, <2>2, <2>3 DEF Upload
<1>6. CASE FtpToss \/ FtpTossFails
  BY <1>0, <1>6, FinishType, QuietMarks
<1>7. CASE Sysop
  BY <1>7, SysopMarks
<1> QED
  BY <1>1, <1>2, <1>3, <1>4, <1>5, <1>6, <1>7 DEF Next

LEMMA InitMarks == Init => MarkInv
<1> SUFFICES ASSUME Init PROVE MarkInv
  OBVIOUS
<1>1. /\ \A i \in DOMAIN rows : rows[i].mark = 0
      /\ \A w \in Workers : work[w] = Idle
      /\ Ftp \in Workers
  BY QwkStart DEF Init, Workers
<1>2. Idle.marks = {}
  BY DEF Idle
<1> QED
  BY <1>1, <1>2 DEF MarkInv, MarkIsStored

(* While the sysop stays out of the halves of a download, a mark is NULL or  *)
(* the id of a stored message of its area, in whatever order downloads,      *)
(* uploads, deletions, resets and failures come (mark_qwk_sent,              *)
(* generate_node_packet and delete_message).                                *)
THEOREM MarksSafe == ~ EditsDuringDownload => (Spec => []MarkIsStored)
<1> SUFFICES ASSUME ~ EditsDuringDownload PROVE Spec => []MarkIsStored
  OBVIOUS
<1>1. TypeInv /\ MarkInv /\ [Next]_vars => MarkInv'
  BY NextMarks
<1>2. MarkInv => MarkIsStored
  BY DEF MarkInv
<1> QED
  BY <1>1, <1>2, InitMarks, TypeHolds, PTL DEF Spec

-----------------------------------------------------------------------------
(* What is marked is delivered                                              *)

(* The tags of the areas spell different numbers, and the subscriptions made *)
(* before have them, one for an area.                                       *)
Numbered ==
  /\ \A a \in Areas : TagNumber[a] # 0
  /\ \A a, b \in Areas : TagNumber[a] = TagNumber[b] => a = b
  /\ \A i \in DOMAIN StartRows : StartRows[i].conf = TagNumber[StartRows[i].area]
  /\ \A i, j \in DOMAIN StartRows :
       (StartRows[i].node = StartRows[j].node /\ StartRows[i].area = StartRows[j].area) => i = j

RowsNumbered ==
  /\ \A i \in DOMAIN rows : rows[i].conf = TagNumber[rows[i].area]
  /\ \A i, j \in DOMAIN rows :
       (rows[i].node = rows[j].node /\ rows[i].area = rows[j].area) => i = j

LEMMA NumberedOnce ==
  ASSUME Numbered, TypeInv, RowsNumbered
  PROVE  OneConfEach
<1>1. \A i \in DOMAIN rows : rows[i].area \in Areas
  BY Types DEF TypeInv, Subscription
<1> QED
  BY <1>1 DEF Numbered, RowsNumbered, OneConfEach

LEMMA SysopNumbered ==
  ASSUME Numbered, TypeInv, RowsNumbered, Sysop
  PROVE  RowsNumbered'
<1>1. CASE \E n \in Nodes, a \in Areas : Subscribe(n, a)
  <2>1. PICK n \in Nodes, a \in Areas : Subscribe(n, a)
    BY <1>1
  <2>2. /\ \A i \in DOMAIN rows : i \in DOMAIN rows' /\ rows'[i] = rows[i]
        /\ \A i \in DOMAIN rows' \ DOMAIN rows :
             /\ rows'[i].node = n /\ rows'[i].area = a
             /\ rows'[i].conf = ConfFor(n, a)
             /\ DOMAIN rows' = DOMAIN rows \union {i}
    BY <2>1, SubscribeType
  <2>3. ConfFor(n, a) = TagNumber[a]
    BY DEF Numbered, ConfFor
  <2>4. \A i \in DOMAIN rows : rows[i].node = n => rows[i].area # a
    BY <2>1 DEF Subscribe, RowsOf
  <2> QED
    <3>1. \A i \in DOMAIN rows' : \/ i \in DOMAIN rows /\ rows'[i] = rows[i]
                                  \/ /\ i \notin DOMAIN rows
                                     /\ rows'[i].node = n /\ rows'[i].area = a
                                     /\ rows'[i].conf = TagNumber[a]
                                     /\ DOMAIN rows' = DOMAIN rows \union {i}
      BY <2>2, <2>3
    <3>2. \A i \in DOMAIN rows' : rows'[i].conf = TagNumber[rows'[i].area]
      BY <3>1 DEF RowsNumbered
    <3>3. \A i, j \in DOMAIN rows' :
            (rows'[i].node = rows'[j].node /\ rows'[i].area = rows'[j].area) => i = j
      <4> TAKE i, j \in DOMAIN rows'
      <4>1. CASE i \in DOMAIN rows /\ j \in DOMAIN rows
        BY <2>2, <4>1 DEF RowsNumbered
      <4>2. CASE i \notin DOMAIN rows /\ j \in DOMAIN rows
        BY <2>2, <2>4, <4>2
      <4>3. CASE i \in DOMAIN rows /\ j \notin DOMAIN rows
        BY <2>2, <2>4, <4>3
      <4>4. CASE i \notin DOMAIN rows /\ j \notin DOMAIN rows
        BY <2>2, <4>4
      <4> QED
        BY <4>1, <4>2, <4>3, <4>4
    <3> QED
      BY <3>2, <3>3 DEF RowsNumbered
<1>2. CASE \/ \E i \in RowIds : Unsubscribe(i) \/ ResetMark(i)
           \/ \E a \in Areas : SwitchArea(a)
           \/ \E m \in Ids : Delete(m)
  <2>1. Trimmed
    BY <1>2, TrimType
  <2> QED
    BY <2>1 DEF Trimmed, RowsNumbered
<1> QED
  BY <1>1, <1>2 DEF Sysop

(* What a node has, or what is lost to it, or on its way.                   *)
Reached ==
  {p \in Nodes \X Ids : p \in received \union lost \/ OnItsWay(p[1], p[2])}

(* Nothing that is delivered or on its way is taken back.                   *)
Keeps == Reached \subseteq Reached'

(* What lies under a mark a request is going to write is delivered, or in    *)
(* the packet of that request.                                              *)
Pending ==
  \A w \in Workers : \A k \in work[w].marks : \A m \in DOMAIN messages :
    (messages[m].area = k.area /\ m <= k.upto) =>
       \/ <<work[w].node, messages[m].serial>> \in Reached
       \/ w \in Requests /\ messages[m].serial \in work[w].packet

DeliverInv == MarkInv /\ RowsNumbered /\ MarkedIsDelivered /\ Pending

LEMMA KeepsOnTheWay ==
  ASSUME received \subseteq received', lost \subseteq lost', file' = file,
         \A w \in Requests : work[w].pc = "answer" => work'[w] = work[w]
  PROVE  Keeps
<1>1. ASSUME NEW n \in Nodes, NEW s \in Ids, <<n, s>> \in Reached PROVE <<n, s>> \in Reached'
  BY <1>1 DEF Reached, OnItsWay
<1> QED
  BY <1>1 DEF Keeps, Reached

LEMMA KeepsAnswer ==
  ASSUME TypeInv, NEW w \in Requests, HttpAnswered(w) \/ HttpLost(w)
  PROVE  Keeps
<1>1. \A v \in Workers \ {w} : work'[v] = work[v]
  BY FinishType DEF Quiet, Workers
<1>2. file' = file /\ received \subseteq received' /\ lost \subseteq lost'
  BY DEF HttpAnswered, HttpLost
<1>3. work[w].pc = "answer" =>
        {work[w].node} \X work[w].packet \subseteq received' \union lost'
  BY DEF HttpAnswered, HttpLost
<1>4. ASSUME NEW n \in Nodes, NEW s \in Ids, <<n, s>> \in Reached PROVE <<n, s>> \in Reached'
  <2>1. CASE <<n, s>> \in received \union lost \/ s \in file[n]
    BY <1>2, <2>1 DEF Reached, OnItsWay
  <2>2. CASE \E v \in Requests : work[v].pc = "answer" /\ work[v].node = n /\ s \in work[v].packet
    <3>1. PICK v \in Requests : work[v].pc = "answer" /\ work[v].node = n /\ s \in work[v].packet
      BY <2>2
    <3>2. CASE v = w
      BY <1>3, <3>1, <3>2 DEF Reached
    <3>3. CASE v # w
      BY <1>1, <3>1, <3>3 DEF Reached, OnItsWay, Workers
    <3> QED
      BY <3>2, <3>3
  <2> QED
    BY <1>4, <2>1, <2>2 DEF Reached, OnItsWay
<1> QED
  BY <1>4 DEF Keeps, Reached

LEMMA KeepsFile ==
  ASSUME TypeInv, NEW k \in Nodes, FtpBuild(k)
  PROVE  Keeps
<1>1. \A v \in Workers \ {Ftp} : work'[v] = work[v]
  BY BuildType DEF Holds, Workers
<1>2. /\ \A n \in Nodes \ {k} : file'[n] = file[n]
      /\ lost' = lost \union (({k} \X file[k]) \ received)
      /\ UNCHANGED received
  BY DEF FtpBuild, TypeInv, TypeOK
<1>3. \A v \in Requests : work'[v] = work[v]
  BY <1>1, QwkNames DEF Workers
<1>4. ASSUME NEW n \in Nodes, NEW s \in Ids, <<n, s>> \in Reached PROVE <<n, s>> \in Reached'
  <2>1. CASE <<n, s>> \in received \union lost
    BY <1>2, <2>1 DEF Reached
  <2>2. CASE s \in file[n]
    <3>1. n = k => <<n, s>> \in {k} \X file[k]
      BY <2>2
    <3>2. n = k => <<n, s>> \in received' \union lost'
      BY <1>2, <3>1
    <3>3. n # k => s \in file'[n]
      BY <1>2, <2>2
    <3> QED
      BY <3>2, <3>3 DEF Reached, OnItsWay
  <2>3. CASE \E v \in Requests : work[v].pc = "answer" /\ work[v].node = n /\ s \in work[v].packet
    BY <1>3, <2>3 DEF Reached, OnItsWay
  <2> QED
    BY <1>4, <2>1, <2>2, <2>3 DEF Reached, OnItsWay
<1> QED
  BY <1>4 DEF Keeps, Reached

(* Messages keep their areas and serials, and new ones lie above all marks.  *)
LEMMA GrowDeliver ==
  ASSUME TypeInv, TypeInv', DeliverInv, Grow, Keeps, UNCHANGED rows,
         \A w \in Workers : work'[w] = work[w] \/ work'[w].marks = {}
  PROVE  MarkedIsDelivered' /\ Pending'
<1>1. /\ \A i \in DOMAIN rows : rows[i].mark \in Nat /\ rows[i].node \in Nodes
      /\ \A m \in DOMAIN messages' : m \in Nat \ {0}
      /\ \A m \in DOMAIN messages : m \in Nat
      /\ \A m \in DOMAIN messages : messages[m].serial \in Ids
  <2>1. \A m \in DOMAIN messages : messages[m].serial \in Ids
    BY Types DEF TypeInv, Message
  <2> QED
    BY <2>1, Types, QwkBounds DEF TypeInv, TypeOK, Subscription, Marks, Ids
<1>2. \A w \in Workers : work[w].node \in Nodes
  BY DEF TypeInv, TypeOK, Work
<1>3. MarkedIsDelivered'
  <2> SUFFICES ASSUME NEW i \in DOMAIN rows, NEW m \in DOMAIN messages',
                      messages'[m].area = rows[i].area, m <= rows[i].mark
               PROVE  <<rows[i].node, messages'[m].serial>> \in Reached'
    BY DEF MarkedIsDelivered, Reached
  <2>1. rows[i].mark # 0
    BY <1>1
  <2>2. rows[i].mark \in DOMAIN messages
    BY <2>1 DEF DeliverInv, MarkInv, MarkIsStored
  <2>3. m \in DOMAIN messages
    BY <1>1, <2>2 DEF Grow
  <2>4. messages'[m] = messages[m]
    BY <2>3 DEF Grow
  <2>5. <<rows[i].node, messages[m].serial>> \in Reached
    BY <1>1, <2>3, <2>4 DEF DeliverInv, MarkedIsDelivered, Reached
  <2> QED
    BY <1>1, <2>4, <2>5 DEF Keeps
<1>4. Pending'
  <2> SUFFICES ASSUME NEW w \in Workers, NEW k \in work'[w].marks, NEW m \in DOMAIN messages',
                      messages'[m].area = k.area, m <= k.upto
               PROVE  \/ <<work'[w].node, messages'[m].serial>> \in Reached'
                      \/ w \in Requests /\ messages'[m].serial \in work'[w].packet
    BY DEF Pending
  <2>1. work'[w] = work[w] /\ k \in work[w].marks
    OBVIOUS
  <2>2. k.upto \in DOMAIN messages
    BY <2>1 DEF DeliverInv, MarkInv
  <2>3. m \in DOMAIN messages
    BY <1>1, <2>2 DEF Grow
  <2>4. messages'[m] = messages[m]
    BY <2>3 DEF Grow
  <2>5. \/ <<work[w].node, messages[m].serial>> \in Reached
        \/ w \in Requests /\ messages[m].serial \in work[w].packet
    BY <2>1, <2>3, <2>4 DEF DeliverInv, Pending
  <2> QED
    BY <1>2, <2>1, <2>4, <2>5 DEF Keeps
<1> QED
  BY <1>3, <1>4

LEMMA QuietGrows ==
  ASSUME NEW w \in Workers, Quiet(w)
  PROVE  /\ Grow /\ UNCHANGED rows
         /\ \A v \in Workers : work'[v] = work[v] \/ work'[v].marks = {}
  BY DEF Quiet, Grow

LEMMA BuildDeliver ==
  ASSUME TypeInv, DeliverInv, NEW w \in Workers, NEW n \in Nodes, Keeps,
         Holds(w, n), Covers(w), UNCHANGED <<messages, rows>>,
         w = Ftp => file'[n] = work'[Ftp].packet
  PROVE  MarkedIsDelivered' /\ Pending'
<1>1. /\ \A i \in DOMAIN rows : rows[i].node \in Nodes
      /\ \A m \in DOMAIN messages : messages[m].serial \in Ids
  BY Types DEF TypeInv, Subscription, Message
<1>2. \A v \in Workers : work[v].node \in Nodes
  BY DEF TypeInv, TypeOK, Work
<1>3. MarkedIsDelivered'
  <2> SUFFICES ASSUME NEW i \in DOMAIN rows, NEW m \in DOMAIN messages,
                      messages[m].area = rows[i].area, m <= rows[i].mark
               PROVE  <<rows[i].node, messages[m].serial>> \in Reached'
    BY DEF MarkedIsDelivered, Reached
  <2>1. <<rows[i].node, messages[m].serial>> \in Reached
    BY <1>1 DEF DeliverInv, MarkedIsDelivered, Reached
  <2> QED
    BY <1>1, <2>1 DEF Keeps
<1>4. Pending'
  <2> SUFFICES ASSUME NEW v \in Workers, NEW k \in work'[v].marks, NEW m \in DOMAIN messages,
                      messages[m].area = k.area, m <= k.upto
               PROVE  \/ <<work'[v].node, messages[m].serial>> \in Reached'
                      \/ v \in Requests /\ messages[m].serial \in work'[v].packet
    BY DEF Pending
  <2>1. CASE v # w
    <3>1. work'[v] = work[v]
      BY <2>1 DEF Holds
    <3>2. \/ <<work[v].node, messages[m].serial>> \in Reached
          \/ v \in Requests /\ messages[m].serial \in work[v].packet
      BY <3>1 DEF DeliverInv, Pending
    <3> QED
      BY <1>2, <3>1, <3>2 DEF Keeps
  <2>2. CASE v = w
    <3>1. /\ k.row \in DOMAIN rows /\ rows[k.row].node = n /\ rows[k.row].area = k.area
          /\ work'[v].node = n
      BY <2>2 DEF Holds
    <3>2. CASE m <= rows[k.row].mark
      <4>1. <<n, messages[m].serial>> \in Reached
        BY <1>1, <3>1, <3>2 DEF DeliverInv, MarkedIsDelivered, Reached
      <4> QED
        BY <3>1, <4>1 DEF Keeps
    <3>3. CASE ~ (m <= rows[k.row].mark)
      <4>1. messages[m].serial \in work'[w].packet
        BY <2>2, <3>3 DEF Covers
      <4>2. w = Ftp => <<n, messages[m].serial>> \in Reached'
        BY <1>1, <4>1 DEF Reached, OnItsWay
      <4> QED
        BY <2>2, <3>1, <4>1, <4>2 DEF Workers
    <3> QED
      BY <3>2, <3>3
  <2> QED
    BY <2>1, <2>2
<1> QED
  BY <1>3, <1>4

(* The marks a request writes are over what its packet brings.              *)
LEMMA MarkedDeliver ==
  ASSUME TypeInv, DeliverInv, NEW w \in Workers, Marked(w), Keeps, UNCHANGED messages,
         work'[w].marks = {}, \A v \in Workers \ {w} : work'[v] = work[v],
         w \in Requests => /\ work'[w].pc = "answer"
                           /\ work'[w].node = work[w].node /\ work'[w].packet = work[w].packet
  PROVE  MarkedIsDelivered' /\ Pending'
<1>1. /\ \A i \in DOMAIN rows : rows[i].node \in Nodes
      /\ \A m \in DOMAIN messages : messages[m].serial \in Ids
  BY Types DEF TypeInv, Subscription, Message
<1>2. \A v \in Workers : work[v].node \in Nodes
  BY DEF TypeInv, TypeOK, Work
<1>3. MarkedIsDelivered'
  <2> SUFFICES ASSUME NEW i \in DOMAIN rows, NEW m \in DOMAIN messages,
                      messages[m].area = rows[i].area, m <= rows'[i].mark
               PROVE  <<rows[i].node, messages[m].serial>> \in Reached'
    BY DEF MarkedIsDelivered, Reached, Marked
  <2>1. CASE rows'[i].mark = rows[i].mark
    <3>1. <<rows[i].node, messages[m].serial>> \in Reached
      BY <1>1, <2>1 DEF DeliverInv, MarkedIsDelivered, Reached
    <3> QED
      BY <1>1, <3>1 DEF Keeps
  <2>2. ASSUME NEW k \in work[w].marks, rows'[i].mark = k.upto,
               \/ w \in Requests /\ rows[i].node = work[w].node /\ rows[i].area = k.area
               \/ w = Ftp /\ k.row = i
        PROVE  <<rows[i].node, messages[m].serial>> \in Reached'
    <3>1. rows[i].node = work[w].node /\ rows[i].area = k.area
      BY <2>2 DEF DeliverInv, MarkInv
    <3>2. \/ <<work[w].node, messages[m].serial>> \in Reached
          \/ w \in Requests /\ messages[m].serial \in work[w].packet
      BY <2>2, <3>1 DEF DeliverInv, Pending
    <3>3. CASE <<work[w].node, messages[m].serial>> \in Reached
      BY <3>1, <3>3 DEF Keeps
    <3>4. CASE w \in Requests /\ messages[m].serial \in work[w].packet
      BY <1>1, <3>1, <3>4 DEF Reached, OnItsWay
    <3> QED
      BY <3>2, <3>3, <3>4
  <2> QED
    BY <2>1, <2>2 DEF Marked
<1>4. Pending'
  <2> SUFFICES ASSUME NEW v \in Workers, NEW k \in work'[v].marks, NEW m \in DOMAIN messages,
                      messages[m].area = k.area, m <= k.upto
               PROVE  \/ <<work'[v].node, messages[m].serial>> \in Reached'
                      \/ v \in Requests /\ messages[m].serial \in work'[v].packet
    BY DEF Pending
  <2>1. work'[v] = work[v]
    OBVIOUS
  <2>2. \/ <<work[v].node, messages[m].serial>> \in Reached
        \/ v \in Requests /\ messages[m].serial \in work[v].packet
    BY <2>1 DEF DeliverInv, Pending
  <2> QED
    BY <1>2, <2>1, <2>2 DEF Keeps
<1> QED
  BY <1>3, <1>4

(* The sysop takes marks and messages away, and finds no request at work.   *)
LEMMA SysopDeliver ==
  ASSUME ~ EditsDuringDownload, TypeInv, DeliverInv, Sysop
  PROVE  MarkedIsDelivered' /\ Pending'
<1>1. Edit /\ UNCHANGED <<work, file, received, lost>>
  BY TrimType DEF Sysop, Subscribe, historyVars
<1>2. \A w \in Workers : work'[w].marks = {}
  BY <1>1, EditMarks DEF DeliverInv
<1>3. Pending'
  BY <1>2 DEF Pending
<1>4. /\ \A i \in DOMAIN rows : rows[i].node \in Nodes /\ rows[i].mark \in Nat
      /\ \A m \in DOMAIN messages : messages[m].serial \in Ids /\ m \in Nat \ {0}
  BY Types, QwkBounds DEF TypeInv, Subscription, Message, Ids, Marks
<1>5. Keeps
  BY <1>1, KeepsOnTheWay, Zenon DEF Workers
<1>6. CASE \E n \in Nodes, a \in Areas : Subscribe(n, a)
  <2>1. PICK n \in Nodes, a \in Areas : Subscribe(n, a)
    BY <1>6
  <2>2. /\ \A i \in DOMAIN rows : i \in DOMAIN rows' /\ rows'[i] = rows[i]
        /\ \A i \in DOMAIN rows' \ DOMAIN rows : rows'[i].mark = 0
    BY <2>1, SubscribeType
  <2>3. UNCHANGED messages
    BY <2>1 DEF Subscribe
  <2>4. ASSUME NEW i \in DOMAIN rows', NEW m \in DOMAIN messages,
               messages[m].area = rows'[i].area, m <= rows'[i].mark
        PROVE  <<rows'[i].node, messages[m].serial>> \in Reached'
    <3>1. i \in DOMAIN rows /\ rows'[i] = rows[i]
      BY <1>4, <2>2, <2>4
    <3>2. <<rows[i].node, messages[m].serial>> \in Reached
      BY <1>4, <2>4, <3>1 DEF DeliverInv, MarkedIsDelivered, Reached
    <3> QED
      BY <1>5, <3>1, <3>2 DEF Keeps
  <2>5. MarkedIsDelivered'
    BY <2>3, <2>4 DEF MarkedIsDelivered, Reached
  <2> QED
    BY <1>3, <2>5
<1>7. CASE \/ \E i \in RowIds : Unsubscribe(i) \/ ResetMark(i)
           \/ \E a \in Areas : SwitchArea(a)
           \/ \E m \in Ids : Delete(m)
  <2>1. Trimmed
    BY <1>7, TrimType
  <2>2. ASSUME NEW i \in DOMAIN rows', NEW m \in DOMAIN messages',
               messages'[m].area = rows'[i].area, m <= rows'[i].mark
        PROVE  <<rows'[i].node, messages'[m].serial>> \in Reached'
    <3>1. /\ i \in DOMAIN rows /\ m \in DOMAIN messages /\ messages'[m] = messages[m]
          /\ rows'[i].node = rows[i].node /\ rows'[i].area = rows[i].area
          /\ rows'[i].mark = 0 \/ rows'[i].mark = rows[i].mark
      BY <2>1 DEF Trimmed
    <3>2. rows'[i].mark = rows[i].mark
      BY <1>4, <2>2, <3>1
    <3>3. <<rows[i].node, messages[m].serial>> \in Reached
      BY <1>4, <2>2, <3>1, <3>2 DEF DeliverInv, MarkedIsDelivered, Reached
    <3> QED
      BY <1>5, <3>1, <3>3 DEF Keeps
  <2>3. MarkedIsDelivered'
    BY <2>2 DEF MarkedIsDelivered, Reached
  <2> QED
    BY <1>3, <2>3
<1> QED
  BY <1>6, <1>7 DEF Sysop

(* Only the sysop makes subscriptions.                                      *)
LEMMA MarkedNumbered ==
  ASSUME RowsNumbered, NEW w \in Workers, Marked(w)
  PROVE  RowsNumbered'
  BY DEF RowsNumbered, Marked

(* A step that finishes or starts an upload hides nothing.                  *)
LEMMA QuietDeliver ==
  ASSUME TypeInv, TypeInv', DeliverInv, NEW w \in Workers, Quiet(w), Keeps
  PROVE  RowsNumbered' /\ MarkedIsDelivered' /\ Pending'
<1>1. MarkedIsDelivered' /\ Pending'
  BY QuietGrows, GrowDeliver
<1>2. RowsNumbered'
  BY DEF DeliverInv, RowsNumbered, Quiet
<1> QED
  BY <1>1, <1>2

LEMMA QuietKeeps ==
  ASSUME NEW w \in Workers, Quiet(w), w \in Requests => work[w].pc # "answer",
         received \subseteq received', lost \subseteq lost', file' = file
  PROVE  Keeps
<1>1. \A v \in Requests : work[v].pc = "answer" => work'[v] = work[v]
  BY DEF Quiet, Workers
<1> QED
  BY <1>1, KeepsOnTheWay

LEMMA DownloadDeliver ==
  ASSUME Numbered, TypeInv, TypeInv', DeliverInv, NEW w \in Requests, Download(w)
  PROVE  RowsNumbered' /\ MarkedIsDelivered' /\ Pending'
<1>0. w \in Workers /\ Requests \subseteq Workers /\ w # Ftp
  BY QwkNames DEF Workers
<1> DEFINE Goal == RowsNumbered' /\ MarkedIsDelivered' /\ Pending'
<1>1. ASSUME NEW n \in Nodes, HttpBuild(w, n) PROVE Goal
  <2>1. Holds(w, n) /\ Covers(w)
    BY <1>0, <1>1, HttpBuildFacts DEF TypeInv
  <2>2. UNCHANGED <<messages, rows, file, received, lost>> /\ work[w].pc = "idle"
    BY <1>1 DEF HttpBuild
  <2>3. \A v \in Requests : work[v].pc = "answer" => work'[v] = work[v]
    BY <1>0, <2>1, <2>2 DEF Holds
  <2>4. Keeps
    BY <2>2, <2>3, KeepsOnTheWay
  <2>5. MarkedIsDelivered' /\ Pending'
    BY <1>0, <2>1, <2>2, <2>4, BuildDeliver
  <2> QED
    BY <2>2, <2>5 DEF DeliverInv, RowsNumbered
<1>2. ASSUME HttpMark(w) PROVE Goal
  <2>1. /\ Marked(w) /\ work[w] \in Work
        /\ work'[w] = [work[w] EXCEPT !.pc = "answer", !.marks = {}]
        /\ \A v \in Workers \ {w} : work'[v] = work[v]
    BY <1>0, <1>2, HttpMarkType DEF TypeInv, TypeOK
  <2>2. /\ work'[w].pc = "answer" /\ work'[w].marks = {}
        /\ work'[w].node = work[w].node /\ work'[w].packet = work[w].packet
    BY <2>1 DEF Work
  <2>3. UNCHANGED <<messages, file, received, lost>> /\ work[w].pc = "built"
    BY <1>2 DEF HttpMark, historyVars
  <2>4. \A v \in Requests : work[v].pc = "answer" => work'[v] = work[v]
    BY <1>0, <2>1, <2>3
  <2>5. Keeps
    BY <2>3, <2>4, KeepsOnTheWay
  <2> QED
    BY <1>0, <2>1, <2>2, <2>3, <2>5, MarkedDeliver, MarkedNumbered DEF DeliverInv
<1>3. ASSUME HttpAnswered(w) \/ HttpLost(w) PROVE Goal
  <2>1. Quiet(w) /\ Keeps
    BY <1>0, <1>3, FinishType, KeepsAnswer
  <2> QED
    BY <1>0, <2>1, QuietDeliver
<1> QED
  BY <1>1, <1>2, <1>3 DEF Download

LEMMA LoginDeliver ==
  ASSUME Numbered, TypeInv, TypeInv', DeliverInv, Login
  PROVE  RowsNumbered' /\ MarkedIsDelivered' /\ Pending'
<1>0. Ftp \in Workers /\ Ftp \notin Requests
  BY QwkNames DEF Workers
<1> DEFINE Goal == RowsNumbered' /\ MarkedIsDelivered' /\ Pending'
<1>1. ASSUME NEW n \in Nodes, FtpBuild(n) PROVE Goal
  <2>1. Holds(Ftp, n) /\ file' = [file EXCEPT ![n] = work'[Ftp].packet]
    BY <1>1, FtpBuildFacts DEF TypeInv
  <2>2. Covers(Ftp)
    BY <1>1, FtpBuildFacts, NumberedOnce DEF DeliverInv, TypeInv
  <2>3. UNCHANGED <<messages, rows>> /\ file'[n] = work'[Ftp].packet
    BY <1>1, <2>1 DEF FtpBuild, TypeInv, TypeOK
  <2>4. Keeps
    BY <1>1, KeepsFile
  <2>5. MarkedIsDelivered' /\ Pending'
    BY <1>0, <2>1, <2>2, <2>3, <2>4, BuildDeliver
  <2> QED
    BY <2>3, <2>5 DEF DeliverInv, RowsNumbered
<1>2. ASSUME NEW n \in Nodes, FtpFetch(n) PROVE Goal
  <2>1. /\ UNCHANGED <<messages, rows, work, file, lost>> /\ received \subseteq received'
    BY <1>2 DEF FtpFetch
  <2>2. Keeps
    BY <2>1, KeepsOnTheWay
  <2>3. Grow /\ \A v \in Workers : work'[v] = work[v] \/ work'[v].marks = {}
    BY <2>1 DEF Grow
  <2>4. MarkedIsDelivered' /\ Pending'
    BY <2>1, <2>2, <2>3, GrowDeliver
  <2> QED
    BY <2>1, <2>4 DEF DeliverInv, RowsNumbered
<1>3. ASSUME FtpMark PROVE Goal
  <2>1. /\ Marked(Ftp) /\ work'[Ftp].marks = {}
        /\ \A v \in Workers \ {Ftp} : work'[v] = work[v]
    BY <1>3, FtpMarkType
  <2>2. UNCHANGED <<messages, file, received, lost>>
    BY <1>3 DEF FtpMark, historyVars
  <2>3. \A v \in Requests : work[v].pc = "answer" => work'[v] = work[v]
    BY <1>0, <2>1 DEF Workers
  <2>4. Keeps
    BY <2>2, <2>3, KeepsOnTheWay
  <2> QED
    BY <1>0, <2>1, <2>2, <2>4, MarkedDeliver, MarkedNumbered DEF DeliverInv
<1>4. ASSUME FtpMarkFails PROVE Goal
  <2>1. Quiet(Ftp)
    BY <1>0, <1>4, FinishType
  <2>2. UNCHANGED <<file, received, lost>>
    BY <1>4 DEF FtpMarkFails, historyVars
  <2>3. Keeps
    BY <1>0, <2>1, <2>2, QuietKeeps
  <2> QED
    BY <1>0, <2>1, <2>3, QuietDeliver
<1> QED
  BY <1>1, <1>2, <1>3, <1>4 DEF Login

LEMMA UploadDeliver ==
  ASSUME TypeInv, TypeInv', DeliverInv, NEW w \in Workers,
         Upload(w) \/ (w = Ftp /\ (FtpToss \/ FtpTossFails))
  PROVE  RowsNumbered' /\ MarkedIsDelivered' /\ Pending'
<1> DEFINE Goal == RowsNumbered' /\ MarkedIsDelivered' /\ Pending'
<1>0. Ftp \notin Requests
  BY QwkNames
<1>1. ASSUME NEW n \in Nodes, NEW rep \in Reps, RepRead(w, n, rep) PROVE Goal
  <2>1. Quiet(w) /\ work[w].pc = "idle" /\ UNCHANGED <<file, received, lost>>
    BY <1>1, RepReadType
  <2>2. Keeps
    BY <2>1, QuietKeeps
  <2> QED
    BY <2>1, <2>2, QuietDeliver
<1>2. ASSUME RepStore(w) PROVE Goal
  <2>1. /\ Grow /\ work'[w].marks = {} /\ \A v \in Workers \ {w} : work'[v] = work[v]
    BY <1>2, RepStoreType DEF Grow
  <2>2. UNCHANGED <<rows, file, received, lost>> /\ work[w].pc = "read"
    BY <1>2 DEF RepStore
  <2>3. \A v \in Requests : work[v].pc = "answer" => work'[v] = work[v]
    BY <2>1, <2>2 DEF Workers
  <2>4. Keeps
    BY <2>2, <2>3, KeepsOnTheWay
  <2>5. MarkedIsDelivered' /\ Pending'
    BY <2>1, <2>2, <2>4, GrowDeliver
  <2> QED
    BY <2>2, <2>5 DEF DeliverInv, RowsNumbered
<1>3. ASSUME HttpToss(w) PROVE Goal
  <2>1. Quiet(w)
    BY <1>3, FinishType DEF HttpToss
  <2>2. work[w].pc = "stored" /\ UNCHANGED <<file, received, lost>>
    BY <1>3 DEF HttpToss, historyVars
  <2>3. Keeps
    BY <2>1, <2>2, QuietKeeps
  <2> QED
    BY <2>1, <2>3, QuietDeliver
<1>4. ASSUME w = Ftp, FtpToss \/ FtpTossFails PROVE Goal
  <2>1. Quiet(w)
    BY <1>4, FinishType
  <2>2. UNCHANGED <<file, received, lost>>
    BY <1>4 DEF FtpToss, FtpTossFails
  <2>3. Keeps
    BY <1>0, <1>4, <2>1, <2>2, QuietKeeps
  <2> QED
    BY <2>1, <2>3, QuietDeliver
<1> QED
  BY <1>1, <1>2, <1>3, <1>4 DEF Upload

LEMMA NextDeliver ==
  (~ EditsDuringDownload /\ Numbered) =>
     (TypeInv /\ TypeInv' /\ DeliverInv /\ [Next]_vars => DeliverInv')
<1> SUFFICES ASSUME ~ EditsDuringDownload, Numbered, TypeInv, TypeInv', DeliverInv, [Next]_vars
             PROVE  DeliverInv'
  OBVIOUS
<1> DEFINE Goal == RowsNumbered' /\ MarkedIsDelivered' /\ Pending'
<1>0. Ftp \in Workers
  BY DEF Workers
<1>1. ASSUME UNCHANGED vars PROVE Goal
  <2>1. Grow /\ UNCHANGED <<rows, work>>
    BY <1>1 DEF vars, Grow
  <2>2. Keeps
    BY <1>1, KeepsOnTheWay DEF vars, historyVars
  <2>3. MarkedIsDelivered' /\ Pending'
    BY <2>1, <2>2, GrowDeliver
  <2> QED
    BY <2>1, <2>3 DEF DeliverInv, RowsNumbered
<1>2. ASSUME NEW a \in Areas, Post(a) PROVE Goal
  <2>1. Grow
    BY <1>2, PostType DEF Grow
  <2>2. UNCHANGED <<rows, work, file, received, lost>>
    BY <1>2 DEF Post
  <2>3. Keeps
    BY <2>2, KeepsOnTheWay
  <2>4. MarkedIsDelivered' /\ Pending'
    BY <2>1, <2>2, <2>3, GrowDeliver
  <2> QED
    BY <2>2, <2>4 DEF DeliverInv, RowsNumbered
<1>3. ASSUME NEW w \in Requests, Download(w) PROVE Goal
  BY <1>3, DownloadDeliver
<1>4. ASSUME Login PROVE Goal
  BY <1>4, LoginDeliver
<1>5. ASSUME NEW w \in Workers, Upload(w) PROVE Goal
  BY <1>5, UploadDeliver
<1>6. ASSUME FtpToss \/ FtpTossFails PROVE Goal
  BY <1>0, <1>6, UploadDeliver
<1>7. ASSUME Sysop PROVE Goal
  BY <1>7, SysopDeliver, SysopNumbered DEF DeliverInv
<1>8. Goal
  BY <1>1, <1>2, <1>3, <1>4, <1>5, <1>6, <1>7 DEF Next
<1> QED
  BY <1>8, NextMarks DEF DeliverInv

LEMMA InitDeliver == Numbered /\ Init => DeliverInv
<1> SUFFICES ASSUME Numbered, Init PROVE DeliverInv
  OBVIOUS
<1>1. rows = StartRows /\ DOMAIN messages = {}
  BY EmptySeq, LenProperties DEF Init
<1>2. \A w \in Workers : work[w].marks = {}
  BY DEF Init, Idle
<1>3. RowsNumbered
  BY <1>1 DEF Numbered, RowsNumbered
<1> QED
  BY <1>1, <1>2, <1>3, InitMarks DEF DeliverInv, MarkedIsDelivered, Pending

(* Where the tags of the areas spell different numbers and the sysop stays   *)
(* out of the halves of a download, no mark hides mail from a node that was  *)
(* not in a packet the node has, or is sent, or lost on the way              *)
(* (_build_qwk_hub_packet, generate_node_packet and their marks).           *)
THEOREM MarkedSafe ==
  (~ EditsDuringDownload /\ Numbered) => (Spec => []MarkedIsDelivered)
<1> SUFFICES ASSUME ~ EditsDuringDownload, Numbered PROVE Spec => []MarkedIsDelivered
  OBVIOUS
<1>1. TypeInv /\ TypeInv' /\ DeliverInv /\ [Next]_vars => DeliverInv'
  BY NextDeliver
<1>2. DeliverInv => MarkedIsDelivered
  BY DEF DeliverInv
<1>3. Init => DeliverInv
  BY InitDeliver
<1> QED
  BY <1>1, <1>2, <1>3, TypeHolds, PTL DEF Spec
-----------------------------------------------------------------------------
(* Nothing is stored twice                                                  *)

(* What the first message of an open upload was found to be still holds, as  *)
(* long as there is one upload: others store no message of its MSGID.       *)
LookupHolds ==
  /\ \A v, w \in Workers : work[v].pc = "read" /\ work[w].pc = "read" => v = w
  /\ \A w \in Workers : work[w].pc = "read" /\ ~ work[w].known =>
       \A i \in DOMAIN work[w].rep :
         IsFirst(i, work[w].rep) => ~ Stored(work[w].rep[i].area, work[w].rep[i].key)

OnceInv == StoredOnce /\ LookupHolds

(* An upload stores the messages it keeps, each at an id of its own.        *)
LEMMA RepStorePlaces ==
  ASSUME TypeInv, NEW w \in Workers, RepStore(w)
  PROVE  \E at : \A m \in DOMAIN messages' \ DOMAIN messages :
           /\ at[m] \in Kept(work[w].rep, work[w].known)
           /\ messages'[m].area = work[w].rep[at[m]].area
           /\ messages'[m].key = work[w].rep[at[m]].key
           /\ \A k \in DOMAIN messages' \ DOMAIN messages : at[m] = at[k] => m = k
<1> DEFINE D == DOMAIN messages
           rep == work[w].rep
           kept == Kept(rep, work[w].known)
           rank(i) == Cardinality({j \in kept : j < i})
           first == NextId(D)
           place(m) == CHOOSE j \in kept : first + rank(j) = m
           ids == {first + rank(i) : i \in kept}
           new == [m \in ids |->
                     [area |-> rep[place(m)].area, key |-> rep[place(m)].key,
                      serial |-> serials + 1 + rank(place(m))]]
           at == [m \in ids |-> place(m)]
<1>1. messages' = [m \in D \union DOMAIN new |->
                     IF m \in DOMAIN new THEN new[m] ELSE messages[m]]
  BY DEF RepStore
<1> HIDE DEF rank, first, kept
<1>2. \A m \in ids : place(m) \in kept /\ first + rank(place(m)) = m
  OBVIOUS
<1>3. ASSUME NEW m \in DOMAIN messages' \ DOMAIN messages
      PROVE  /\ m \in ids
             /\ messages'[m].area = rep[place(m)].area /\ messages'[m].key = rep[place(m)].key
  BY <1>1
<1> HIDE DEF place
<1>4. \A m \in ids, k \in ids : place(m) = place(k) => m = k
  BY <1>2
<1>5. \A m \in ids : at[m] = place(m)
  OBVIOUS
<1> HIDE DEF ids, at, new
<1>6. ASSUME NEW m \in DOMAIN messages' \ DOMAIN messages
      PROVE  /\ at[m] \in kept
             /\ messages'[m].area = rep[at[m]].area /\ messages'[m].key = rep[at[m]].key
             /\ \A k \in DOMAIN messages' \ DOMAIN messages : at[m] = at[k] => m = k
  BY <1>2, <1>3, <1>4, <1>5
<1> QED
  BY <1>6 DEF kept

(* Of the messages an upload keeps, none is stored, and no two are one.     *)
LEMMA KeptOnce ==
  ASSUME TypeInv, LookupHolds, NEW w \in Workers, work[w].pc = "read",
         NEW i \in Kept(work[w].rep, work[w].known)
  PROVE  /\ i \in DOMAIN work[w].rep
         /\ ~ Stored(work[w].rep[i].area, work[w].rep[i].key)
         /\ \A j \in Kept(work[w].rep, work[w].known) :
              work[w].rep[j].area = work[w].rep[i].area /\ work[w].rep[j].key = work[w].rep[i].key
                => i = j
<1> DEFINE rep == work[w].rep
<1>1. /\ DOMAIN rep \subseteq Nat
      /\ \A j \in DOMAIN rep : rep[j] \in [area : Areas, key : Keys]
  <2>1. Ids \subseteq Nat
    BY DEF Ids
  <2>2. work[w] \in Work
    BY DEF TypeInv, TypeOK
  <2>3. PICK S \in SUBSET Ids : rep \in [S -> [area : Areas, key : Keys]]
    BY <2>2 DEF Work
  <2> QED
    BY <2>1, <2>3
<1>2. i \in DOMAIN rep /\ ~ Stored(rep[i].area, rep[i].key)
  BY DEF Kept, LookupHolds
<1>3. ASSUME NEW j \in Kept(rep, work[w].known), NEW k \in Kept(rep, work[w].known), j < k
      PROVE  rep[j] # rep[k]
  BY <1>1, <1>3 DEF Kept, IsFirst
<1>4. ASSUME NEW j \in Kept(rep, work[w].known),
             rep[j].area = rep[i].area, rep[j].key = rep[i].key
      PROVE  i = j
  <2>1. j \in DOMAIN rep
    BY DEF Kept
  <2>2. rep[i] = rep[j]
    BY <1>1, <1>2, <1>4, <2>1
  <2>3. i \in Nat /\ j \in Nat
    BY <1>1, <1>2, <2>1
  <2> QED
    BY <1>3, <2>2, <2>3
<1> QED
  BY <1>2, <1>4

LEMMA RepStoreOnce ==
  ASSUME TypeInv, OnceInv, NEW w \in Workers, RepStore(w)
  PROVE  OnceInv'
<1>1. /\ \A m \in DOMAIN messages : m \in DOMAIN messages' /\ messages'[m] = messages[m]
      /\ work'[w].pc = "stored" /\ \A v \in Workers \ {w} : work'[v] = work[v]
  BY RepStoreType
<1>2. work[w].pc = "read" /\ \A v \in Workers : work[v].pc = "read" => v = w
  BY DEF RepStore, OnceInv, LookupHolds
<1>3. LookupHolds'
  BY <1>1, <1>2 DEF LookupHolds
<1>4. PICK at : \A m \in DOMAIN messages' \ DOMAIN messages :
           /\ at[m] \in Kept(work[w].rep, work[w].known)
           /\ messages'[m].area = work[w].rep[at[m]].area
           /\ messages'[m].key = work[w].rep[at[m]].key
           /\ \A k \in DOMAIN messages' \ DOMAIN messages : at[m] = at[k] => m = k
  BY RepStorePlaces
<1>5. \A m \in DOMAIN messages', k \in DOMAIN messages' :
        (/\ messages'[m].key # Composed /\ messages'[m].key = messages'[k].key
         /\ messages'[m].area = messages'[k].area) => m = k
  <2>1. ASSUME NEW m \in DOMAIN messages' \ DOMAIN messages, NEW k \in DOMAIN messages
        PROVE  ~ (messages'[m].key = messages'[k].key /\ messages'[m].area = messages'[k].area)
    <3>1. ~ Stored(messages'[m].area, messages'[m].key)
      BY <1>2, <1>4, KeptOnce DEF OnceInv
    <3> QED
      BY <1>1, <3>1 DEF Stored
  <2>2. ASSUME NEW m \in DOMAIN messages' \ DOMAIN messages,
               NEW k \in DOMAIN messages' \ DOMAIN messages,
               messages'[m].key = messages'[k].key, messages'[m].area = messages'[k].area
        PROVE  m = k
    <3>1. at[m] = at[k]
      BY <1>2, <1>4, <2>2, KeptOnce DEF OnceInv
    <3> QED
      BY <1>4, <3>1
  <2>3. \A m \in DOMAIN messages, k \in DOMAIN messages :
          (/\ messages'[m].key # Composed /\ messages'[m].key = messages'[k].key
           /\ messages'[m].area = messages'[k].area) => m = k
    BY <1>1 DEF OnceInv, StoredOnce
  <2> QED
    BY <1>1, <2>1, <2>2, <2>3
<1> QED
  BY <1>3, <1>5 DEF OnceInv, StoredOnce

(* The lookup of a new upload, while no other is open.                      *)
LEMMA RepReadOnce ==
  ASSUME ~ OverlappingUploads, TypeInv, OnceInv,
         NEW w \in Workers, NEW n \in Nodes, NEW rep \in Reps, RepRead(w, n, rep)
  PROVE  OnceInv'
<1>1. Quiet(w) /\ work[w].pc = "idle"
  BY RepReadType
<1>2. \A v \in Workers \ {w} : work'[v].pc # "read"
  BY <1>1 DEF RepRead, Quiet
<1>3. \E area : LET todo == Addressed(rep, area)
                 IN \E i \in DOMAIN todo :
                      /\ IsFirst(i, todo)
                      /\ work' = [work EXCEPT ![w] = [Idle EXCEPT !.pc = "read", !.node = n,
                                                        !.rep = todo,
                                                        !.known = Stored(todo[i].area, todo[i].key)]]
  BY DEF RepRead
<1>4. PICK area, todo, i :
        /\ todo = Addressed(rep, area) /\ i \in DOMAIN todo /\ IsFirst(i, todo)
        /\ work'[w].rep = todo /\ work'[w].known = Stored(todo[i].area, todo[i].key)
  BY <1>3 DEF TypeInv, TypeOK, Idle
<1>5. \A j \in DOMAIN todo : IsFirst(j, todo) => j = i
  <2>1. DOMAIN rep \subseteq Nat
    BY QwkNames, LenProperties
  <2>2. DOMAIN todo \subseteq Nat
    BY <1>4, <2>1 DEF Addressed
  <2> QED
    BY <1>4, <2>2 DEF IsFirst
<1>6. UNCHANGED messages
  BY <1>1 DEF Quiet
<1>7. LookupHolds'
  BY <1>2, <1>4, <1>5, <1>6 DEF LookupHolds, Stored
<1> QED
  BY <1>6, <1>7 DEF OnceInv, StoredOnce

(* A message from elsewhere has none of the nodes' MSGIDs, and deleting one  *)
(* stores none.                                                             *)
NoneStored ==
  \A m \in DOMAIN messages' :
    \/ m \in DOMAIN messages /\ messages'[m] = messages[m]
    \/ messages'[m].key = Composed

LEMMA NoneStoredOnce ==
  ASSUME TypeInv, OnceInv, NoneStored,
         \A w \in Workers : work'[w] = work[w] \/ work'[w].pc # "read"
  PROVE  OnceInv'
<1>1. StoredOnce'
  BY DEF OnceInv, StoredOnce, NoneStored
<1>2. ASSUME NEW w \in Workers, work'[w].pc = "read", ~ work'[w].known,
             NEW i \in DOMAIN work'[w].rep, IsFirst(i, work'[w].rep),
             NEW m \in DOMAIN messages',
             messages'[m].area = work'[w].rep[i].area, messages'[m].key = work'[w].rep[i].key
      PROVE  FALSE
  <2>1. work'[w] = work[w] /\ work[w] \in Work
    BY <1>2 DEF TypeInv, TypeOK
  <2>2. work[w].rep[i].key # Composed
    BY <1>2, <2>1, QwkNames DEF Work
  <2>3. m \in DOMAIN messages /\ messages'[m] = messages[m]
    BY <1>2, <2>1, <2>2 DEF NoneStored
  <2>4. ~ Stored(work[w].rep[i].area, work[w].rep[i].key)
    BY <1>2, <2>1 DEF OnceInv, LookupHolds
  <2> QED
    BY <1>2, <2>1, <2>3, <2>4 DEF Stored
<1>3. LookupHolds'
  BY <1>2 DEF OnceInv, LookupHolds, Stored
<1> QED
  BY <1>1, <1>3 DEF OnceInv

LEMMA NextOnce ==
  ~ OverlappingUploads => (TypeInv /\ OnceInv /\ [Next]_vars => OnceInv')
<1> SUFFICES ASSUME ~ OverlappingUploads, TypeInv, OnceInv, [Next]_vars
             PROVE  OnceInv'
  OBVIOUS
<1>0. Requests \subseteq Workers /\ Ftp \in Workers
  BY DEF Workers
<1>q. ASSUME UNCHANGED messages,
             \A w \in Workers : work'[w] = work[w] \/ work'[w].pc # "read"
      PROVE  OnceInv'
  <2>1. NoneStored
    BY <1>q DEF NoneStored
  <2> QED
    BY <1>q, <2>1, NoneStoredOnce
<1>f. ASSUME NEW w \in Workers, UNCHANGED messages, work'[w].pc # "read",
             \A v \in Workers \ {w} : work'[v] = work[v]
      PROVE  OnceInv'
  BY <1>f, <1>q
<1>1. CASE UNCHANGED vars
  BY <1>1, <1>q DEF vars
<1>2. ASSUME NEW a \in Areas, Post(a) PROVE OnceInv'
  <2>1. NoneStored /\ UNCHANGED work
    BY <1>2 DEF Post, NoneStored
  <2> QED
    BY <2>1, NoneStoredOnce
<1>3. ASSUME NEW w \in Requests, Download(w) PROVE OnceInv'
  <2>1. ASSUME NEW n \in Nodes, HttpBuild(w, n) PROVE OnceInv'
    <3>1. Holds(w, n) /\ UNCHANGED messages
      BY <1>0, <2>1, BuildType DEF HttpBuild
    <3> QED
      BY <1>0, <1>f, <3>1 DEF Holds
  <2>2. ASSUME HttpMark(w) PROVE OnceInv'
    <3>1. /\ work'[w] = [work[w] EXCEPT !.pc = "answer", !.marks = {}] /\ work[w] \in Work
          /\ \A v \in Workers \ {w} : work'[v] = work[v]
      BY <1>0, <2>2, HttpMarkType DEF TypeInv, TypeOK
    <3>2. work'[w].pc # "read"
      BY <3>1 DEF Work
    <3>3. UNCHANGED messages
      BY <2>2 DEF HttpMark
    <3> QED
      BY <1>0, <1>f, <3>1, <3>2, <3>3
  <2>3. ASSUME HttpAnswered(w) \/ HttpLost(w) PROVE OnceInv'
    <3>1. UNCHANGED messages /\ Finish(w)
      BY <2>3 DEF HttpAnswered, HttpLost
    <3> QED
      BY <1>0, <1>f, <3>1, FinishFacts DEF TypeInv
  <2> QED
    BY <1>3, <2>1, <2>2, <2>3 DEF Download
<1>4. ASSUME Login PROVE OnceInv'
  <2>1. ASSUME NEW n \in Nodes, FtpBuild(n) PROVE OnceInv'
    <3>1. Holds(Ftp, n) /\ UNCHANGED messages
      BY <1>0, <2>1, BuildType DEF FtpBuild
    <3> QED
      BY <1>0, <1>f, <3>1 DEF Holds
  <2>2. ASSUME NEW n \in Nodes, FtpFetch(n) PROVE OnceInv'
    BY <1>q, <2>2 DEF FtpFetch
  <2>3. ASSUME FtpMark \/ FtpMarkFails PROVE OnceInv'
    <3>1. UNCHANGED messages /\ Finish(Ftp)
      BY <2>3 DEF FtpMark, FtpMarkFails
    <3> QED
      BY <1>0, <1>f, <3>1, FinishFacts DEF TypeInv
  <2> QED
    BY <1>4, <2>1, <2>2, <2>3 DEF Login
<1>5. ASSUME NEW w \in Workers, Upload(w) PROVE OnceInv'
  <2>1. ASSUME HttpToss(w) PROVE OnceInv'
    <3>1. UNCHANGED messages /\ Finish(w)
      BY <2>1 DEF HttpToss
    <3> QED
      BY <1>f, <3>1, FinishFacts DEF TypeInv
  <2> QED
    BY <1>5, <2>1, RepReadOnce, RepStoreOnce DEF Upload
<1>6. ASSUME FtpToss \/ FtpTossFails PROVE OnceInv'
  <2>1. UNCHANGED messages /\ Finish(Ftp)
    BY <1>6 DEF FtpToss, FtpTossFails
  <2> QED
    BY <1>0, <1>f, <2>1, FinishFacts DEF TypeInv
<1>7. ASSUME Sysop PROVE OnceInv'
  <2>1. ASSUME NEW n \in Nodes, NEW a \in Areas, Subscribe(n, a) PROVE OnceInv'
    BY <1>q, <2>1 DEF Subscribe
  <2>2. CASE \/ \E i \in RowIds : Unsubscribe(i) \/ ResetMark(i)
             \/ \E a \in Areas : SwitchArea(a)
             \/ \E m \in Ids : Delete(m)
    <3>1. Trimmed /\ UNCHANGED work
      BY <2>2, TrimType
    <3>2. NoneStored
      BY <3>1 DEF Trimmed, NoneStored
    <3> QED
      BY <3>1, <3>2, NoneStoredOnce
  <2> QED
    BY <1>7, <2>1, <2>2 DEF Sysop
<1> QED
  BY <1>1, <1>2, <1>3, <1>4, <1>5, <1>6, <1>7 DEF Next

LEMMA InitOnce == Init => OnceInv
<1> SUFFICES ASSUME Init PROVE OnceInv
  OBVIOUS
<1>1. DOMAIN messages = {}
  BY EmptySeq, LenProperties DEF Init
<1>2. \A w \in Workers : work[w].pc = "idle"
  BY DEF Init, Idle
<1> QED
  BY <1>1, <1>2 DEF OnceInv, StoredOnce, LookupHolds

(* Where REP packets come one after the other, however the uploads, mail     *)
(* from elsewhere, deletions and failed tosses mix, none is stored twice     *)
(* (import_rep_packet and process_rep_upload).                              *)
THEOREM OnceSafe == ~ OverlappingUploads => (Spec => []StoredOnce)
<1> SUFFICES ASSUME ~ OverlappingUploads PROVE Spec => []StoredOnce
  OBVIOUS
<1>1. TypeInv /\ OnceInv /\ [Next]_vars => OnceInv'
  BY NextOnce
<1>2. OnceInv => StoredOnce
  BY DEF OnceInv
<1> QED
  BY <1>1, <1>2, InitOnce, TypeHolds, PTL DEF Spec
=============================================================================
