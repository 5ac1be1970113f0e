------------------------ MODULE WalletService_proofs ------------------------
(***************************************************************************)
(* Theorems about WalletService, for every set of wallets, every catalogue *)
(* and every file a first start may find.                                  *)
(*                                                                         *)
(* The store holds what its file does, and what was told is either what it *)
(* holds or older.  A write that has started has no pending write before   *)
(* it, so what is stored last came last.  A wallet's age and the attempts  *)
(* before its turn never add up to more than the other wallets.            *)
(***************************************************************************)
EXTENDS WalletService, WellFoundedInduction, FiniteSetTheorems, FunctionTheorems,
        SequenceTheorems, TLAPS

\* The types of the variables.
Phases == {"queued", "checking", "checked", "stored", "refused", "failed", "gone", "lost"}
Writes == [phase : Phases, sel : SUBSET Wallets, left : BOOLEAN, eligible : SUBSET Wallets]
FileType == [kind : {"own", "other", "invalid"}, revision : Nat, sel : SUBSET Wallets]
Values == [sel : SUBSET Wallets, revision : Nat, failed : BOOLEAN]
ToldChoices == [revision : Nat, sel : SUBSET Wallets]
Rows == UNION {[S -> RowStates] : S \in SUBSET Wallets}
Refreshes == [phase : {"idle", "listing", "reading"}, readers : SUBSET (Nat \cup {Poll}),
              order : Seq(Wallets), start : Nat, next : Nat,
              hand : [Workers -> Wallets \cup {Nobody}], rows : Rows]

\* The store holds what its file does, and nothing that was told is ahead of it.
StoreInv ==
    /\ disk \in FileType
    /\ mem = load(disk)
    /\ answered \subseteq ToldChoices
    /\ \A a \in answered : a.revision < mem.revision \/ a = response
    /\ \A a, b \in answered : a.revision = b.revision => a = b

\* What has had its turn: nothing before it is pending.
Started(i) == writes[i].phase \notin {"queued", "gone"}

\* Nothing is pending before a write that has started, an unreadable store checks
\* no write, and the choice in force is that of the last write that was stored, or
\* of one behind it whose caller was never answered.
ChainInv ==
    /\ writes \in Seq(Writes)
    /\ \A j \in DOMAIN writes : Started(j) => \A i \in 1..(j - 1) : ~Pending(i)
    /\ \A i \in DOMAIN writes : mem.failed => writes[i].phase \notin {"checking", "checked"}
    /\ \A i \in DOMAIN writes : (\A j \in DOMAIN writes : writes[j].phase = "stored" => j <= i)
          /\ writes[i].phase = "stored"
          => \/ mem.sel = writes[i].sel
             \/ \E j \in DOMAIN writes : writes[j].phase = "lost" /\ j > i /\ mem.sel = writes[j].sel

\* The writes that wait for a refresh.
Checking == {i \in DOMAIN writes : writes[i].phase = "checking"}

\* A refresh, and none: nobody waits for none, and no name is taken before the list.
FlightInv ==
    /\ flight \in Refreshes
    /\ flight.phase = "idle" => flight.readers = {}
    /\ flight.phase # "reading" => flight.next = 0

\* Those a refresh will tell are the writes that wait, and whoever shows the catalogue.
ReadersInv ==
    /\ FlightInv
    /\ flight.readers \ {Poll} = Checking
    /\ catalog \in [kept : BOOLEAN, eligible : SUBSET Wallets]

-----------------------------------------------------------------------------
\* The order of the natural numbers, as a relation.
Less == {pair \in Nat \X Nat : pair[1] < pair[2]}

\* That order is well-founded.
LEMMA LessIsWellFounded == IsWellFoundedOn(Less, Nat)
  BY NatLessThanWellFounded DEF OpToRel, Less

\* A set of natural numbers has a least member.
LEMMA LeastMember ==
    ASSUME NEW T \in SUBSET Nat, T # {}
    PROVE  \E x \in T : \A y \in T : x <= y
<1>1. PICK x \in T : \A y \in T : ~(<<y, x>> \in Less)
  BY LessIsWellFounded, WFMin
<1>2. ASSUME NEW y \in T PROVE x <= y
  <2>1. ~(y < x)
    BY <1>1 DEF Less
  <2>. QED BY <2>1
<1>. QED BY <1>2

\* A bounded set of natural numbers has a greatest member: the operator Max.
LEMMA MaxFacts ==
    ASSUME NEW T \in SUBSET Nat, T # {}, NEW n \in Nat, \A y \in T : y <= n
    PROVE  Max(T) \in T /\ \A y \in T : Max(T) >= y
<1> DEFINE bounds == {m \in Nat : \A y \in T : y <= m}
<1>1. PICK m \in bounds : \A b \in bounds : m <= b
  <2>1. bounds # {} /\ bounds \in SUBSET Nat
    OBVIOUS
  <2>. QED BY <2>1, LeastMember
<1>2. m \in T
  <2> SUFFICES ASSUME m \notin T PROVE FALSE
    OBVIOUS
  <2>1. \A y \in T : y < m
    BY <1>1
  <2>2. PICK y \in T : TRUE
    OBVIOUS
  <2>3. m - 1 \in bounds
    BY <2>1, <2>2
  <2>. QED BY <1>1, <2>3
<1>3. \E x \in T : \A y \in T : x >= y
  BY <1>1, <1>2
<1>. QED BY <1>3 DEF Max

\* The smaller of two numbers: the operator Min.
LEMMA MinOfTwo ==
    ASSUME NEW a \in Nat, NEW b \in Nat
    PROVE  Min({a, b}) \in Nat /\ Min({a, b}) <= a /\ Min({a, b}) <= b
<1>1. \E x \in {a, b} : \A y \in {a, b} : x <= y
  OBVIOUS
<1>. QED BY <1>1 DEF Min

-----------------------------------------------------------------------------
\* A finite set of wallets can be put in order.
LEMMA OrderExists ==
    ASSUME NEW n \in Nat, NEW S \in SUBSET Nat, IsFiniteSet(S), Cardinality(S) = n
    PROVE  \E s \in [1..n -> S] : \A i, j \in 1..n : i < j => s[i] < s[j]
<1> DEFINE Ordered(m, T) == \E s \in [1..m -> T] : \A i, j \in 1..m : i < j => s[i] < s[j]
           bad == {m \in Nat : \E T \in SUBSET Nat : IsFiniteSet(T) /\ Cardinality(T) = m /\ ~Ordered(m, T)}
<1>1. ASSUME bad # {} PROVE FALSE
  <2>1. PICK m \in bad : \A b \in bad : m <= b
    BY <1>1, LeastMember
  <2>2. PICK T \in SUBSET Nat : IsFiniteSet(T) /\ Cardinality(T) = m /\ ~Ordered(m, T)
    BY <2>1
  <2>3. CASE m = 0
    <3>1. [i \in 1..0 |-> 0] \in [1..0 -> T]
      OBVIOUS
    <3>2. \A i \in 1..0 : FALSE
      OBVIOUS
    <3>3. Ordered(0, T)
      BY <3>1, <3>2
    <3>. QED BY <2>2, <2>3, <3>3
  <2>4. CASE m # 0
    <3>1. T # {}
      BY <2>2, <2>4, FS_EmptySet
    <3>2. PICK x \in T : \A y \in T : x <= y
      BY <3>1, LeastMember
    <3>3. IsFiniteSet(T \ {x}) /\ Cardinality(T \ {x}) = m - 1
      BY <2>2, FS_RemoveElement
    <3>4. m - 1 \in Nat /\ m - 1 \notin bad
      BY <2>1, <2>4
    <3>5. Ordered(m - 1, T \ {x})
      BY <3>3, <3>4
    <3>6. PICK s \in [1..(m - 1) -> T \ {x}] : \A i, j \in 1..(m - 1) : i < j => s[i] < s[j]
      BY <3>5
    <3> DEFINE r == [i \in 1..m |-> IF i = 1 THEN x ELSE s[i - 1]]
    <3>7. \A i \in 1..m : i # 1 => i - 1 \in 1..(m - 1)
      BY <3>4
    <3>8. r \in [1..m -> T]
      BY <3>6, <3>7
    <3>9. ASSUME NEW i \in 1..m, NEW j \in 1..m, i < j PROVE r[i] < r[j]
      <4>1. j # 1 /\ r[j] = s[j - 1] /\ j - 1 \in 1..(m - 1)
        BY <3>7, <3>9
      <4>2. CASE i = 1
        <5>1. r[i] = x /\ s[j - 1] \in T \ {x}
          BY <3>6, <4>1, <4>2
        <5>2. x <= s[j - 1] /\ x # s[j - 1] /\ x \in Nat /\ s[j - 1] \in Nat
          BY <3>2, <5>1
        <5>. QED BY <4>1, <5>1, <5>2
      <4>3. CASE i # 1
        <5>1. r[i] = s[i - 1] /\ i - 1 \in 1..(m - 1) /\ i - 1 < j - 1
          BY <3>7, <3>9, <4>3
        <5>. QED BY <3>6, <4>1, <5>1
      <4>. QED BY <4>2, <4>3
    <3>10. Ordered(m, T)
      BY <3>8, <3>9
    <3>. QED BY <2>2, <3>10
  <2>. QED BY <2>3, <2>4
<1>2. n \notin bad
  BY <1>1
<1>. QED BY <1>2

\* Sorted lists every name, once.
LEMMA SortedFacts ==
    ASSUME NEW names \in SUBSET Wallets
    PROVE  /\ IsFiniteSet(names) /\ Cardinality(names) \in Nat
           /\ Sorted(names) \in [1..Cardinality(names) -> names]
           /\ \A w \in names : \E p \in 1..Cardinality(names) : Sorted(names)[p] = w
<1> DEFINE n == Cardinality(names)
           s == Sorted(names)
<1>1. IsFiniteSet(names) /\ n \in Nat /\ names \in SUBSET Nat
  BY FS_Subset, FS_CardinalityType, WalletServiceAssumption
<1>2. \E r \in [1..n -> names] : \A i, j \in DOMAIN r : i < j => r[i] < r[j]
  <2>1. PICK r \in [1..n -> names] : \A i, j \in 1..n : i < j => r[i] < r[j]
    BY <1>1, OrderExists
  <2>. QED BY <2>1
<1>3. s \in [1..n -> names] /\ \A i, j \in DOMAIN s : i < j => s[i] < s[j]
  BY <1>2 DEF Sorted
<1>4. s \in Injection(1..n, names)
  <2>1. ASSUME NEW i \in 1..n, NEW j \in 1..n, s[i] = s[j] PROVE i = j
    <3>1. s[i] \in Nat /\ s[j] \in Nat
      BY <1>1, <1>3
    <3>2. ~(i < j) /\ ~(j < i)
      BY <1>3, <2>1, <3>1
    <3>. QED BY <1>1, <3>2
  <2>. QED BY <1>3, <2>1 DEF Injection, IsInjective
<1>5. IsFiniteSet(1..n) /\ Cardinality(1..n) = n
  BY <1>1, FS_Interval
<1>6. s \in Surjection(1..n, names)
  BY <1>1, <1>4, <1>5, FS_Injection
<1>. QED BY <1>1, <1>3, <1>6 DEF Surjection


-----------------------------------------------------------------------------
(* The round robin: where the next attempt is, in the order of the names.  *)

\* A place in the order, past its end.
Wrap(x, n) == IF x < n THEN x ELSE x - n

\* The attempts before the one on the name at place p, when the next is at c.
Distance(p, c, n) == IF p > c THEN p - 1 - c ELSE p - 1 - c + n

\* Every name has its next attempt in time.
Fits(names, c, S) ==
    \A p \in 1..Cardinality(names) :
        S[Sorted(names)[p]] + Distance(p, c, Cardinality(names)) <= Cardinality(names) - 1

\* The order of a refresh is that of the names, begun at its start.
Placed(f, names) ==
    /\ Len(f.order) = Cardinality(names)
    /\ f.start \in 0..(Cardinality(names) - 1) /\ f.next \in 0..Cardinality(names)
    /\ \A j \in 1..Cardinality(names) :
          f.order[j] = Sorted(names)[Wrap(f.start + j - 1, Cardinality(names)) + 1]

\* The place of the next name a refresh takes.
Position(f, names) == Wrap(f.start + f.next, Cardinality(names))

\* The cursor is at the next name, and every name has its turn in time.
RoundInv ==
    /\ listed \in SUBSET Wallets /\ cursor \in Nat /\ since \in [Wallets -> Nat]
    /\ cursor <= Cardinality(Wallets)
    /\ listed # {} => cursor < Cardinality(listed) /\ Fits(listed, cursor, since)
    /\ flight.phase = "reading" =>
          listed # {} /\ Placed(flight, listed) /\ cursor = Position(flight, listed)

\* There are no more names than wallets.
LEMMA SubsetCount ==
    ASSUME NEW names \in SUBSET Wallets
    PROVE  /\ Cardinality(names) \in Nat /\ Cardinality(Wallets) \in Nat
           /\ Cardinality(names) <= Cardinality(Wallets)
  BY FS_Subset, FS_CardinalityType, WalletServiceAssumption

\* The remainder of a number below twice the divisor.
LEMMA Remainder ==
    ASSUME NEW n \in Nat \ {0}, NEW x \in Nat
    PROVE  /\ x % n \in 0..(n - 1)
           /\ x < 2 * n => x % n = Wrap(x, n)
<1>1. x % n \in 0..(n - 1)
  OBVIOUS
<1>2. ASSUME x < n PROVE x % n = x
  BY <1>2
<1>3. ASSUME x >= n, x < 2 * n PROVE x % n = x - n
  BY <1>3
<1>. QED BY <1>1, <1>2, <1>3 DEF Wrap

\* A refresh and the attempts, as a worker finds them and leaves them.
Evolving == [f : Refreshes, cursor : Nat, since : [Wallets -> Nat]]

\* A worker without another name to take.
LEMMA TakeNothing ==
    ASSUME NEW s \in Evolving, NEW k \in Workers, s.f.next >= Len(s.f.order)
    PROVE  LET t == take(s, k) IN
           /\ t \in Evolving
           /\ t.f = [s.f EXCEPT !.hand[k] = Nobody]
           /\ t.cursor = s.cursor /\ t.since = s.since
<1>1. take(s, k) = [s EXCEPT !.f.hand[k] = Nobody]
  BY DEF take
<1>2. s.f \in Refreshes
  BY DEF Evolving
<1>3. take(s, k) = [s EXCEPT !.f = [s.f EXCEPT !.hand[k] = Nobody]]
  BY <1>1
<1>4. [s.f EXCEPT !.hand[k] = Nobody] \in Refreshes
  BY <1>2 DEF Refreshes
<1>. QED BY <1>3, <1>4 DEF Evolving

\* A worker takes the name the cursor is at, and the cursor moves on.
LEMMA TakeNext ==
    ASSUME NEW s \in Evolving, NEW k \in Workers, NEW names \in SUBSET Wallets,
           names # {}, Placed(s.f, names), s.f.next < Cardinality(names),
           Fits(names, Position(s.f, names), s.since)
    PROVE  LET t == take(s, k) IN
           /\ t \in Evolving
           /\ t.f = [s.f EXCEPT !.hand[k] = s.f.order[s.f.next + 1], !.next = @ + 1]
           /\ Placed(t.f, names)
           /\ t.cursor = Position(t.f, names) /\ t.cursor < Cardinality(names)
           /\ Fits(names, t.cursor, t.since)
<1> DEFINE n == Cardinality(names)
           sorted == Sorted(names)
           p == Position(s.f, names)
           name == s.f.order[s.f.next + 1]
           t == take(s, k)
<1>1. n \in Nat \ {0} /\ sorted \in [1..n -> names]
  <2>1. IsFiniteSet(names) /\ n \in Nat /\ sorted \in [1..n -> names]
    BY SortedFacts
  <2>2. n # 0
    BY <2>1, FS_EmptySet
  <2>. QED BY <2>1, <2>2
<1>2. s.f.start \in 0..(n - 1) /\ s.f.next \in 0..(n - 1) /\ Len(s.f.order) = n
  BY <1>1 DEF Placed
<1>3. p \in 0..(n - 1) /\ name = sorted[p + 1] /\ name \in Wallets
  <2>1. s.f.next + 1 \in 1..n
    BY <1>1, <1>2
  <2>2. p \in 0..(n - 1)
    BY <1>1, <1>2 DEF Position, Wrap
  <2>3. name = sorted[Wrap(s.f.start + (s.f.next + 1) - 1, n) + 1]
    BY <2>1 DEF Placed
  <2>4. s.f.start + (s.f.next + 1) - 1 = s.f.start + s.f.next
    BY <1>1, <1>2
  <2>5. name = sorted[p + 1]
    BY <2>3, <2>4 DEF Position
  <2>. QED BY <1>1, <2>2, <2>5
<1>4. nextCursor(s.f) = Wrap(s.f.start + s.f.next + 1, n)
  <2>1. s.f.order # <<>>
    BY <1>1, <1>2
  <2>2. s.f.start + s.f.next + 1 \in Nat /\ s.f.start + s.f.next + 1 < 2 * n
    BY <1>1, <1>2
  <2>. QED BY <1>1, <1>2, <2>1, <2>2, Remainder DEF nextCursor
<1>5. t = [f |-> [s.f EXCEPT !.hand[k] = name, !.next = @ + 1],
           cursor |-> nextCursor(s.f),
           since |-> [w \in Wallets |-> IF w = name THEN 0
                                        ELSE Min({s.since[w] + 1, Cardinality(Wallets)})]]
  BY <1>1, <1>2 DEF take
<1>6. t.f.start = s.f.start /\ t.f.next = s.f.next + 1 /\ t.f.order = s.f.order /\ t.f \in Refreshes
  <2>1. s.f \in Refreshes
    BY DEF Evolving
  <2>2. t.f = [s.f EXCEPT !.hand[k] = name, !.next = @ + 1]
    BY <1>5
  <2>3. t.f.start = s.f.start /\ t.f.next = s.f.next + 1 /\ t.f.order = s.f.order
    BY <2>1, <2>2 DEF Refreshes
  <2>4. t.f = [s.f EXCEPT !.hand = [s.f.hand EXCEPT ![k] = name], !.next = s.f.next + 1]
    BY <2>2
  <2>5. [s.f.hand EXCEPT ![k] = name] \in [Workers -> Wallets \cup {Nobody}]
    BY <1>3, <2>1 DEF Refreshes
  <2>6. s.f.next + 1 \in Nat
    BY <2>1 DEF Refreshes
  <2>7. t.f \in Refreshes
    BY <2>1, <2>4, <2>5, <2>6 DEF Refreshes
  <2>. QED BY <2>3, <2>7
<1>7. t.cursor = Position(t.f, names)
  <2>1. s.f.start + s.f.next + 1 = s.f.start + (s.f.next + 1)
    BY <1>1, <1>2
  <2>. QED BY <1>4, <1>5, <1>6, <2>1 DEF Position
<1>8. t.cursor \in 0..(n - 1)
  BY <1>1, <1>2, <1>4, <1>5 DEF Wrap
<1>9. Placed(t.f, names)
  BY <1>1, <1>2, <1>6 DEF Placed
<1>10. \A w \in Wallets : t.since[w] \in Nat /\ t.since[w] <= s.since[w] + 1
  <2> TAKE w \in Wallets
  <2>1. s.since[w] + 1 \in Nat /\ Cardinality(Wallets) \in Nat
    BY FS_CardinalityType, WalletServiceAssumption DEF Evolving
  <2>. QED BY <1>5, <2>1, MinOfTwo
<1>11. t \in Evolving
  <2>1. t.since \in [Wallets -> Nat]
    BY <1>5, <1>10
  <2>2. t.f \in Refreshes
    BY <1>6
  <2>3. t.cursor \in Nat
    BY <1>1, <1>8
  <2>. QED BY <1>5, <2>1, <2>2, <2>3 DEF Evolving
<1>12. Fits(names, t.cursor, t.since)
  <2> SUFFICES ASSUME NEW q \in 1..n
               PROVE  t.since[sorted[q]] + Distance(q, t.cursor, n) <= n - 1
    BY DEF Fits
  <2>1. sorted[q] \in Wallets /\ s.since[sorted[q]] \in Nat
    BY <1>1 DEF Evolving
  <2>2. Distance(q, t.cursor, n) \in 0..(n - 1)
    BY <1>1, <1>8 DEF Distance
  <2>3. CASE sorted[q] = name
    <3>1. t.since[sorted[q]] = 0
      BY <1>5, <2>1, <2>3
    <3>. QED BY <1>1, <2>2, <3>1
  <2>4. CASE sorted[q] # name
    <3>1. q # p + 1
      BY <1>3, <2>4
    <3>2. t.cursor = Wrap(p + 1, n)
      BY <1>1, <1>2, <1>4, <1>5 DEF Position, Wrap
    <3>3. Distance(q, t.cursor, n) = Distance(q, p, n) - 1
      BY <1>1, <1>3, <3>1, <3>2 DEF Distance, Wrap
    <3>4. s.since[sorted[q]] + Distance(q, p, n) <= n - 1
      BY DEF Fits
    <3>5. Distance(q, p, n) \in Nat
      BY <1>1, <1>3 DEF Distance
    <3>. QED BY <1>1, <1>10, <2>1, <3>3, <3>4, <3>5
  <2>. QED BY <2>3, <2>4
<1>. QED BY <1>1, <1>5, <1>7, <1>8, <1>9, <1>11, <1>12

\* What a refresh on its way has in common with the cursor and the attempts.
OnCourse(s, names) ==
    /\ Placed(s.f, names)
    /\ s.cursor = Position(s.f, names) /\ s.cursor < Cardinality(names)
    /\ Fits(names, s.cursor, s.since)

\* The fields of a refresh that its workers leave alone.
SameFlight(f, g) == g.phase = f.phase /\ g.readers = f.readers /\ g.rows = f.rows

\* A worker that asks for a name leaves the refresh on its course.
LEMMA TakeKeeps ==
    ASSUME NEW s \in Evolving, NEW k \in Workers, NEW names \in SUBSET Wallets,
           names # {}, OnCourse(s, names)
    PROVE  /\ take(s, k) \in Evolving /\ OnCourse(take(s, k), names)
           /\ SameFlight(s.f, take(s, k).f)
<1> DEFINE t == take(s, k)
<1>1. s.f \in Refreshes /\ Cardinality(names) \in Nat /\ Len(s.f.order) = Cardinality(names)
      /\ s.f.next \in Nat
  BY SortedFacts DEF Evolving, OnCourse, Placed, Refreshes
<1>2. CASE s.f.next >= Len(s.f.order)
  <2>1. t \in Evolving /\ t.f = [s.f EXCEPT !.hand[k] = Nobody] /\ t.cursor = s.cursor /\ t.since = s.since
    BY <1>2, TakeNothing
  <2>2. t.f.order = s.f.order /\ t.f.start = s.f.start /\ t.f.next = s.f.next /\ SameFlight(s.f, t.f)
    BY <1>1, <2>1 DEF Refreshes, SameFlight
  <2>. QED BY <2>1, <2>2 DEF OnCourse, Placed, Position
<1>3. CASE s.f.next < Len(s.f.order)
  <2>1. Fits(names, Position(s.f, names), s.since) /\ Placed(s.f, names)
    BY DEF OnCourse
  <2>2. t \in Evolving /\ t.f = [s.f EXCEPT !.hand[k] = s.f.order[s.f.next + 1], !.next = @ + 1]
        /\ Placed(t.f, names) /\ t.cursor = Position(t.f, names) /\ t.cursor < Cardinality(names)
        /\ Fits(names, t.cursor, t.since)
    BY <1>1, <1>3, <2>1, TakeNext
  <2>3. SameFlight(s.f, t.f)
    BY <1>1, <2>2 DEF Refreshes, SameFlight
  <2>. QED BY <2>2, <2>3 DEF OnCourse
<1>. QED BY <1>1, <1>2, <1>3

\* The order of a refresh: that of the names, begun where the last one stopped.
LEMMA RoundRobinFacts ==
    ASSUME NEW names \in SUBSET Wallets, NEW from \in Nat
    PROVE  LET rr == roundRobin(names, from)
               n == Cardinality(names)
           IN  /\ rr.order \in Seq(Wallets) /\ Len(rr.order) = n /\ rr.start \in Nat
               /\ names # {} => /\ rr.start \in 0..(n - 1) /\ rr.start = from % n
                                /\ \A j \in 1..n : rr.order[j] = Sorted(names)[Wrap(rr.start + j - 1, n) + 1]
<1> DEFINE n == Cardinality(names)
           sorted == Sorted(names)
           start == IF names = {} THEN 0 ELSE from % n
           rr == roundRobin(names, from)
<1>1. IsFiniteSet(names) /\ n \in Nat /\ sorted \in [1..n -> names]
  BY SortedFacts
<1>2. names = {} <=> n = 0
  BY <1>1, FS_EmptySet
<1>3. sorted \in Seq(names) /\ Len(sorted) = n
  <2>1. sorted \in Seq(names)
    BY <1>1, SeqDef
  <2>. QED BY <1>1, <2>1, LenProperties
<1>4. rr = [start |-> start, order |-> SubSeq(sorted, start + 1, n) \o SubSeq(sorted, 1, start)]
  BY <1>3 DEF roundRobin
<1>5. start \in 0..n /\ (names # {} => start \in 0..(n - 1))
  <2>1. CASE names = {}
    BY <1>1, <2>1
  <2>2. CASE names # {}
    <3>1. from % n \in 0..(n - 1)
      BY <1>1, <1>2, <2>2, Remainder
    <3>. QED BY <1>1, <2>2, <3>1
  <2>. QED BY <2>1, <2>2
<1> HIDE DEF start
<1>6. \A i \in 1..n : sorted[i] \in Wallets
  BY <1>1
<1>7. /\ SubSeq(sorted, start + 1, n) \in Seq(Wallets) /\ Len(SubSeq(sorted, start + 1, n)) = n - start
      /\ \A i \in 1..(n - start) : SubSeq(sorted, start + 1, n)[i] = sorted[start + i]
  <2>1. start + 1 \in Int /\ n \in Int /\ \A i \in (start + 1)..n : sorted[i] \in Wallets
    BY <1>1, <1>5, <1>6
  <2>2. /\ SubSeq(sorted, start + 1, n) \in Seq(Wallets)
        /\ Len(SubSeq(sorted, start + 1, n)) = IF start + 1 <= n THEN n - (start + 1) + 1 ELSE 0
        /\ \A i \in 1..(n - (start + 1) + 1) : SubSeq(sorted, start + 1, n)[i] = sorted[(start + 1) + i - 1]
    BY <2>1, SubSeqProperties
  <2>3. \A i \in 1..(n - start) : (start + 1) + i - 1 = start + i /\ i \in 1..(n - (start + 1) + 1)
    BY <1>1, <1>5
  <2>4. (IF start + 1 <= n THEN n - (start + 1) + 1 ELSE 0) = n - start
    BY <1>1, <1>5
  <2>. QED BY <2>2, <2>3, <2>4
<1>8. /\ SubSeq(sorted, 1, start) \in Seq(Wallets) /\ Len(SubSeq(sorted, 1, start)) = start
      /\ \A i \in 1..start : SubSeq(sorted, 1, start)[i] = sorted[i]
  <2>1. start \in Int /\ \A i \in 1..start : sorted[i] \in Wallets
    BY <1>1, <1>5, <1>6
  <2>2. /\ SubSeq(sorted, 1, start) \in Seq(Wallets)
        /\ Len(SubSeq(sorted, 1, start)) = IF 1 <= start THEN start - 1 + 1 ELSE 0
        /\ \A i \in 1..(start - 1 + 1) : SubSeq(sorted, 1, start)[i] = sorted[1 + i - 1]
    BY <2>1, SubSeqProperties
  <2>3. \A i \in 1..start : 1 + i - 1 = i /\ i \in 1..(start - 1 + 1)
    BY <1>1, <1>5
  <2>4. (IF 1 <= start THEN start - 1 + 1 ELSE 0) = start
    BY <1>1, <1>5
  <2>. QED BY <2>2, <2>3, <2>4
<1>9. /\ rr.order \in Seq(Wallets) /\ Len(rr.order) = (n - start) + start
      /\ \A i \in 1..((n - start) + start) :
            rr.order[i] = IF i <= n - start THEN SubSeq(sorted, start + 1, n)[i]
                          ELSE SubSeq(sorted, 1, start)[i - (n - start)]
  <2> DEFINE a == SubSeq(sorted, start + 1, n)
             b == SubSeq(sorted, 1, start)
  <2>1. a \in Seq(Wallets) /\ b \in Seq(Wallets) /\ Len(a) = n - start /\ Len(b) = start
    BY <1>7, <1>8
  <2>2. rr = [start |-> start, order |-> a \o b]
    BY <1>4
  <2> HIDE DEF a, b, rr
  <2>3. /\ a \o b \in Seq(Wallets) /\ Len(a \o b) = Len(a) + Len(b)
        /\ \A i \in 1..(Len(a) + Len(b)) : (a \o b)[i] = IF i <= Len(a) THEN a[i] ELSE b[i - Len(a)]
    BY <2>1, ConcatProperties
  <2>4. /\ rr.order \in Seq(Wallets) /\ Len(rr.order) = (n - start) + start
        /\ \A i \in 1..((n - start) + start) :
              rr.order[i] = IF i <= n - start THEN a[i] ELSE b[i - (n - start)]
    BY <2>1, <2>2, <2>3
  <2>. QED BY <2>4 DEF a, b
<1>10. ASSUME NEW j \in 1..n, names # {} PROVE rr.order[j] = sorted[Wrap(start + j - 1, n) + 1]
  <2>1. start \in 0..(n - 1) /\ j \in 1..((n - start) + start)
    BY <1>1, <1>5, <1>10
  <2>2. CASE j <= n - start
    <3>1. rr.order[j] = sorted[start + j]
      BY <1>7, <1>9, <2>1, <2>2
    <3>2. Wrap(start + j - 1, n) + 1 = start + j
      BY <1>1, <2>1, <2>2 DEF Wrap
    <3>. QED BY <3>1, <3>2
  <2>3. CASE ~(j <= n - start)
    <3>1. j - (n - start) \in 1..start
      BY <1>1, <2>1, <2>3
    <3>2. rr.order[j] = sorted[j - (n - start)]
      BY <1>8, <1>9, <2>1, <2>3, <3>1
    <3>3. Wrap(start + j - 1, n) + 1 = j - (n - start)
      BY <1>1, <2>1, <2>3 DEF Wrap
    <3>. QED BY <3>2, <3>3
  <2>. QED BY <2>2, <2>3
<1>11. (n - start) + start = n /\ start \in Nat
  BY <1>1, <1>5
<1>12. rr.start = start
  BY <1>4
<1>13. names # {} => start = from % n
  BY DEF start
<1>. QED BY <1>5, <1>9, <1>10, <1>11, <1>12, <1>13

\* No refresh is of the type of refreshes.
LEMMA NoFlightType == NoFlight \in Refreshes
<1>1. <<>> \in Seq(Wallets)
  BY EmptySeq
<1>2. <<>> \in Rows
  <2>1. <<>> \in Seq(RowStates) /\ Len(<<>>) = 0
    BY EmptySeq
  <2>2. <<>> \in [1..0 -> RowStates]
    BY <2>1, LenProperties
  <2>3. 1..0 = {}
    OBVIOUS
  <2>4. {} \in SUBSET Wallets
    OBVIOUS
  <2>. QED BY <2>2, <2>3, <2>4 DEF Rows
<1>3. [k \in Workers |-> Nobody] \in [Workers -> Wallets \cup {Nobody}]
  OBVIOUS
<1>. QED BY <1>1, <1>2, <1>3 DEF NoFlight, Refreshes

\* When a refresh has settled, none is under way.
LEMMA FinishFlight == ASSUME NEW f, finish(f) PROVE flight' = NoFlight /\ flight'.phase = "idle"
<1>1. flight' = NoFlight
  BY DEF finish
<1>2. NoFlight.phase = "idle"
  BY DEF NoFlight
<1>. QED BY <1>1, <1>2

\* A step of a refresh that reads: it goes on, as f, or f is what it settles with.
Reads(f) ==
    /\ f \in Refreshes /\ f.readers = flight.readers /\ f.phase = "reading"
    /\ finish(f) \/ (flight' = f /\ UNCHANGED <<catalog, writes>>)

\* What a refresh lists as eligible is among the wallets.
LEMMA EligibleType == ASSUME NEW f \in Refreshes PROVE eligible(f.rows) \in SUBSET Wallets
<1>1. f.rows \in Rows
  BY DEF Refreshes
<1>2. PICK S \in SUBSET Wallets : f.rows \in [S -> RowStates]
  BY <1>1 DEF Rows
<1>. QED BY <1>2 DEF eligible

\* listwallets answers: the two workers set out on the round.
LEMMA ListSteps ==
    ASSUME RoundInv, flight \in Refreshes, flight.phase = "listing", flight.next = 0,
           NEW names \in SUBSET Wallets, List(names)
    PROVE  /\ RoundInv'
           /\ \E f : Reads(f)
<1> DEFINE rr == roundRobin(names, cursor)
           n == Cardinality(names)
           f == [flight EXCEPT !.phase = "reading", !.start = rr.start, !.order = rr.order,
                               !.rows = [w \in names |-> "unavailable"]]
           old == IF names = listed THEN since ELSE [w \in Wallets |-> 0]
           s0 == [f |-> f, cursor |-> cursor, since |-> old]
           s1 == take(s0, 1)
           s2 == take(s1, 2)
<1>1. listed \in SUBSET Wallets /\ cursor \in Nat /\ since \in [Wallets -> Nat]
  BY DEF RoundInv
<1>2. /\ rr.order \in Seq(Wallets) /\ Len(rr.order) = n /\ rr.start \in Nat
      /\ names # {} => /\ rr.start \in 0..(n - 1) /\ rr.start = cursor % n
                       /\ \A j \in 1..n : rr.order[j] = Sorted(names)[Wrap(rr.start + j - 1, n) + 1]
  BY <1>1, RoundRobinFacts
<1>3. f \in Refreshes /\ f.readers = flight.readers /\ f.phase = "reading"
      /\ f.order = rr.order /\ f.start = rr.start /\ f.next = flight.next
  <2>1. [w \in names |-> "unavailable"] \in Rows
    <3>1. [w \in names |-> "unavailable"] \in [names -> RowStates]
      BY DEF RowStates
    <3>. QED BY <3>1 DEF Rows
  <2> HIDE DEF rr
  <2>. QED BY <1>2, <2>1 DEF Refreshes
<1>4. listed' = names /\ cursor' = s2.cursor /\ since' = s2.since
      /\ IF names = {} THEN finish(f) ELSE flight' = s2.f /\ UNCHANGED <<catalog, writes>>
  BY DEF List
<1>5. s0 \in Evolving /\ 1 \in Workers /\ 2 \in Workers /\ n \in Nat
  BY <1>1, <1>3, SortedFacts DEF Evolving, Workers
<1>6. s0.f = f /\ s0.cursor = cursor /\ s0.since = old
  OBVIOUS
<1> HIDE DEF rr, f, old, s0, s1, s2
<1>7. CASE names = {}
  <2>1. Len(s0.f.order) = 0
    BY <1>2, <1>3, <1>5, <1>6, <1>7, FS_EmptySet
  <2>2. s0.f.next \in Nat
    BY <1>5 DEF Evolving, Refreshes
  <2>3. s1 \in Evolving /\ s1.f = [s0.f EXCEPT !.hand[1] = Nobody]
        /\ s1.cursor = s0.cursor /\ s1.since = s0.since
    BY <1>5, <2>1, <2>2, TakeNothing DEF s1
  <2>4. s1.f.next = s0.f.next /\ s1.f.order = s0.f.order
    BY <1>3, <1>6, <2>3 DEF Refreshes
  <2>5. s2 \in Evolving /\ s2.cursor = s1.cursor /\ s2.since = s1.since
    <3>1. s1.f.next >= Len(s1.f.order)
      BY <2>1, <2>2, <2>4
    <3>. QED BY <1>5, <2>3, <3>1, TakeNothing DEF s2
  <2>6. finish(f)
    BY <1>4, <1>7
  <2>7. listed' = {} /\ cursor' = cursor /\ cursor' \in Nat /\ since' \in [Wallets -> Nat]
    BY <1>1, <1>4, <1>6, <1>7, <2>3, <2>5 DEF Evolving
  <2>8. flight'.phase = "idle"
    BY <2>6, FinishFlight
  <2>9. RoundInv'
    BY <2>7, <2>8 DEF RoundInv
  <2>10. Reads(f)
    BY <1>3, <2>6 DEF Reads
  <2>. QED BY <2>9, <2>10
<1>8. CASE names # {}
  <2>1. n # 0
    BY <1>5, <1>8, FS_EmptySet, SortedFacts
  <2>2. f.next = 0 /\ rr.start \in 0..(n - 1) /\ \A j \in 1..n : f.order[j] = Sorted(names)[Wrap(f.start + j - 1, n) + 1]
    BY <1>2, <1>3, <1>8
  <2>3. Placed(f, names)
    BY <1>2, <1>3, <1>5, <2>2 DEF Placed
  <2>4. Position(f, names) = rr.start
    BY <1>3, <1>5, <2>2 DEF Position, Wrap
  <2>5. Fits(names, rr.start, old)
    <3>1. CASE names = listed
      <4>1. cursor < n /\ Fits(names, cursor, since) /\ old = since
        BY <1>8, <3>1 DEF RoundInv, old
      <4>2. rr.start = cursor
        <5>1. n \in Nat \ {0} /\ cursor < 2 * n
          BY <1>1, <1>5, <2>1, <4>1
        <5>2. cursor % n = Wrap(cursor, n)
          BY <1>1, <5>1, Remainder
        <5>3. Wrap(cursor, n) = cursor
          BY <4>1 DEF Wrap
        <5>. QED BY <1>2, <1>8, <5>2, <5>3
      <4>. QED BY <4>1, <4>2
    <3>2. CASE names # listed
      <4> SUFFICES ASSUME NEW q \in 1..n
                   PROVE  old[Sorted(names)[q]] + Distance(q, rr.start, n) <= n - 1
        BY DEF Fits
      <4>1. Sorted(names)[q] \in Wallets
        BY SortedFacts
      <4>2. old[Sorted(names)[q]] = 0
        BY <3>2, <4>1 DEF old
      <4>3. Distance(q, rr.start, n) \in Nat /\ Distance(q, rr.start, n) <= n - 1
        BY <1>5, <2>2 DEF Distance
      <4>. QED BY <1>5, <4>2, <4>3
    <3>. QED BY <3>1, <3>2
  <2>6. s1 \in Evolving /\ OnCourse(s1, names) /\ SameFlight(f, s1.f)
    <3>1. /\ s1 \in Evolving
          /\ s1.f = [s0.f EXCEPT !.hand[1] = s0.f.order[s0.f.next + 1], !.next = @ + 1]
          /\ Placed(s1.f, names)
          /\ s1.cursor = Position(s1.f, names) /\ s1.cursor < Cardinality(names)
          /\ Fits(names, s1.cursor, s1.since)
      <4>1. Placed(s0.f, names) /\ s0.f.next < Cardinality(names)
            /\ Fits(names, Position(s0.f, names), s0.since)
        BY <1>5, <1>6, <2>1, <2>2, <2>3, <2>4, <2>5
      <4>. QED BY <1>5, <1>8, <4>1, TakeNext DEF s1
    <3>2. s1.f = [f EXCEPT !.hand[1] = f.order[f.next + 1], !.next = @ + 1]
      BY <1>6, <3>1
    <3>3. SameFlight(f, s1.f)
      BY <1>3, <3>2 DEF SameFlight, Refreshes
    <3>. QED BY <3>1, <3>3 DEF OnCourse
  <2>7. s2 \in Evolving /\ OnCourse(s2, names) /\ SameFlight(s1.f, s2.f)
    BY <1>5, <1>8, <2>6, TakeKeeps DEF s2
  <2>8. flight' = s2.f /\ UNCHANGED <<catalog, writes>>
    BY <1>4, <1>8
  <2>9. s2.f \in Refreshes /\ s2.f.readers = flight.readers /\ s2.f.phase = "reading"
    BY <1>3, <2>6, <2>7 DEF SameFlight, Evolving
  <2>10. RoundInv'
    <3>1. s2.cursor <= Cardinality(Wallets)
      BY <2>7, SubsetCount DEF OnCourse, Evolving
    <3>. QED BY <1>4, <1>8, <2>7, <2>8, <2>9, <3>1 DEF RoundInv, OnCourse, Evolving
  <2>11. Reads(s2.f)
    BY <2>8, <2>9 DEF Reads
  <2>. QED BY <2>10, <2>11
<1>. QED BY <1>7, <1>8

\* A wallet's reads end, and its worker goes on or stops.
LEMMA ReadSteps ==
    ASSUME RoundInv, flight \in Refreshes, NEW k \in Workers, NEW state \in RowStates,
           ReadEnds(k, state)
    PROVE  /\ RoundInv'
           /\ \E f : Reads(f)
<1> DEFINE f == [flight EXCEPT !.rows[flight.hand[k]] = state]
           s0 == [f |-> f, cursor |-> cursor, since |-> since]
           s1 == take(s0, k)
<1>1. listed \in SUBSET Wallets /\ cursor \in Nat /\ since \in [Wallets -> Nat] /\ flight.phase = "reading"
  BY DEF RoundInv, ReadEnds
<1>2. listed # {} /\ Placed(flight, listed) /\ cursor = Position(flight, listed)
      /\ cursor < Cardinality(listed) /\ Fits(listed, cursor, since)
  BY <1>1 DEF RoundInv
<1>3. f \in Refreshes /\ f.readers = flight.readers /\ f.phase = "reading"
      /\ f.order = flight.order /\ f.start = flight.start /\ f.next = flight.next
  <2>1. PICK S \in SUBSET Wallets : flight.rows \in [S -> RowStates]
    BY DEF Refreshes, Rows
  <2>2. [flight.rows EXCEPT ![flight.hand[k]] = state] \in [S -> RowStates]
    BY <2>1
  <2>3. [flight.rows EXCEPT ![flight.hand[k]] = state] \in Rows
    BY <2>2 DEF Rows
  <2>4. f = [flight EXCEPT !.rows = [flight.rows EXCEPT ![flight.hand[k]] = state]]
    OBVIOUS
  <2>. QED BY <1>1, <2>3, <2>4 DEF Refreshes
<1>4. cursor' = s1.cursor /\ since' = s1.since /\ listed' = listed
      /\ IF \A j \in Workers : s1.f.hand[j] = Nobody THEN finish(s1.f)
         ELSE flight' = s1.f /\ UNCHANGED <<catalog, writes>>
  BY Zenon DEF ReadEnds
<1>5. s0 \in Evolving /\ s0.f = f /\ s0.cursor = cursor /\ s0.since = since
  BY <1>1, <1>3 DEF Evolving
<1> HIDE DEF f, s0, s1
<1>6. OnCourse(s0, listed)
  BY <1>2, <1>3, <1>5 DEF OnCourse, Placed, Position
<1>7. s1 \in Evolving /\ OnCourse(s1, listed) /\ SameFlight(f, s1.f)
  BY <1>1, <1>2, <1>5, <1>6, TakeKeeps DEF s1
<1>8. s1.f \in Refreshes /\ s1.f.readers = flight.readers /\ s1.f.phase = "reading"
  BY <1>3, <1>7 DEF SameFlight, Evolving
<1>9. Reads(s1.f)
  BY <1>4, <1>8 DEF Reads
<1>10. RoundInv'
  <2>1. flight' = s1.f \/ flight'.phase = "idle"
    BY <1>9, FinishFlight DEF Reads
  <2>2. s1.cursor <= Cardinality(Wallets)
    BY <1>1, <1>7, SubsetCount DEF OnCourse, Evolving
  <2>. QED BY <1>1, <1>2, <1>4, <1>7, <2>1, <2>2 DEF RoundInv, OnCourse, Evolving
<1>. QED BY <1>9, <1>10

-----------------------------------------------------------------------------
(* The chain of writes.                                                    *)

\* What a step keeps of a write, and what it may make of it.
Kept(j) ==
    /\ j \in DOMAIN writes' /\ writes'[j].sel = writes[j].sel
    /\ ~Pending(j) => writes'[j].phase = writes[j].phase
Moves(j) ==
    /\ Started(j)' => Started(j) \/ \A i \in 1..(j - 1) : ~Pending(i)'
    /\ writes'[j].phase = "stored" => writes[j].phase = "stored"

\* A write that arrives, and one that is neither checked nor being checked.
Fresh(j) == j \notin DOMAIN writes /\ writes'[j].phase = "queued"
NoneUnderWay(j) == writes[j].phase \notin {"checking", "checked"}

\* A step that stores nothing and takes no write before its turn.
LEMMA ChainStep ==
    ASSUME ChainInv, writes' \in Seq(Writes), mem'.sel = mem.sel,
           \A j \in DOMAIN writes : Kept(j),
           \A j \in DOMAIN writes' : Fresh(j) \/ (j \in DOMAIN writes /\ Moves(j)),
           mem'.failed => \A j \in DOMAIN writes' : NoneUnderWay(j)'
    PROVE  ChainInv'
<1>1. writes \in Seq(Writes) /\ DOMAIN writes = 1..Len(writes) /\ Len(writes) \in Nat
      /\ DOMAIN writes' = 1..Len(writes') /\ Len(writes') \in Nat
  BY LenProperties DEF ChainInv
<1>2. ASSUME NEW j \in DOMAIN writes', Started(j)' PROVE \A i \in 1..(j - 1) : ~Pending(i)'
  <2>1. j \in DOMAIN writes /\ Moves(j)
    BY <1>2 DEF Fresh, Started
  <2>2. CASE \A i \in 1..(j - 1) : ~Pending(i)'
    BY <2>2
  <2>3. CASE Started(j)
    <3> SUFFICES ASSUME NEW i \in 1..(j - 1) PROVE ~Pending(i)'
      OBVIOUS
    <3>1. ~Pending(i)
      BY <2>1, <2>3 DEF ChainInv
    <3>2. i \in DOMAIN writes
      BY <1>1, <2>1
    <3>3. writes'[i].phase = writes[i].phase
      BY <3>1, <3>2 DEF Kept
    <3>. QED BY <3>1, <3>3 DEF Pending
  <2>. QED BY <1>2, <2>1, <2>2, <2>3 DEF Moves
<1>3. ASSUME NEW i \in DOMAIN writes', writes'[i].phase = "stored",
             \A j \in DOMAIN writes' : writes'[j].phase = "stored" => j <= i
      PROVE  \/ mem'.sel = writes'[i].sel
             \/ \E j \in DOMAIN writes' : writes'[j].phase = "lost" /\ j > i /\ mem'.sel = writes'[j].sel
  <2>1. i \in DOMAIN writes /\ writes[i].phase = "stored"
    BY <1>3 DEF Fresh, Moves
  <2>2. ASSUME NEW j \in DOMAIN writes, writes[j].phase \in {"stored", "lost"}
        PROVE  j \in DOMAIN writes' /\ writes'[j].phase = writes[j].phase /\ writes'[j].sel = writes[j].sel
    BY <2>2 DEF Kept, Pending
  <2>3. \A j \in DOMAIN writes : writes[j].phase = "stored" => j <= i
    BY <1>3, <2>2
  <2>4. \/ mem.sel = writes[i].sel
        \/ \E j \in DOMAIN writes : writes[j].phase = "lost" /\ j > i /\ mem.sel = writes[j].sel
    BY <2>1, <2>3 DEF ChainInv
  <2>5. CASE mem.sel = writes[i].sel
    BY <2>1, <2>2, <2>5
  <2>6. CASE \E j \in DOMAIN writes : writes[j].phase = "lost" /\ j > i /\ mem.sel = writes[j].sel
    BY <2>2, <2>6
  <2>. QED BY <2>4, <2>5, <2>6
<1>. QED BY <1>2, <1>3 DEF ChainInv, NoneUnderWay

\* A step that gives one write another state.
LEMMA OneWrite ==
    ASSUME writes \in Seq(Writes), NEW i \in DOMAIN writes, NEW w \in Writes,
           writes' = [writes EXCEPT ![i] = w]
    PROVE  /\ writes' \in Seq(Writes) /\ DOMAIN writes' = DOMAIN writes
           /\ writes'[i] = w /\ \A j \in DOMAIN writes : j # i => writes'[j] = writes[j]
<1>1. DOMAIN writes = 1..Len(writes)
  BY LenProperties
<1>2. writes' \in Seq(Writes)
  BY <1>1, ExceptSeq
<1>. QED BY <1>2

\* A pending write goes on, or ends without being stored.
LEMMA ChainOneWrite ==
    ASSUME ChainInv, NEW i \in DOMAIN writes, Pending(i), NEW w \in Writes,
           writes' = [writes EXCEPT ![i] = w], w.sel = writes[i].sel, w.phase # "stored",
           w.phase \in {"queued", "gone"} \/ Started(i) \/ Turn(i),
           mem' = mem, mem.failed => w.phase \notin {"checking", "checked"}
    PROVE  ChainInv'
<1>1. writes \in Seq(Writes) /\ DOMAIN writes = 1..Len(writes) /\ Len(writes) \in Nat
  BY LenProperties DEF ChainInv
<1>2. writes' \in Seq(Writes) /\ DOMAIN writes' = DOMAIN writes
      /\ writes'[i] = w /\ \A j \in DOMAIN writes : j # i => writes'[j] = writes[j]
  BY <1>1, OneWrite
<1>3. ASSUME NEW j \in DOMAIN writes PROVE Kept(j) /\ Moves(j) /\ (mem'.failed => NoneUnderWay(j)')
  <2>1. CASE j # i
    <3>1. writes'[j] = writes[j]
      BY <1>2, <2>1
    <3>. QED BY <1>2, <3>1 DEF Kept, Moves, Started, NoneUnderWay, ChainInv
  <2>2. CASE j = i
    <3>1. Kept(i) /\ (mem'.failed => NoneUnderWay(i)')
      BY <1>2 DEF Kept, NoneUnderWay
    <3>2. ASSUME Started(i)', ~Started(i) PROVE \A k \in 1..(i - 1) : ~Pending(k)'
      <4>1. Turn(i)
        BY <1>2, <3>2 DEF Started
      <4> SUFFICES ASSUME NEW k \in 1..(i - 1) PROVE ~Pending(k)'
        OBVIOUS
      <4>2. k \in DOMAIN writes /\ k # i
        BY <1>1
      <4>. QED BY <1>2, <4>1, <4>2 DEF Turn, Pending
    <3>3. Moves(i)
      BY <1>2, <3>2 DEF Moves
    <3>. QED BY <2>2, <3>1, <3>3
  <2>. QED BY <2>1, <2>2
<1>4. mem'.failed => \A j \in DOMAIN writes' : NoneUnderWay(j)'
  BY <1>2, <1>3
<1>. QED BY <1>2, <1>3, <1>4, ChainStep

\* All that was stored came before a write that has its turn.
LEMMA StoredBefore ==
    ASSUME ChainInv, NEW i \in DOMAIN writes, Pending(i), NEW j \in DOMAIN writes, writes[j].phase = "stored"
    PROVE  j < i
<1>1. DOMAIN writes = 1..Len(writes) /\ Len(writes) \in Nat
  BY LenProperties DEF ChainInv
<1>2. \A k \in 1..(j - 1) : ~Pending(k)
  BY DEF ChainInv, Started
<1>3. i # j
  BY DEF Pending
<1>4. ~(i < j)
  BY <1>1, <1>2
<1>. QED BY <1>1, <1>3, <1>4

\* The chain after a write that is stored, and whose caller is told.
LEMMA ChainStored ==
    ASSUME ChainInv, NEW i \in DOMAIN writes, Pending(i), Started(i) \/ Turn(i),
           NEW w \in Writes, writes' = [writes EXCEPT ![i] = w],
           w.sel = writes[i].sel, w.phase = "stored",
           mem'.sel = writes[i].sel, mem'.failed = FALSE
    PROVE  ChainInv'
<1>1. writes \in Seq(Writes) /\ DOMAIN writes = 1..Len(writes) /\ Len(writes) \in Nat
  BY LenProperties DEF ChainInv
<1>2. writes' \in Seq(Writes) /\ DOMAIN writes' = DOMAIN writes
      /\ writes'[i] = w /\ \A j \in DOMAIN writes : j # i => writes'[j] = writes[j]
  BY <1>1, OneWrite
<1>3. \A k \in 1..(i - 1) : ~Pending(k)
  BY DEF ChainInv, Turn
<1>4. ASSUME NEW j \in DOMAIN writes', Started(j)', NEW k \in 1..(j - 1) PROVE ~Pending(k)'
  <2>1. j \in DOMAIN writes /\ k \in DOMAIN writes
    BY <1>1, <1>2
  <2>2. CASE k = i
    BY <1>2, <2>2 DEF Pending
  <2>3. CASE k # i
    <3>1. ~Pending(k)
      BY <1>2, <1>3, <1>4, <2>1 DEF ChainInv, Started
    <3>. QED BY <1>2, <2>1, <2>3, <3>1 DEF Pending
  <2>. QED BY <2>2, <2>3
<1>5. ASSUME NEW m \in DOMAIN writes', writes'[m].phase = "stored",
             \A j \in DOMAIN writes' : writes'[j].phase = "stored" => j <= m
      PROVE  mem'.sel = writes'[m].sel
  <2>1. i <= m
    BY <1>2, <1>5
  <2>2. m = i
    <3> SUFFICES ASSUME m # i PROVE FALSE
      OBVIOUS
    <3>1. m < i
      BY <1>2, <1>5, StoredBefore
    <3>. QED BY <1>1, <1>2, <2>1, <3>1
  <2>. QED BY <1>2, <2>2
<1>. QED BY <1>2, <1>4, <1>5 DEF ChainInv

\* The process ends: the pending writes are lost.
Lose ==
    writes' = [j \in DOMAIN writes |->
       IF Pending(j) THEN [writes[j] EXCEPT !.phase = "lost"] ELSE writes[j]]

LEMMA LoseFacts ==
    ASSUME writes \in Seq(Writes), Lose
    PROVE  /\ writes' \in Seq(Writes) /\ DOMAIN writes' = DOMAIN writes
           /\ \A j \in DOMAIN writes : Kept(j) /\ ~Pending(j)' /\ writes'[j].phase # "checking"
                 /\ (Pending(j) => writes'[j].phase = "lost")
<1>1. writes \in [1..Len(writes) -> Writes] /\ Len(writes) \in Nat /\ DOMAIN writes = 1..Len(writes)
  BY LenProperties
<1>2. ASSUME NEW j \in DOMAIN writes
      PROVE  /\ writes'[j] \in Writes /\ writes'[j].sel = writes[j].sel
             /\ writes'[j].phase = IF Pending(j) THEN "lost" ELSE writes[j].phase
  <2>1. writes[j] \in Writes
    BY <1>1
  <2>2. writes'[j] = IF Pending(j) THEN [writes[j] EXCEPT !.phase = "lost"] ELSE writes[j]
    BY DEF Lose
  <2>. QED BY <2>1, <2>2 DEF Writes, Phases
<1>3. DOMAIN writes' = 1..Len(writes)
  BY <1>1 DEF Lose
<1>4. writes' = [j \in 1..Len(writes) |-> writes'[j]]
  BY <1>1 DEF Lose
<1>5. writes' \in [1..Len(writes) -> Writes]
  BY <1>1, <1>2, <1>4
<1>6. writes' \in Seq(Writes)
  BY <1>1, <1>5, SeqDef
<1>. QED BY <1>1, <1>2, <1>3, <1>6 DEF Kept, Pending

\* The chain after the process ended, with nothing saved last or with the choice of
\* a write that was never answered.
LEMMA ChainLost ==
    ASSUME ChainInv, Lose, mem'.sel = mem.sel \/ \E i \in DOMAIN writes : Pending(i) /\ mem'.sel = writes[i].sel
    PROVE  ChainInv'
<1>1. writes \in Seq(Writes) /\ DOMAIN writes = 1..Len(writes) /\ Len(writes) \in Nat
  BY LenProperties DEF ChainInv
<1>2. /\ writes' \in Seq(Writes) /\ DOMAIN writes' = DOMAIN writes
      /\ \A j \in DOMAIN writes : Kept(j) /\ ~Pending(j)' /\ writes'[j].phase # "checking"
            /\ (Pending(j) => writes'[j].phase = "lost")
  BY <1>1, LoseFacts
<1>3. \A j \in DOMAIN writes' : NoneUnderWay(j)'
  BY <1>2 DEF NoneUnderWay, Pending
<1>4. CASE mem'.sel = mem.sel
  <2>1. ASSUME NEW j \in DOMAIN writes PROVE Moves(j)
    <3>1. \A k \in 1..(j - 1) : ~Pending(k)'
      BY <1>1, <1>2
    <3>2. writes'[j].phase = "stored" => writes[j].phase = "stored"
      BY <1>2 DEF Kept
    <3>. QED BY <3>1, <3>2 DEF Moves
  <2>. QED BY <1>2, <1>3, <1>4, <2>1, ChainStep
<1>5. CASE \E i \in DOMAIN writes : Pending(i) /\ mem'.sel = writes[i].sel
  <2>1. PICK i \in DOMAIN writes : Pending(i) /\ mem'.sel = writes[i].sel
    BY <1>5
  <2>2. ASSUME NEW m \in DOMAIN writes', writes'[m].phase = "stored"
        PROVE  writes'[i].phase = "lost" /\ i > m /\ mem'.sel = writes'[i].sel
    <3>1. m \in DOMAIN writes /\ writes[m].phase = "stored"
      BY <1>2, <2>2 DEF Kept
    <3>2. m < i
      BY <2>1, <3>1, StoredBefore
    <3>. QED BY <1>1, <1>2, <2>1, <3>2 DEF Kept
  <2>3. \A j \in DOMAIN writes' : \A k \in 1..(j - 1) : ~Pending(k)'
    BY <1>1, <1>2
  <2>. QED BY <1>2, <1>3, <2>1, <2>2, <2>3 DEF ChainInv, NoneUnderWay
<1>. QED BY <1>4, <1>5

-----------------------------------------------------------------------------
(* The store.                                                              *)

\* What the constructor makes of a file.
LEMMA LoadFacts ==
    ASSUME NEW file \in FileType
    PROVE  /\ load(file) \in Values
           /\ file.kind = "own" => load(file) = [sel |-> file.sel, revision |-> file.revision, failed |-> FALSE]
  BY DEF load, FileType, Values

\* A choice is stored at the next revision, whether or not its caller is told.
LEMMA StoreSaves ==
    ASSUME StoreInv, NEW sel \in SUBSET Wallets, ~mem.failed,
           disk' = [kind |-> "own", revision |-> mem.revision + 1, sel |-> sel],
           mem' = load(disk'),
           answered' \in {answered, answered \cup {[revision |-> mem.revision + 1, sel |-> sel]}}
    PROVE  StoreInv' /\ mem' = [sel |-> sel, revision |-> mem.revision + 1, failed |-> FALSE]
<1>1. mem \in Values /\ disk \in FileType /\ answered \subseteq ToldChoices
  BY LoadFacts DEF StoreInv
<1>2. mem.revision \in Nat /\ mem.revision + 1 \in Nat
  BY <1>1 DEF Values
<1>3. disk' \in FileType
  BY <1>2 DEF FileType
<1>4. mem' = [sel |-> sel, revision |-> mem.revision + 1, failed |-> FALSE]
  BY <1>3, LoadFacts
<1> DEFINE told == [revision |-> mem.revision + 1, sel |-> sel]
<1>5. response' = told /\ told \in ToldChoices /\ told.revision = mem.revision + 1
  BY <1>2, <1>4 DEF response, ToldChoices
<1>6. ASSUME NEW a \in answered' PROVE a = told \/ (a \in answered /\ a.revision < mem.revision + 1 /\ a \in ToldChoices)
  <2>1. CASE a \in answered
    <3>1. a.revision < mem.revision \/ a = response
      BY <2>1 DEF StoreInv
    <3>2. a.revision \in Nat /\ response.revision = mem.revision
      BY <1>1, <2>1 DEF ToldChoices, response
    <3>. QED BY <1>1, <1>2, <2>1, <3>1, <3>2
  <2>. QED BY <1>6, <2>1
<1>7. answered' \subseteq ToldChoices
  BY <1>5, <1>6
<1>8. mem'.revision = mem.revision + 1
  BY <1>4
<1>9. ASSUME NEW a \in answered', NEW b \in answered', a.revision = b.revision PROVE a = b
  <2>1. CASE a \in answered /\ b \in answered
    BY <1>9, <2>1 DEF StoreInv
  <2>2. CASE a = told \/ b = told
    BY <1>2, <1>5, <1>6, <1>9, <2>2
  <2>. QED BY <1>6, <2>1, <2>2
<1>10. \A a \in answered' : a.revision < mem'.revision \/ a = response'
  BY <1>5, <1>6, <1>8
<1>. QED BY <1>3, <1>4, <1>7, <1>9, <1>10 DEF StoreInv

\* The file, or the value, is told.
LEMMA StoreTells ==
    ASSUME StoreInv, UNCHANGED <<disk, mem>>, answered' \in {answered, answered \cup {response}}
    PROVE  StoreInv'
<1>1. mem \in Values /\ answered \subseteq ToldChoices
  BY LoadFacts DEF StoreInv
<1>2. response \in ToldChoices /\ response.revision = mem.revision /\ response' = response
  BY <1>1 DEF Values, ToldChoices, response
<1>3. \A a \in answered' : a.revision < mem'.revision \/ a = response'
  BY <1>2 DEF StoreInv
<1>4. ASSUME NEW a \in answered', NEW b \in answered', a.revision = b.revision PROVE a = b
  <2>1. CASE a \in answered /\ b \in answered
    BY <1>4, <2>1 DEF StoreInv
  <2>2. CASE a = response /\ b \in answered
    <3>1. b.revision \in Nat /\ b.revision = mem.revision
      BY <1>1, <1>2, <1>4, <2>2 DEF ToldChoices
    <3>2. b.revision < mem.revision \/ b = response
      BY <2>2 DEF StoreInv
    <3>. QED BY <2>2, <3>1, <3>2
  <2>3. CASE b = response /\ a \in answered
    <3>1. a.revision \in Nat /\ a.revision = mem.revision
      BY <1>1, <1>2, <1>4, <2>3 DEF ToldChoices
    <3>2. a.revision < mem.revision \/ a = response
      BY <2>3 DEF StoreInv
    <3>. QED BY <2>3, <3>1, <3>2
  <2>. QED BY <2>1, <2>2, <2>3
<1>. QED BY <1>1, <1>2, <1>3, <1>4 DEF StoreInv

-----------------------------------------------------------------------------
(* The refresh and who waits for it.                                       *)

\* What a refresh that is already reading keeps.
SameRound ==
    flight'.phase = "reading" =>
       /\ flight.phase = "reading" /\ flight'.order = flight.order
       /\ flight'.start = flight.start /\ flight'.next = flight.next

\* The round stays as it is when only those who wait for it change.
LEMMA RoundKept ==
    ASSUME RoundInv, UNCHANGED <<listed, cursor, since>>, SameRound
    PROVE  RoundInv'
  BY DEF RoundInv, SameRound, Placed, Position

\* A reader joins.
LEMMA JoinFacts ==
    ASSUME FlightInv, NEW r \in Nat \cup {Poll}, join(r)
    PROVE  FlightInv' /\ SameRound /\ flight'.readers = flight.readers \cup {r}
<1>1. CASE flight.phase = "idle"
  <2>1. flight' = [NoFlight EXCEPT !.phase = "listing", !.readers = {r}] /\ flight.readers = {}
    BY <1>1 DEF join, FlightInv
  <2>2. flight' \in Refreshes /\ flight'.phase = "listing" /\ flight'.readers = {r} /\ flight'.next = 0
    <3>1. NoFlight.next = 0
      BY DEF NoFlight
    <3>. QED BY <2>1, <3>1, NoFlightType DEF Refreshes
  <2>. QED BY <2>1, <2>2 DEF FlightInv, SameRound
<1>2. CASE flight.phase # "idle"
  <2>1. flight' = [flight EXCEPT !.readers = @ \cup {r}] /\ flight \in Refreshes
    BY <1>2 DEF join, FlightInv
  <2>2. /\ flight' \in Refreshes /\ flight'.phase = flight.phase /\ flight'.readers = flight.readers \cup {r}
        /\ flight'.order = flight.order /\ flight'.start = flight.start /\ flight'.next = flight.next
    BY <2>1 DEF Refreshes
  <2>. QED BY <1>2, <2>2 DEF FlightInv, SameRound
<1>. QED BY <1>1, <1>2

\* A reader leaves.
LEMMA LeaveFacts ==
    ASSUME FlightInv, NEW r \in flight.readers, leave(r)
    PROVE  FlightInv' /\ SameRound /\ flight'.readers = flight.readers \ {r}
<1>1. CASE flight.readers \subseteq {r}
  <2>1. flight' = NoFlight
    BY <1>1 DEF leave
  <2>2. NoFlight.phase = "idle" /\ NoFlight.readers = {} /\ NoFlight.next = 0
    BY DEF NoFlight
  <2>. QED BY <1>1, <2>1, <2>2, NoFlightType DEF FlightInv, SameRound
<1>2. CASE ~(flight.readers \subseteq {r})
  <2>1. flight' = [flight EXCEPT !.readers = @ \ {r}] /\ flight \in Refreshes
    BY <1>2 DEF leave, FlightInv
  <2>2. /\ flight' \in Refreshes /\ flight'.phase = flight.phase /\ flight'.readers = flight.readers \ {r}
        /\ flight'.order = flight.order /\ flight'.start = flight.start /\ flight'.next = flight.next
    BY <2>1 DEF Refreshes
  <2>. QED BY <2>2 DEF FlightInv, SameRound
<1>. QED BY <1>1, <1>2

\* The refresh is gone with the process, or has settled.
LEMMA NoFlightFacts ==
    ASSUME flight' = NoFlight
    PROVE  FlightInv' /\ SameRound /\ flight'.readers = {}
<1>1. NoFlight.phase = "idle" /\ NoFlight.readers = {} /\ NoFlight.next = 0
  BY DEF NoFlight
<1>. QED BY <1>1, NoFlightType DEF FlightInv, SameRound

-----------------------------------------------------------------------------
(* The inductive invariant, and one lemma for each kind of step.           *)

\* The inductive invariant.
IInv == StoreInv /\ ChainInv /\ ReadersInv /\ RoundInv

\* What the invariant says of one write.
LEMMA WriteType ==
    ASSUME ChainInv, NEW i \in DOMAIN writes
    PROVE  writes[i] \in Writes /\ i \in Nat /\ writes \in Seq(Writes) /\ DOMAIN writes = 1..Len(writes)
  BY LenProperties DEF ChainInv

\* The initial states satisfy the invariant.
LEMMA InitInvariant == Init => IInv
<1> SUFFICES ASSUME Init PROVE IInv
  OBVIOUS
<1>1. StoreInv
  <2>1. disk \in FileType
    BY WalletServiceAssumption DEF Init, FileType
  <2>. QED BY <2>1 DEF Init, StoreInv, ToldChoices
<1>2. ChainInv
  <2>1. writes \in Seq(Writes) /\ Len(writes) = 0
    BY EmptySeq DEF Init
  <2>2. DOMAIN writes = 1..0
    BY <2>1, LenProperties
  <2>3. \A i \in DOMAIN writes : FALSE
    BY <2>2
  <2>. QED BY <2>1, <2>3 DEF ChainInv
<1>3. ReadersInv
  <2>1. flight = NoFlight /\ NoFlight.phase = "idle" /\ NoFlight.readers = {} /\ NoFlight.next = 0
    BY DEF Init, NoFlight
  <2>2. Checking = {}
    <3>1. writes \in Seq(Writes) /\ Len(writes) = 0
      BY EmptySeq DEF Init
    <3>2. DOMAIN writes = 1..0
      BY <3>1, LenProperties
    <3>. QED BY <3>2 DEF Checking
  <2>3. catalog \in [kept : BOOLEAN, eligible : SUBSET Wallets]
    BY DEF Init, NoCatalog
  <2>. QED BY <2>1, <2>2, <2>3, NoFlightType DEF ReadersInv, FlightInv
<1>4. RoundInv
  <2>1. flight.phase # "reading"
    BY DEF Init, NoFlight
  <2>. QED BY <2>1, SubsetCount DEF Init, RoundInv
<1>. QED BY <1>1, <1>2, <1>3, <1>4 DEF IInv

\* The caller's state is the write's: what Ends makes of a write.
LEMMA EndsFacts ==
    ASSUME ChainInv, NEW i \in DOMAIN writes, NEW phase \in Phases, Ends(i, phase)
    PROVE  \E w \in Writes : w.sel = writes[i].sel /\ w.phase = phase /\ writes' = [writes EXCEPT ![i] = w]
<1> DEFINE w == [writes[i] EXCEPT !.phase = phase, !.eligible = {}, !.left = FALSE]
<1>1. writes[i] \in Writes
  BY WriteType
<1>2. w \in Writes /\ w.sel = writes[i].sel /\ w.phase = phase
  BY <1>1 DEF Writes
<1>3. writes' = [writes EXCEPT ![i] = w]
  BY DEF Ends
<1>. QED BY <1>2, <1>3

\* A write that ends without being stored.
LEMMA EndStep ==
    ASSUME IInv, NEW i \in DOMAIN writes, Pending(i), writes[i].phase # "checking", Turn(i) \/ Started(i),
           NEW phase \in {"refused", "failed", "gone"}, Ends(i, phase), UNCHANGED <<store, reads, crashes>>
    PROVE  IInv'
<1>1. PICK w \in Writes : w.sel = writes[i].sel /\ w.phase = phase /\ writes' = [writes EXCEPT ![i] = w]
  BY EndsFacts DEF Phases, IInv
<1>2. writes \in Seq(Writes) /\ UNCHANGED <<disk, mem, answered, flight, catalog, cursor, listed, since>>
  BY DEF IInv, ChainInv, store, reads
<1>3. ChainInv'
  BY <1>1, <1>2, ChainOneWrite DEF IInv
<1>4. Checking' = Checking
  <2>1. DOMAIN writes' = DOMAIN writes /\ writes'[i] = w /\ \A j \in DOMAIN writes : j # i => writes'[j] = writes[j]
    BY <1>1, <1>2, OneWrite
  <2>. QED BY <1>1, <2>1 DEF Checking
<1>5. StoreInv' /\ ReadersInv' /\ RoundInv'
  BY <1>2, <1>4 DEF IInv, StoreInv, response, ReadersInv, FlightInv, RoundInv
<1>. QED BY <1>3, <1>5 DEF IInv

\* A write of the store: it fails, or it is stored, or stored by a process that dies.
LEMMA SaveStep ==
    ASSUME IInv, NEW i \in DOMAIN writes, Pending(i), writes[i].phase # "checking", Turn(i) \/ Started(i),
           ~mem.failed, save(i)
    PROVE  IInv'
<1>1. writes[i] \in Writes /\ writes \in Seq(Writes) /\ writes[i].sel \in SUBSET Wallets
  BY WriteType DEF IInv, Writes
<1>2. mem \in Values /\ mem.revision \in Nat
  BY LoadFacts DEF IInv, StoreInv, Values
<1> DEFINE file == [kind |-> "own", revision |-> mem.revision + 1, sel |-> writes[i].sel]
<1>3. file \in FileType /\ load(file) = [sel |-> writes[i].sel, revision |-> mem.revision + 1, failed |-> FALSE]
  <2>1. file \in FileType
    BY <1>1, <1>2 DEF FileType
  <2>. QED BY <2>1, LoadFacts
<1>4. CASE saveFails(i)
  BY <1>4, EndStep DEF saveFails
<1>5. CASE /\ disk' = savedFile(i)
           /\ mem' = [mem EXCEPT !.sel = writes[i].sel, !.revision = @ + 1]
           /\ Ends(i, "stored")
           /\ answered' = answered \cup {[revision |-> mem'.revision, sel |-> mem'.sel]}
           /\ UNCHANGED <<reads, crashes>>
  <2>1. disk' = file
    BY <1>5 DEF savedFile
  <2>2. mem' = load(disk') /\ mem'.revision = mem.revision + 1 /\ mem'.sel = writes[i].sel /\ mem'.failed = FALSE
    <3>1. mem' = [mem EXCEPT !.sel = writes[i].sel, !.revision = mem.revision + 1]
      BY <1>5
    <3>2. mem' = [sel |-> writes[i].sel, revision |-> mem.revision + 1, failed |-> FALSE]
      <4>1. mem' \in Values /\ mem'.sel = writes[i].sel /\ mem'.revision = mem.revision + 1 /\ mem'.failed = mem.failed
        <5> DEFINE r == mem.revision + 1
        <5>1. r \in Nat
          BY <1>2
        <5> HIDE DEF r
        <5>2. mem' = [mem EXCEPT !.sel = writes[i].sel, !.revision = r]
          BY <3>1 DEF r
        <5>3. mem' \in Values
          BY <1>1, <1>2, <5>1, <5>2 DEF Values
        <5>4. mem'.sel = writes[i].sel
          BY <1>2, <5>2 DEF Values
        <5>5. mem'.revision = r
          BY <1>2, <5>2 DEF Values
        <5>6. mem'.failed = mem.failed
          BY <1>2, <5>2 DEF Values
        <5>. QED BY <5>3, <5>4, <5>5, <5>6 DEF r
      <4>2. mem'.failed = FALSE
        BY <1>2, <4>1 DEF Values
      <4>3. mem' = [sel |-> mem'.sel, revision |-> mem'.revision, failed |-> mem'.failed]
        BY <4>1 DEF Values
      <4>. QED BY <4>1, <4>2, <4>3, Zenon
    <3>3. load(disk') = [sel |-> writes[i].sel, revision |-> mem.revision + 1, failed |-> FALSE]
      BY <1>3, <2>1
    <3>. QED BY <3>2, <3>3
  <2>3. answered' = answered \cup {[revision |-> mem.revision + 1, sel |-> writes[i].sel]}
    BY <1>5, <2>2
  <2>4. StoreInv'
    BY <1>1, <2>1, <2>2, <2>3, StoreSaves DEF IInv
  <2>5. PICK w \in Writes : w.sel = writes[i].sel /\ w.phase = "stored" /\ writes' = [writes EXCEPT ![i] = w]
    BY <1>5, EndsFacts DEF Phases, IInv
  <2>6. ChainInv'
    BY <2>2, <2>5, ChainStored DEF IInv
  <2>7. Checking' = Checking
    <3>1. DOMAIN writes' = DOMAIN writes /\ writes'[i] = w /\ \A j \in DOMAIN writes : j # i => writes'[j] = writes[j]
      BY <1>1, <2>5, OneWrite
    <3>. QED BY <2>5, <3>1 DEF Checking
  <2>8. UNCHANGED <<flight, catalog, cursor, listed, since>>
    BY <1>5 DEF reads
  <2>9. ReadersInv' /\ RoundInv'
    BY <2>7, <2>8 DEF IInv, ReadersInv, FlightInv, RoundInv
  <2>. QED BY <2>4, <2>6, <2>9 DEF IInv
<1>6. CASE disk' = savedFile(i) /\ restart(savedFile(i)) /\ UNCHANGED answered
  <2>1. disk' = file /\ mem' = load(file) /\ answered' = answered
    BY <1>6 DEF savedFile, restart
  <2>2. mem'.sel = writes[i].sel
    BY <1>3, <2>1
  <2>3. StoreInv'
    BY <1>1, <2>1, StoreSaves DEF IInv
  <2>4. Lose /\ flight' = NoFlight /\ catalog' = NoCatalog
    BY <1>6 DEF restart, Lose
  <2>5. ChainInv'
    BY <2>2, <2>4, ChainLost DEF IInv
  <2>6. ReadersInv'
    <3>1. Checking' = {}
      BY <1>1, <2>4, LoseFacts DEF Checking
    <3>2. catalog' \in [kept : BOOLEAN, eligible : SUBSET Wallets]
      BY <2>4 DEF NoCatalog
    <3>. QED BY <2>4, <3>1, <3>2, NoFlightFacts DEF ReadersInv
  <2>7. RoundInv'
    <3>1. listed' = {} /\ cursor' = 0 /\ since' = [w \in Wallets |-> 0] /\ flight'.phase = "idle"
      BY <1>6, <2>4 DEF restart, NoFlight
    <3>. QED BY <3>1, SubsetCount DEF RoundInv
  <2>. QED BY <2>3, <2>5, <2>6, <2>7 DEF IInv
<1>. QED BY <1>4, <1>5, <1>6 DEF save

\* The process ends between two steps.
LEMMA CrashStep == ASSUME IInv, Crash PROVE IInv'
<1>1. disk \in FileType /\ mem = load(disk) /\ mem' = load(disk) /\ disk' = disk /\ answered' = answered
  BY DEF IInv, StoreInv, Crash, restart
<1>2. StoreInv'
  BY <1>1, StoreTells DEF IInv
<1>3. Lose /\ flight' = NoFlight /\ catalog' = NoCatalog
  BY DEF Crash, restart, Lose
<1>4. ChainInv'
  BY <1>1, <1>3, ChainLost DEF IInv
<1>5. ReadersInv'
  <2>1. Checking' = {}
    BY <1>3, LoseFacts DEF Checking, IInv, ChainInv
  <2>2. catalog' \in [kept : BOOLEAN, eligible : SUBSET Wallets]
    BY <1>3 DEF NoCatalog
  <2>. QED BY <1>3, <2>1, <2>2, NoFlightFacts DEF ReadersInv
<1>6. RoundInv'
  <2>1. listed' = {} /\ cursor' = 0 /\ since' = [w \in Wallets |-> 0] /\ flight'.phase = "idle"
    BY <1>3 DEF Crash, restart, NoFlight
  <2>. QED BY <2>1, SubsetCount DEF RoundInv
<1>. QED BY <1>2, <1>4, <1>5, <1>6 DEF IInv

\* A write arrives at the end of the chain.
LEMMA ArriveStep == ASSUME IInv, NEW sel \in Selections, Arrive(sel) PROVE IInv'
<1> DEFINE w == [phase |-> "queued", sel |-> sel, left |-> FALSE, eligible |-> {}]
<1>1. writes \in Seq(Writes) /\ DOMAIN writes = 1..Len(writes) /\ Len(writes) \in Nat
  BY LenProperties DEF IInv, ChainInv
<1>2. w \in Writes /\ w.phase = "queued"
  BY WalletServiceAssumption DEF Writes, Phases
<1>3. writes' = Append(writes, w) /\ UNCHANGED <<disk, mem, answered, flight, catalog, cursor, listed, since>>
  BY DEF Arrive, store, reads
<1> HIDE DEF w
<1>4. /\ writes' \in Seq(Writes) /\ Len(writes') = Len(writes) + 1
      /\ writes'[Len(writes) + 1] = w /\ \A j \in 1..Len(writes) : writes'[j] = writes[j]
  BY <1>1, <1>2, <1>3, AppendProperties
<1>5. DOMAIN writes' = 1..(Len(writes) + 1)
  BY <1>4, LenProperties
<1>6. ASSUME NEW j \in DOMAIN writes PROVE Kept(j) /\ Moves(j) /\ j \in DOMAIN writes' /\ writes'[j] = writes[j]
  BY <1>1, <1>4, <1>5 DEF Kept, Moves, Started
<1>7. ASSUME NEW j \in DOMAIN writes', j \notin DOMAIN writes PROVE writes'[j] = w
  <2>1. j = Len(writes) + 1
    BY <1>1, <1>5, <1>7
  <2>. QED BY <1>4, <2>1
<1>8. ChainInv'
  <2>1. \A j \in DOMAIN writes' : Fresh(j) \/ (j \in DOMAIN writes /\ Moves(j))
    BY <1>2, <1>6, <1>7 DEF Fresh
  <2>2. mem'.failed => \A j \in DOMAIN writes' : NoneUnderWay(j)'
    BY <1>2, <1>3, <1>6, <1>7 DEF NoneUnderWay, IInv, ChainInv
  <2>. QED BY <1>3, <1>4, <1>6, <2>1, <2>2, ChainStep DEF IInv
<1>9. Checking' = Checking
  BY <1>2, <1>6, <1>7 DEF Checking
<1>10. StoreInv' /\ ReadersInv' /\ RoundInv'
  BY <1>3, <1>9 DEF IInv, StoreInv, response, ReadersInv, FlightInv, RoundInv
<1>. QED BY <1>8, <1>10 DEF IInv

\* A write is given the snapshot, or waits for it, when its turn has come.
LEMMA StartStep == ASSUME IInv, NEW i \in DOMAIN writes, Start(i) PROVE IInv'
<1>1. writes[i] \in Writes /\ i \in Nat /\ writes \in Seq(Writes)
  BY WriteType DEF IInv
<1>2. writes[i].phase = "queued" /\ Turn(i) /\ Pending(i) /\ i \notin Checking
  BY DEF Start, Pending, Checking
<1>3. CASE /\ writes[i].left \/ mem.failed
           /\ Ends(i, IF writes[i].left THEN "gone" ELSE "failed")
           /\ UNCHANGED <<store, reads, crashes>>
  <2>1. CASE writes[i].left
    BY <1>2, <1>3, <2>1, EndStep
  <2>2. CASE ~writes[i].left
    BY <1>2, <1>3, <2>2, EndStep
  <2>. QED BY <2>1, <2>2
<1>4. CASE ~writes[i].left /\ ~mem.failed /\ additions(i) = {} /\ save(i)
  BY <1>2, <1>4, SaveStep
<1>5. CASE /\ ~writes[i].left /\ ~mem.failed
           /\ IF catalog.kept
              THEN /\ writes' = [writes EXCEPT ![i].phase = "checked", ![i].eligible = catalog.eligible]
                   /\ UNCHANGED flight
              ELSE /\ Ends(i, "checking")
                   /\ join(i)
           /\ UNCHANGED <<store, catalog, cursor, listed, since, crashes>>
  <2>1. UNCHANGED <<disk, mem, answered, catalog, cursor, listed, since>> /\ ~mem.failed
    BY <1>5 DEF store
  <2>2. CASE catalog.kept
    <3> DEFINE w == [writes[i] EXCEPT !.phase = "checked", !.eligible = catalog.eligible]
    <3>1. w \in Writes /\ w.sel = writes[i].sel /\ w.phase = "checked"
      BY <1>1 DEF Writes, Phases, IInv, ReadersInv
    <3>2. writes' = [writes EXCEPT ![i] = w] /\ flight' = flight
      BY <1>5, <2>2
    <3> HIDE DEF w
    <3>3. ChainInv'
      BY <1>2, <2>1, <3>1, <3>2, ChainOneWrite DEF IInv
    <3>4. Checking' = Checking
      <4>1. DOMAIN writes' = DOMAIN writes /\ writes'[i] = w /\ \A j \in DOMAIN writes : j # i => writes'[j] = writes[j]
        BY <1>1, <3>1, <3>2, OneWrite
      <4>. QED BY <1>2, <3>1, <4>1 DEF Checking
    <3>5. StoreInv' /\ ReadersInv' /\ RoundInv'
      BY <2>1, <3>2, <3>4 DEF IInv, StoreInv, response, ReadersInv, FlightInv, RoundInv
    <3>. QED BY <3>3, <3>5 DEF IInv
  <2>3. CASE ~catalog.kept
    <3>1. Ends(i, "checking") /\ join(i)
      BY <1>5, <2>3
    <3>2. PICK w \in Writes : w.sel = writes[i].sel /\ w.phase = "checking" /\ writes' = [writes EXCEPT ![i] = w]
      BY <3>1, EndsFacts DEF Phases, IInv
    <3>3. ChainInv'
      BY <1>2, <2>1, <3>2, ChainOneWrite DEF IInv
    <3>4. FlightInv' /\ SameRound /\ flight'.readers = flight.readers \cup {i}
      BY <1>1, <3>1, JoinFacts DEF IInv, ReadersInv
    <3>5. Checking' = Checking \cup {i}
      <4>1. DOMAIN writes' = DOMAIN writes /\ writes'[i] = w /\ \A j \in DOMAIN writes : j # i => writes'[j] = writes[j]
        BY <1>1, <3>2, OneWrite
      <4>. QED BY <3>2, <4>1 DEF Checking
    <3>6. i # Poll
      BY <1>1, WalletServiceAssumption
    <3>7. ReadersInv'
      BY <2>1, <3>4, <3>5, <3>6 DEF IInv, ReadersInv
    <3>8. StoreInv'
      BY <2>1 DEF IInv, StoreInv, response
    <3>9. RoundInv'
      BY <2>1, <3>4, RoundKept DEF IInv
    <3>. QED BY <3>3, <3>7, <3>8, <3>9 DEF IInv
  <2>. QED BY <2>2, <2>3
<1>. QED BY <1>3, <1>4, <1>5 DEF Start

\* A write that has its snapshot is refused or saved.
LEMMA DecideStep == ASSUME IInv, NEW i \in DOMAIN writes, Decide(i) PROVE IInv'
<1>1. writes[i].phase = "checked" /\ Pending(i) /\ Started(i) /\ ~mem.failed
  BY DEF Decide, Pending, Started, IInv, ChainInv
<1>2. ASSUME NEW phase \in {"gone", "refused"}, Ends(i, phase), UNCHANGED <<store, reads, crashes>>
      PROVE  IInv'
  BY <1>1, <1>2, EndStep
<1>3. ASSUME save(i) PROVE IInv'
  BY <1>1, <1>3, SaveStep
<1>. QED BY <1>2, <1>3 DEF Decide

\* The caller of a write leaves.
LEMMA LeaveStep == ASSUME IInv, NEW i \in DOMAIN writes, Leave(i) PROVE IInv'
<1>1. writes[i] \in Writes /\ i \in Nat /\ writes \in Seq(Writes) /\ i # Poll
  BY WriteType, WalletServiceAssumption DEF IInv
<1>2. Pending(i) /\ UNCHANGED <<disk, mem, answered, catalog, cursor, listed, since>>
  BY DEF Leave, store
<1>3. i \in flight.readers <=> i \in Checking
  BY <1>1 DEF IInv, ReadersInv
<1>4. StoreInv'
  BY <1>2 DEF IInv, StoreInv, response
<1>5. CASE writes[i].phase = "checking"
  <2>1. Ends(i, "gone") /\ leave(i) /\ i \in flight.readers
    BY <1>3, <1>5 DEF Leave, Checking
  <2>2. PICK w \in Writes : w.sel = writes[i].sel /\ w.phase = "gone" /\ writes' = [writes EXCEPT ![i] = w]
    BY <2>1, EndsFacts DEF Phases, IInv
  <2>3. ChainInv'
    BY <1>2, <2>2, ChainOneWrite DEF IInv
  <2>4. FlightInv' /\ SameRound /\ flight'.readers = flight.readers \ {i}
    BY <2>1, LeaveFacts DEF IInv, ReadersInv
  <2>5. Checking' = Checking \ {i}
    <3>1. DOMAIN writes' = DOMAIN writes /\ writes'[i] = w /\ \A j \in DOMAIN writes : j # i => writes'[j] = writes[j]
      BY <1>1, <2>2, OneWrite
    <3>. QED BY <2>2, <3>1 DEF Checking
  <2>6. ReadersInv' /\ RoundInv'
    BY <1>2, <2>4, <2>5, RoundKept DEF IInv, ReadersInv
  <2>. QED BY <1>4, <2>3, <2>6 DEF IInv
<1>6. CASE writes[i].phase # "checking"
  <2> DEFINE w == [writes[i] EXCEPT !.left = TRUE]
  <2>1. w \in Writes /\ w.sel = writes[i].sel /\ w.phase = writes[i].phase
    BY <1>1 DEF Writes
  <2>2. writes' = [writes EXCEPT ![i] = w] /\ flight' = flight
    BY <1>3, <1>6 DEF Leave, Checking
  <2> HIDE DEF w
  <2>3. ChainInv'
    <3>1. w.phase # "stored" /\ (w.phase \in {"queued", "gone"} \/ Started(i))
      BY <1>2, <2>1 DEF Pending, Started
    <3>2. mem.failed => w.phase \notin {"checking", "checked"}
      BY <2>1 DEF IInv, ChainInv
    <3>. QED BY <1>2, <2>1, <2>2, <3>1, <3>2, ChainOneWrite DEF IInv
  <2>4. Checking' = Checking
    <3>1. DOMAIN writes' = DOMAIN writes /\ writes'[i] = w /\ \A j \in DOMAIN writes : j # i => writes'[j] = writes[j]
      BY <1>1, <2>1, <2>2, OneWrite
    <3>. QED BY <2>1, <3>1 DEF Checking
  <2>5. ReadersInv' /\ RoundInv'
    BY <1>2, <2>2, <2>4 DEF IInv, ReadersInv, FlightInv, RoundInv
  <2>. QED BY <1>4, <2>3, <2>5 DEF IInv
<1>. QED BY <1>5, <1>6

\* The refresh settles: the writes that waited for it have the snapshot.
LEMMA SettleFacts ==
    ASSUME StoreInv, ChainInv, ReadersInv, NEW f \in Refreshes, f.readers = flight.readers, finish(f),
           UNCHANGED store
    PROVE  StoreInv' /\ ChainInv' /\ ReadersInv'
<1>1. UNCHANGED <<disk, mem, answered>> /\ writes \in Seq(Writes) /\ DOMAIN writes = 1..Len(writes)
      /\ Len(writes) \in Nat /\ writes \in [1..Len(writes) -> Writes]
  BY LenProperties DEF ChainInv, store
<1>2. eligible(f.rows) \in SUBSET Wallets
  BY EligibleType
<1>3. flight' = NoFlight /\ catalog' = [kept |-> TRUE, eligible |-> eligible(f.rows)]
      /\ writes' = [i \in DOMAIN writes |->
           IF i \in f.readers THEN [writes[i] EXCEPT !.phase = "checked", !.eligible = eligible(f.rows)]
           ELSE writes[i]]
  BY DEF finish
<1>4. ASSUME NEW i \in DOMAIN writes
      PROVE  /\ writes'[i] \in Writes /\ writes'[i].sel = writes[i].sel
             /\ writes'[i].phase = IF i \in Checking THEN "checked" ELSE writes[i].phase
  <2>1. writes[i] \in Writes /\ i # Poll
    BY <1>1, WalletServiceAssumption
  <2>2. i \in f.readers <=> i \in Checking
    BY <2>1 DEF ReadersInv
  <2>3. CASE i \in Checking
    <3>1. writes'[i] = [writes[i] EXCEPT !.phase = "checked", !.eligible = eligible(f.rows)]
      BY <1>3, <2>2, <2>3
    <3>. QED BY <1>2, <2>1, <2>3, <3>1 DEF Writes, Phases
  <2>4. CASE i \notin Checking
    <3>1. writes'[i] = writes[i]
      BY <1>3, <2>2, <2>4
    <3>. QED BY <2>1, <2>4, <3>1
  <2>. QED BY <2>3, <2>4
<1>5. writes' \in Seq(Writes) /\ DOMAIN writes' = DOMAIN writes
  <2>1. DOMAIN writes' = 1..Len(writes) /\ writes' = [i \in 1..Len(writes) |-> writes'[i]]
    BY <1>1, <1>3
  <2>2. writes' \in [1..Len(writes) -> Writes]
    BY <1>1, <1>4, <2>1
  <2>. QED BY <1>1, <2>1, <2>2, SeqDef
<1>6. ASSUME NEW i \in DOMAIN writes PROVE Kept(i) /\ Moves(i) /\ (mem'.failed => NoneUnderWay(i)')
  <2>1. CASE i \in Checking
    BY <1>1, <1>4, <1>5, <2>1 DEF Kept, Moves, NoneUnderWay, Checking, Pending, Started, ChainInv
  <2>2. CASE i \notin Checking
    <3>1. writes'[i].phase = writes[i].phase
      BY <1>4, <2>2
    <3>. QED BY <1>1, <1>4, <1>5, <3>1 DEF Kept, Moves, NoneUnderWay, Started, ChainInv
  <2>. QED BY <2>1, <2>2
<1>7. ChainInv'
  <2>1. \A j \in DOMAIN writes' : Fresh(j) \/ (j \in DOMAIN writes /\ Moves(j))
    BY <1>5, <1>6
  <2>2. mem'.failed => \A j \in DOMAIN writes' : NoneUnderWay(j)'
    BY <1>5, <1>6
  <2>. QED BY <1>1, <1>5, <1>6, <2>1, <2>2, ChainStep
<1>8. ReadersInv'
  <2>1. Checking' = {}
    BY <1>4, <1>5 DEF Checking
  <2>2. catalog' \in [kept : BOOLEAN, eligible : SUBSET Wallets]
    BY <1>2, <1>3
  <2>. QED BY <1>3, <2>1, <2>2, NoFlightFacts DEF ReadersInv
<1>9. StoreInv'
  BY <1>1 DEF StoreInv, response
<1>. QED BY <1>7, <1>8, <1>9

\* A step of a refresh that reads.
LEMMA ReadsStep ==
    ASSUME StoreInv, ChainInv, ReadersInv, NEW f, Reads(f), UNCHANGED store
    PROVE  StoreInv' /\ ChainInv' /\ ReadersInv'
<1>1. f \in Refreshes /\ f.readers = flight.readers /\ f.phase = "reading"
  BY DEF Reads
<1>2. CASE finish(f)
  BY <1>1, <1>2, SettleFacts
<1>3. CASE flight' = f /\ UNCHANGED <<catalog, writes>>
  <2>1. UNCHANGED <<disk, mem, answered, catalog, writes>> /\ Checking' = Checking
    BY <1>3 DEF store, Checking
  <2>2. ReadersInv'
    BY <1>1, <1>3, <2>1 DEF ReadersInv, FlightInv
  <2>3. StoreInv' /\ ChainInv'
    BY <2>1 DEF StoreInv, response, ChainInv, Started, Pending
  <2>. QED BY <2>2, <2>3
<1>. QED BY <1>2, <1>3 DEF Reads

\* Somebody who only shows the catalogue joins or leaves.
LEMMA ShowSteps == ASSUME IInv, Show \/ ShowLeaves PROVE IInv'
<1>1. UNCHANGED <<disk, mem, answered, writes, catalog, cursor, listed, since>> /\ Checking' = Checking
  BY DEF Show, ShowLeaves, store, Checking
<1>2. FlightInv' /\ SameRound /\ flight'.readers \ {Poll} = flight.readers \ {Poll}
  <2>1. CASE Show
    BY <2>1, JoinFacts DEF Show, IInv, ReadersInv
  <2>2. CASE ShowLeaves
    BY <2>2, LeaveFacts DEF ShowLeaves, IInv, ReadersInv
  <2>. QED BY <2>1, <2>2
<1>3. ReadersInv' /\ RoundInv'
  BY <1>1, <1>2, RoundKept DEF IInv, ReadersInv
<1>4. StoreInv' /\ ChainInv'
  BY <1>1 DEF IInv, StoreInv, response, ChainInv, Started, Pending
<1>. QED BY <1>3, <1>4 DEF IInv

\* The refresh is listed, read, or settled by its budget.
LEMMA RefreshSteps ==
    ASSUME IInv, \/ \E names \in Catalogs : List(names)
                 \/ \E k \in Workers, state \in Outcomes : ReadEnds(k, state)
                 \/ BudgetEnds
    PROVE  IInv'
<1>1. CASE \E names \in Catalogs : List(names)
  <2>1. PICK names \in Catalogs : List(names)
    BY <1>1
  <2>2. names \in SUBSET Wallets /\ flight.phase = "listing" /\ flight \in Refreshes /\ flight.next = 0
        /\ UNCHANGED store
    BY <2>1, WalletServiceAssumption DEF List, IInv, ReadersInv, FlightInv
  <2>3. RoundInv' /\ \E f : Reads(f)
    BY <2>1, <2>2, ListSteps DEF IInv
  <2>. QED BY <2>2, <2>3, ReadsStep DEF IInv
<1>2. CASE \E k \in Workers, state \in Outcomes : ReadEnds(k, state)
  <2>1. PICK k \in Workers, state \in Outcomes : ReadEnds(k, state)
    BY <1>2
  <2>2. state \in RowStates /\ flight \in Refreshes /\ UNCHANGED store
    BY <2>1, WalletServiceAssumption DEF ReadEnds, IInv, ReadersInv, FlightInv
  <2>3. RoundInv' /\ \E f : Reads(f)
    BY <2>1, <2>2, ReadSteps DEF IInv
  <2>. QED BY <2>2, <2>3, ReadsStep DEF IInv
<1>3. CASE BudgetEnds
  <2>1. flight \in Refreshes /\ finish(flight) /\ UNCHANGED store /\ UNCHANGED <<listed, cursor, since>>
    BY <1>3 DEF BudgetEnds, IInv, ReadersInv, FlightInv
  <2>2. SameRound
    BY <2>1, NoFlightFacts DEF finish
  <2>3. RoundInv'
    BY <2>1, <2>2, RoundKept DEF IInv
  <2>. QED BY <2>1, <2>3, SettleFacts DEF IInv
<1>. QED BY <1>1, <1>2, <1>3

\* A client reads its preferences, or the catalogue expires.
LEMMA OtherSteps == ASSUME IInv, ReadPreferences \/ Expire PROVE IInv'
<1>1. CASE ReadPreferences
  <2>1. UNCHANGED <<disk, mem, writes, flight, catalog, cursor, listed, since>>
        /\ answered' \in {answered, answered \cup {response}} /\ Checking' = Checking
    BY <1>1 DEF ReadPreferences, reads, Checking
  <2>2. StoreInv'
    BY <2>1, StoreTells DEF IInv
  <2>3. ChainInv' /\ ReadersInv' /\ RoundInv'
    BY <2>1 DEF IInv, ChainInv, Started, Pending, ReadersInv, FlightInv, RoundInv
  <2>. QED BY <2>2, <2>3 DEF IInv
<1>2. CASE Expire
  <2>1. UNCHANGED <<disk, mem, answered, writes, flight, cursor, listed, since>> /\ catalog' = NoCatalog
        /\ Checking' = Checking
    BY <1>2 DEF Expire, store, Checking
  <2>2. catalog' \in [kept : BOOLEAN, eligible : SUBSET Wallets]
    BY <2>1 DEF NoCatalog
  <2>. QED BY <2>1, <2>2 DEF IInv, StoreInv, response, ChainInv, Started, Pending, ReadersInv, FlightInv, RoundInv
<1>. QED BY <1>1, <1>2

\* Every step keeps it.
LEMMA NextInvariant == IInv /\ [Next]_vars => IInv'
<1> SUFFICES ASSUME IInv, [Next]_vars PROVE IInv'
  OBVIOUS
<1>1. ASSUME NEW sel \in Selections, Arrive(sel) PROVE IInv'
  BY <1>1, ArriveStep
<1>2. ASSUME NEW i \in DOMAIN writes, Start(i) \/ Decide(i) \/ Leave(i) PROVE IInv'
  BY <1>2, StartStep, DecideStep, LeaveStep
<1>3. ASSUME ReadPreferences \/ Show \/ ShowLeaves \/ Expire PROVE IInv'
  BY <1>3, ShowSteps, OtherSteps
<1>4. ASSUME \/ \E names \in Catalogs : List(names)
             \/ \E k \in Workers, state \in Outcomes : ReadEnds(k, state)
             \/ BudgetEnds
      PROVE IInv'
  BY <1>4, RefreshSteps
<1>5. ASSUME Crash PROVE IInv'
  BY <1>5, CrashStep
<1>6. ASSUME UNCHANGED vars PROVE IInv'
  <2>1. UNCHANGED <<disk, mem, answered, writes, flight, catalog, cursor, listed, since>> /\ Checking' = Checking
    BY <1>6 DEF vars, Checking
  <2>. QED BY <2>1 DEF IInv, StoreInv, response, ChainInv, Started, Pending, ReadersInv, FlightInv, RoundInv
<1>. QED BY <1>1, <1>2, <1>3, <1>4, <1>5, <1>6 DEF Next

\* The invariant holds of every behaviour, for every set of wallets and of files.
THEOREM WalletInvariance == Spec => []IInv
<1>1. Init => IInv
  BY InitInvariant
<1>2. IInv /\ [Next]_vars => IInv'
  BY NextInvariant
<1>. QED BY <1>1, <1>2, PTL DEF Spec

\* The types of the store, the chain and the cursor; and the writes that wait are
\* those the refresh will tell.
THEOREM WalletTypes == Spec => []TypeOK
<1>1. IInv => TypeOK
  <2> SUFFICES ASSUME IInv PROVE TypeOK
    OBVIOUS
  <2>1. mem \in [sel : SUBSET Wallets, revision : Nat, failed : BOOLEAN]
    BY LoadFacts DEF IInv, StoreInv, Values
  <2>2. ASSUME NEW i \in DOMAIN writes
        PROVE  writes[i].phase \in {"queued", "checking", "checked", "stored", "refused", "failed", "gone", "lost"}
    BY WriteType DEF IInv, Writes, Phases
  <2>3. cursor \in 0..Cardinality(Wallets)
    BY SubsetCount DEF IInv, RoundInv
  <2>4. {i \in DOMAIN writes : writes[i].phase = "checking"} = flight.readers \ {Poll}
    BY DEF IInv, ReadersInv, Checking
  <2>. QED BY <2>1, <2>2, <2>3, <2>4 DEF TypeOK
<1>. QED BY <1>1, WalletInvariance, PTL

\* No client is told a choice that the file then loses, or two under one revision.
THEOREM AnswersStand == Spec => []AnswersPersist
<1>1. IInv => AnswersPersist
  <2> SUFFICES ASSUME IInv, NEW a \in answered
               PROVE  /\ disk.kind = "own" =>
                           a.revision < disk.revision \/ a = [revision |-> disk.revision, sel |-> disk.sel]
                      /\ \A b \in answered : a.revision = b.revision => a = b
    BY DEF AnswersPersist
  <2>1. a.revision < mem.revision \/ a = response
    BY DEF IInv, StoreInv
  <2>2. disk.kind = "own" => mem = [sel |-> disk.sel, revision |-> disk.revision, failed |-> FALSE]
    BY LoadFacts DEF IInv, StoreInv
  <2>3. disk.kind = "own" => mem.revision = disk.revision /\ response = [revision |-> disk.revision, sel |-> disk.sel]
    BY <2>2 DEF response
  <2>4. \A b \in answered : a.revision = b.revision => a = b
    BY DEF IInv, StoreInv
  <2>. QED BY <2>1, <2>3, <2>4
<1>. QED BY <1>1, WalletInvariance, PTL

\* The last write that succeeded, in the order the writes came, is the one in force.
THEOREM LastSuccess == Spec => []LastSuccessStands
<1>1. IInv => LastSuccessStands
  <2> DEFINE stored == {i \in DOMAIN writes : writes[i].phase = "stored"}
  <2> SUFFICES ASSUME IInv, stored # {}
               PROVE  \/ mem.sel = writes[Max(stored)].sel
                      \/ \E i \in {i \in DOMAIN writes : writes[i].phase = "lost"} :
                            i > Max(stored) /\ mem.sel = writes[i].sel
    BY DEF LastSuccessStands
  <2>1. DOMAIN writes = 1..Len(writes) /\ Len(writes) \in Nat
    BY LenProperties DEF IInv, ChainInv
  <2>2. stored \in SUBSET Nat /\ \A y \in stored : y <= Len(writes)
    BY <2>1
  <2>3. Max(stored) \in stored /\ \A y \in stored : Max(stored) >= y
    BY <2>1, <2>2, MaxFacts
  <2> DEFINE m == Max(stored)
  <2> HIDE DEF m
  <2>4. m \in DOMAIN writes /\ writes[m].phase = "stored" /\ \A j \in DOMAIN writes : writes[j].phase = "stored" => j <= m
    BY <2>1, <2>3 DEF m
  <2>5. \/ mem.sel = writes[m].sel
        \/ \E j \in DOMAIN writes : writes[j].phase = "lost" /\ j > m /\ mem.sel = writes[j].sel
    BY <2>4 DEF IInv, ChainInv
  <2>. QED BY <2>5 DEF m
<1>. QED BY <1>1, WalletInvariance, PTL

\* No loaded wallet waits for more attempts than there are other wallets.
THEOREM EveryWalletInTurn == Spec => []RoundRobin
<1>1. IInv => RoundRobin
  <2> SUFFICES ASSUME IInv, NEW w \in listed PROVE since[w] < Cardinality(listed)
    BY DEF RoundRobin
  <2> DEFINE n == Cardinality(listed)
  <2>1. listed \in SUBSET Wallets /\ listed # {} /\ cursor \in Nat /\ cursor < n /\ Fits(listed, cursor, since)
        /\ since[w] \in Nat
    BY DEF IInv, RoundInv
  <2>2. n \in Nat /\ \E p \in 1..n : Sorted(listed)[p] = w
    BY <2>1, SortedFacts
  <2>3. PICK p \in 1..n : Sorted(listed)[p] = w
    BY <2>2
  <2>4. since[w] + Distance(p, cursor, n) <= n - 1
    BY <2>1, <2>3 DEF Fits
  <2>5. Distance(p, cursor, n) \in Nat
    BY <2>1, <2>2 DEF Distance
  <2>. QED BY <2>1, <2>2, <2>4, <2>5
<1>. QED BY <1>1, WalletInvariance, PTL
=============================================================================
