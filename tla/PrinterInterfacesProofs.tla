----------------------- MODULE PrinterInterfacesProofs -----------------------
(***************************************************************************)
(* That the descriptor walk finds the interfaces a configuration offers,   *)
(* each with endpoints of its own, and that the choice among them is the   *)
(* best of what is described, for every configuration and every room.      *)
(*                                                                         *)
(* The walk is followed from descriptor to descriptor: pos says where each *)
(* interface found so far is described.  An endpoint belongs to the last of *)
(* them only as long as printerCurrent is kept, which an interface that is *)
(* passed over gives up.                                                   *)
(***************************************************************************)
EXTENDS PrinterInterfaces, TLAPS, WellFoundedInduction, FiniteSetTheorems, SequenceTheorems

-----------------------------------------------------------------------------
(***************************************************************************)
(* Least elements and induction over the naturals                          *)
(***************************************************************************)

\* Every nonempty set of naturals has a least element.
LEMMA Least ==
  ASSUME NEW T \in SUBSET Nat, T # {}
  PROVE  \E x \in T : \A y \in T : x <= y
<1>1. IsWellFoundedOn(OpToRel(<, Nat), Nat)
  BY NatLessThanWellFounded
<1>2. \E x \in T : \A y \in T : ~(<<y, x>> \in OpToRel(<, Nat))
  BY <1>1, WFMin
<1>3. PICK x \in T : \A y \in T : ~(<<y, x>> \in OpToRel(<, Nat))
  BY <1>2
<1>4. \A y \in T : ~(y < x)
  BY <1>3 DEF OpToRel
<1> QED
  BY <1>4

\* Induction, of a set: a lemma cannot take an operator here.
LEMMA NatSetInduction ==
  ASSUME NEW S, 0 \in S, \A n \in Nat : n \in S => n + 1 \in S
  PROVE  \A n \in Nat : n \in S
<1> SUFFICES ASSUME NEW m \in Nat, m \notin S PROVE FALSE
  OBVIOUS
<1> DEFINE T == {n \in Nat : n \notin S}
<1>1. T # {} /\ T \subseteq Nat
  OBVIOUS
<1>2. PICK x \in T : \A y \in T : x <= y
  BY <1>1, Least
<1>3. x # 0 /\ x - 1 \in Nat /\ x - 1 \notin T
  BY <1>2
<1> QED
  BY <1>3

-----------------------------------------------------------------------------
(***************************************************************************)
(* The walk                                                                *)
(***************************************************************************)

\* What printerInterfaces[] keeps of an interface, and the states of the walk:
\* while an interface takes endpoints there is one.
InterfaceRecords ==
  [number : Nat, alt : Nat, protocol : Nat, out : Nat, in : Nat]

WalkStates ==
  {w \in [found : Seq(InterfaceRecords), current : BOOLEAN] : w.current => w.found # <<>>}

\* One descriptor leads from state to state.
LEMMA VisitType ==
  ASSUME NEW w \in WalkStates, NEW d \in Descriptors
  PROVE  Visit(w, d) \in WalkStates
<1>1. CASE d.kind = "interface"
  <2>1. d.number \in Nat /\ d.alt \in Nat /\ d.protocol \in Nat
    BY <1>1 DEF Descriptors
  <2> DEFINE r == [number |-> d.number, alt |-> d.alt, protocol |-> d.protocol,
                   out |-> 0, in |-> 0]
  <2>2. r \in InterfaceRecords
    BY <2>1 DEF InterfaceRecords
  <2>3. /\ w.found \in Seq(InterfaceRecords)
        /\ w \in [found : Seq(InterfaceRecords), current : BOOLEAN]
    BY DEF WalkStates
  <2> HIDE DEF r
  <2>4. Append(w.found, r) \in Seq(InterfaceRecords) /\ Append(w.found, r) # <<>>
    BY <2>2, <2>3, AppendProperties
  <2>5. [found |-> Append(w.found, r), current |-> TRUE] \in WalkStates
    BY <2>4 DEF WalkStates
  <2>6. [w EXCEPT !.current = FALSE] \in WalkStates
    BY <2>3 DEF WalkStates
  <2>7. Visit(w, d) \in {[found |-> Append(w.found, r), current |-> TRUE],
                        [w EXCEPT !.current = FALSE]}
    BY <1>1 DEF Visit, r
  <2> QED
    BY <2>5, <2>6, <2>7
<1>2. CASE d.kind # "interface" /\ w.current /\ d.dir # "other"
  <2>1. d.dir \in {"out", "in"} /\ d.address \in Nat
    BY <1>2 DEF Descriptors
  <2>2. w.found \in Seq(InterfaceRecords) /\ Len(w.found) \in 1..Len(w.found)
    BY <1>2 DEF WalkStates
  <2>3. w.found[Len(w.found)] \in InterfaceRecords
    BY <2>2
  <2>4. [w.found[Len(w.found)] EXCEPT ![d.dir] = d.address] \in InterfaceRecords
    BY <2>1, <2>3 DEF InterfaceRecords
  <2>5. [w.found EXCEPT ![Len(w.found)][d.dir] = d.address] \in Seq(InterfaceRecords)
    BY <2>2, <2>4
  <2> QED
    BY <1>2, <2>5 DEF Visit, WalkStates
<1>3. CASE d.kind # "interface" /\ ~(w.current /\ d.dir # "other")
  BY <1>3 DEF Visit
<1> QED
  BY <1>1, <1>2, <1>3

LEMMA VisitStates ==
  ASSUME NEW c \in Seq(Descriptors), NEW n \in 1..Len(c), NEW w \in WalkStates
  PROVE  Visit(w, c[n]) \in WalkStates
<1>1. c[n] \in Descriptors
  OBVIOUS
<1> QED
  BY <1>1, VisitType

\* The walk over a prefix of the descriptors exists.
LEMMA WalkExists ==
  ASSUME NEW c \in Seq(Descriptors)
  PROVE  \E g \in [0..Len(c) -> WalkStates] :
           /\ g[0] = [found |-> <<>>, current |-> FALSE]
           /\ \A k \in 1..Len(c) : g[k] = Visit(g[k - 1], c[k])
<1> DEFINE start == [found |-> <<>>, current |-> FALSE]
           Runs(n) == {g \in [0..n -> WalkStates] :
                         g[0] = start /\ \A k \in 1..n : g[k] = Visit(g[k - 1], c[k])}
           S == {n \in Nat : n <= Len(c) => Runs(n) # {}}
<1>0. start \in WalkStates
  BY DEF WalkStates
<1> HIDE DEF start
<1>1. 0 \in S
  <2>1. [k \in 0..0 |-> start] \in Runs(0)
    BY <1>0
  <2> QED
    BY <2>1
<1>2. ASSUME NEW n \in Nat, n \in S PROVE n + 1 \in S
  <2> SUFFICES ASSUME n + 1 <= Len(c) PROVE Runs(n + 1) # {}
    OBVIOUS
  <2>1. PICK g \in Runs(n) : TRUE
    BY <1>2
  <2> DEFINE last == Visit(g[n], c[n + 1])
             h == [k \in 0..(n + 1) |-> IF k <= n THEN g[k] ELSE last]
  <2>2. g \in [0..n -> WalkStates] /\ g[0] = start
        /\ \A k \in 1..n : g[k] = Visit(g[k - 1], c[k])
    BY <2>1
  <2>a. last \in WalkStates
    <3>1. n + 1 \in 1..Len(c) /\ g[n] \in WalkStates
      BY <2>2
    <3> QED
      BY <3>1, VisitStates
  <2>b. h[n + 1] = last /\ h[n] = g[n]
    OBVIOUS
  <2> HIDE DEF last
  <2>3. h \in [0..(n + 1) -> WalkStates]
    BY <2>2, <2>a
  <2>4. h[0] = start
    BY <2>2
  <2>5. ASSUME NEW k \in 1..(n + 1) PROVE h[k] = Visit(h[k - 1], c[k])
    <3>1. CASE k <= n
      <4>1. h[k] = g[k] /\ h[k - 1] = g[k - 1]
        BY <3>1
      <4> QED
        BY <2>2, <3>1, <4>1
    <3>2. CASE k = n + 1
      <4>1. k - 1 = n
        BY <3>2
      <4> QED
        BY <2>b, <3>2, <4>1 DEF last
    <3> QED
      BY <3>1, <3>2
  <2>6. h \in Runs(n + 1)
    <3> HIDE DEF h
    <3> QED
      BY <2>3, <2>4, <2>5
  <2> HIDE DEF Runs
  <2> QED
    BY <2>6
<1> HIDE DEF S
<1>3. Len(c) \in S
  <2>1. \A n \in Nat : n \in S
    BY <1>1, <1>2, NatSetInduction
  <2>2. Len(c) \in Nat
    OBVIOUS
  <2> QED
    BY <2>1, <2>2
<1> USE DEF S
<1>4. Runs(Len(c)) # {}
  BY <1>3
<1> QED
  BY <1>4 DEF start

\* So Walk is the function its definition asks for.
LEMMA WalkIs ==
  ASSUME NEW c \in Seq(Descriptors)
  PROVE  /\ Walk(c) \in [0..Len(c) -> WalkStates]
         /\ Walk(c)[0] = [found |-> <<>>, current |-> FALSE]
         /\ \A n \in 1..Len(c) : Walk(c)[n] = Visit(Walk(c)[n - 1], c[n])
<1> DEFINE start == [found |-> <<>>, current |-> FALSE]
           Equation(g) ==
             g = [n \in 0..Len(c) |-> IF n = 0 THEN start ELSE Visit(g[n - 1], c[n])]
<1>1. Len(c) \in Nat /\ \A n \in 1..Len(c) : c[n] \in Descriptors
  OBVIOUS
<1>2. start \in WalkStates
  BY DEF WalkStates
<1> HIDE DEF start
<1>4. PICK g \in [0..Len(c) -> WalkStates] :
        g[0] = start /\ \A k \in 1..Len(c) : g[k] = Visit(g[k - 1], c[k])
  BY WalkExists DEF start
<1>5. Equation(g)
  BY <1>1, <1>4
<1>6. Walk(c) = CHOOSE f : Equation(f)
  BY DEF Walk, start
<1>7. Equation(Walk(c))
  BY <1>5, <1>6
<1> DEFINE w == Walk(c)
<1> HIDE DEF w
<1>8. /\ w = [n \in 0..Len(c) |-> w[n]] /\ w[0] = start
      /\ \A n \in 1..Len(c) : w[n] = Visit(w[n - 1], c[n])
  BY <1>1, <1>7 DEF w
<1> DEFINE S == {n \in Nat : n <= Len(c) => w[n] \in WalkStates}
<1>9. 0 \in S
  BY <1>2, <1>8
<1>10. ASSUME NEW n \in Nat, n \in S PROVE n + 1 \in S
  <2>1. CASE n + 1 <= Len(c)
    <3>1. n + 1 \in 1..Len(c) /\ (n + 1) - 1 = n /\ w[n] \in WalkStates
      BY <1>1, <1>10, <2>1
    <3>2. w[n + 1] = Visit(w[n], c[n + 1])
      BY <1>8, <3>1
    <3> QED
      BY <1>1, <3>1, <3>2, VisitType
  <2> QED
    BY <2>1
<1> HIDE DEF S
<1>11. \A n \in Nat : n \in S
  BY <1>9, <1>10, NatSetInduction
<1>12. w \in [0..Len(c) -> WalkStates]
  BY <1>1, <1>8, <1>11 DEF S
<1> QED
  BY <1>8, <1>12 DEF w, start

-----------------------------------------------------------------------------
\* The first m values of pos.
Image(m, pos) == {pos[k] : k \in 1..m}

\* m positions in 1..n, in order.
Increasing(m, n, pos) ==
  /\ pos \in [1..m -> 1..n]
  /\ \A k, l \in 1..m : k < l => pos[k] < pos[l]

\* As many elements as an increasing numbering has numbers.
LEMMA Counted ==
  ASSUME NEW m \in Nat, NEW pos, DOMAIN pos = 1..m,
         \A k \in 1..m : pos[k] \in Int,
         \A k, l \in 1..m : k < l => pos[k] < pos[l]
  PROVE  IsFiniteSet(Image(m, pos)) /\ Cardinality(Image(m, pos)) = m
<1> DEFINE f == [k \in 1..m |-> pos[k]]
<1>1. f \in Bijection(1..m, Image(m, pos))
  <2>1. f \in [1..m -> Image(m, pos)]
    BY DEF Image
  <2>2. \A k, l \in 1..m : f[k] = f[l] => k = l
    OBVIOUS
  <2>3. \A t \in Image(m, pos) : \E k \in 1..m : f[k] = t
    BY DEF Image
  <2> HIDE DEF f
  <2>4. DOMAIN f = 1..m
    BY <2>1
  <2> QED
    BY <2>1, <2>2, <2>3, <2>4 DEF Bijection, Injection, Surjection, IsInjective
<1>2. IsFiniteSet(1..m) /\ Cardinality(1..m) = m
  <2>1. 1 \in Int /\ m \in Int
    OBVIOUS
  <2>2. /\ IsFiniteSet(1..m)
        /\ Cardinality(1..m) = IF 1 > m THEN 0 ELSE m - 1 + 1
    BY <2>1, FS_Interval
  <2> QED
    BY <2>2
<1> HIDE DEF f
<1>3. ExistsBijection(1..m, Image(m, pos))
  BY <1>1 DEF ExistsBijection
<1> QED
  BY <1>2, <1>3, FS_Bijection

\* The interfaces that speak a RAW protocol, whether or not there is room for them.
Raw(c) == {i \in DOMAIN c : c[i].kind = "interface" /\ c[i].protocol \in RawProtocols}

\* What the walk has found of the interface at i after n descriptors.
Matches(c, n, i, r) ==
  /\ r.number = c[i].number /\ r.alt = c[i].alt /\ r.protocol = c[i].protocol
  /\ \A dir \in {"out", "in"} :
       IF \E j \in Block(c, i) : j <= n /\ c[j].dir = dir
       THEN \E j \in Block(c, i) : j <= n /\ c[j].dir = dir /\ c[j].address = r[dir]
       ELSE r[dir] = 0

\* pos numbers the interfaces found after n descriptors.
Numbers(c, n, w, pos) ==
  /\ Increasing(Len(w.found), n, pos)
  /\ Image(Len(w.found), pos) = {i \in Offers(c) : i <= n}

\* What n descriptors have led to: all the RAW interfaces so far unless there is no
\* more room, each with what its block has shown, the last one current as long as
\* its block goes on.
WalkInv(c, n, w, pos) ==
  /\ Numbers(c, n, w, pos)
  /\ Len(w.found) <= MaxInterfaces
  /\ Len(w.found) < MaxInterfaces => \A i \in Raw(c) : i <= n => i \in Offers(c)
  /\ \A k \in 1..Len(w.found) : Matches(c, n, pos[k], w.found[k])
  /\ w.current <=> /\ w.found # <<>>
                   /\ \A j \in (pos[Len(w.found)] + 1)..n : c[j].kind = "endpoint"

\* A descriptor outside the interface's block adds nothing to it.
LEMMA MatchKept ==
  ASSUME NEW c \in Seq(Descriptors), NEW n \in Nat, NEW i, NEW r, Matches(c, n, i, r),
         n + 1 \notin Block(c, i) \/ c[n + 1].dir = "other"
  PROVE  Matches(c, n + 1, i, r)
<1>1. \A j \in Block(c, i) : j <= n + 1 => j <= n \/ c[j].dir = "other"
  BY DEF Block
<1>2. \A j \in Block(c, i) : j <= n => j <= n + 1
  BY DEF Block
<1> QED
  BY <1>1, <1>2 DEF Matches

\* An interface is offered if there is room when the walk comes to it.
LEMMA OfferedWhen ==
  ASSUME NEW c \in Seq(Descriptors), NEW n \in Nat, n + 1 \in Raw(c),
         NEW w \in WalkStates, NEW pos, WalkInv(c, n, w, pos)
  PROVE  n + 1 \in Offers(c) <=> Len(w.found) < MaxInterfaces
<1> DEFINE before == {j \in Raw(c) : j < n + 1}
           found == Image(Len(w.found), pos)
<1>0. Raw(c) \subseteq 1..Len(c) /\ Len(c) \in Nat /\ MaxInterfaces \in Nat
      /\ Len(w.found) \in Nat
  BY InterfacesAssumption DEF Raw, WalkStates
<1>1. n + 1 \in Offers(c) <=> Cardinality(before) < MaxInterfaces
  BY DEF Offers, Raw
<1>2. IsFiniteSet(found) /\ Cardinality(found) = Len(w.found)
  <2>1. /\ pos \in [1..Len(w.found) -> 1..n]
        /\ \A k, l \in 1..Len(w.found) : k < l => pos[k] < pos[l]
    BY <1>0 DEF WalkInv, Numbers, Increasing
  <2>2. /\ DOMAIN pos = 1..Len(w.found) /\ \A k \in 1..Len(w.found) : pos[k] \in Int
    BY <1>0, <2>1
  <2> QED
    BY <1>0, <2>1, <2>2, Counted
<1>3. found \subseteq before
  <2>1. Offers(c) \subseteq Raw(c)
    BY DEF Offers, Raw
  <2> QED
    BY <1>0, <2>1 DEF WalkInv, Numbers, Increasing
<1>4. IsFiniteSet(before)
  <2>1. IsFiniteSet(1..n)
    BY FS_Interval
  <2>2. before \subseteq 1..n
    BY <1>0
  <2> QED
    BY <2>1, <2>2, FS_Subset
<1>5. CASE Len(w.found) < MaxInterfaces
  <2>1. before \subseteq found
    BY <1>0, <1>5 DEF WalkInv, Numbers, Increasing
  <2> HIDE DEF before, found
  <2>2. before = found
    BY <1>3, <2>1
  <2> QED
    BY <1>1, <1>2, <1>5, <2>2
<1>6. CASE Len(w.found) >= MaxInterfaces
  <2>1. Cardinality(found) <= Cardinality(before) /\ Cardinality(before) \in Nat
    BY <1>3, <1>4, FS_Subset, FS_CardinalityType
  <2> HIDE DEF before, found
  <2> QED
    BY <1>0, <1>1, <1>2, <1>6, <2>1
<1> QED
  BY <1>0, <1>5, <1>6

\* An interface that is passed over, and an endpoint that is not stored.
LEMMA StepKept ==
  ASSUME NEW c \in Seq(Descriptors), NEW n \in Nat, n + 1 \in 1..Len(c),
         NEW w \in WalkStates, NEW v \in WalkStates, NEW pos, WalkInv(c, n, w, pos),
         v.found = w.found, n + 1 \notin Offers(c),
         Len(w.found) < MaxInterfaces => n + 1 \notin Raw(c),
         \A k \in 1..Len(w.found) : Matches(c, n + 1, pos[k], w.found[k]),
         v.current <=> w.current /\ c[n + 1].kind = "endpoint"
  PROVE  WalkInv(c, n + 1, v, pos)
<1>0. Len(w.found) \in Nat /\ pos \in [1..Len(w.found) -> 1..n]
      /\ (w.found # <<>> <=> Len(w.found) \in 1..Len(w.found))
  BY DEF WalkInv, Numbers, Increasing, WalkStates
<1>1. Numbers(c, n + 1, v, pos)
  <2>0. 1..n \subseteq 1..(n + 1)
    OBVIOUS
  <2>1. pos \in [1..Len(v.found) -> 1..(n + 1)]
    BY <1>0, <2>0
  <2>2. Offers(c) \subseteq 1..Len(c)
    BY DEF Offers
  <2>3. {i \in Offers(c) : i <= n + 1} = {i \in Offers(c) : i <= n}
    BY <2>2
  <2> QED
    BY <2>1, <2>3 DEF WalkInv, Numbers, Increasing
<1>2. Len(v.found) < MaxInterfaces => \A i \in Raw(c) : i <= n + 1 => i \in Offers(c)
  <2>1. Raw(c) \subseteq 1..Len(c)
    BY DEF Raw
  <2> QED
    BY <2>1 DEF WalkInv
<1>3. v.current <=> /\ v.found # <<>>
                    /\ \A j \in (pos[Len(v.found)] + 1)..(n + 1) : c[j].kind = "endpoint"
  <2>1. CASE w.found = <<>>
    BY <2>1 DEF WalkInv
  <2>2. CASE w.found # <<>>
    <3>1. pos[Len(w.found)] \in 1..n
      BY <1>0, <2>2
    <3>2. (pos[Len(w.found)] + 1)..(n + 1) = ((pos[Len(w.found)] + 1)..n) \cup {n + 1}
      BY <3>1
    <3> QED
      BY <2>2, <3>2 DEF WalkInv
  <2> QED
    BY <2>1, <2>2
<1>4. \A k \in 1..Len(v.found) : Matches(c, n + 1, pos[k], v.found[k])
  OBVIOUS
<1> QED
  BY <1>1, <1>2, <1>3, <1>4 DEF WalkInv

\* printerCurrent's endpoints are those of the last interface found.
LEMMA BlockGrows ==
  ASSUME NEW c \in Seq(Descriptors), NEW n \in Nat, n + 1 \in 1..Len(c),
         NEW w \in WalkStates, NEW pos, WalkInv(c, n, w, pos),
         NEW k \in 1..Len(w.found), n + 1 \in Block(c, pos[k])
  PROVE  w.current /\ k = Len(w.found) /\ c[n + 1].kind = "endpoint"
<1>0. Len(w.found) \in Nat /\ pos \in [1..Len(w.found) -> 1..n]
  BY DEF WalkInv, Numbers, Increasing, WalkStates
<1>1. \A j \in (pos[k] + 1)..(n + 1) : c[j].kind = "endpoint"
  BY DEF Block
<1>2. k = Len(w.found)
  <2> SUFFICES ASSUME k < Len(w.found) PROVE FALSE
    BY <1>0
  <2> DEFINE l == pos[Len(w.found)]
  <2>0. Len(w.found) \in 1..Len(w.found)
    BY <1>0
  <2>1. pos[k] < l /\ l \in 1..n /\ pos[k] \in 1..n
    BY <1>0, <2>0 DEF WalkInv, Numbers, Increasing
  <2>2. l \in Offers(c)
    BY <1>0, <2>0 DEF WalkInv, Numbers, Increasing, Image
  <2>3. c[l].kind = "interface"
    BY <2>2 DEF Offers
  <2> QED
    BY <1>1, <2>1, <2>3
<1>3. w.found # <<>> /\ \A j \in (pos[Len(w.found)] + 1)..n : c[j].kind = "endpoint"
  BY <1>0, <1>1, <1>2
<1> QED
  BY <1>0, <1>1, <1>2, <1>3 DEF WalkInv

\* A numbering with one number more.
Extend(m, n, pos) == [k \in 1..(m + 1) |-> IF k <= m THEN pos[k] ELSE n + 1]

LEMMA Extended ==
  ASSUME NEW m \in Nat, NEW n \in Nat, NEW pos, Increasing(m, n, pos)
  PROVE  /\ Increasing(m + 1, n + 1, Extend(m, n, pos))
         /\ Extend(m, n, pos)[m + 1] = n + 1
         /\ \A k \in 1..m : Extend(m, n, pos)[k] = pos[k]
         /\ Image(m + 1, Extend(m, n, pos)) = Image(m, pos) \cup {n + 1}
<1> DEFINE p == Extend(m, n, pos)
<1>0. pos \in [1..m -> 1..n] /\ \A k, l \in 1..m : k < l => pos[k] < pos[l]
  BY DEF Increasing
<1>1. p \in [1..(m + 1) -> 1..(n + 1)]
  BY <1>0 DEF Extend
<1>2. p[m + 1] = n + 1
  BY DEF Extend
<1>3. \A k \in 1..m : p[k] = pos[k]
  BY DEF Extend
<1> HIDE DEF p
<1>4. ASSUME NEW k \in 1..(m + 1), NEW l \in 1..(m + 1), k < l PROVE p[k] < p[l]
  <2>1. k \in 1..m
    BY <1>4
  <2>2. p[k] = pos[k] /\ pos[k] \in 1..n
    BY <1>0, <1>3, <2>1
  <2>3. CASE l \in 1..m
    <3>1. pos[k] < pos[l]
      BY <1>0, <1>4, <2>1, <2>3
    <3> QED
      BY <1>3, <2>2, <2>3, <3>1
  <2>4. CASE l = m + 1
    BY <1>2, <2>2, <2>4
  <2> QED
    BY <2>3, <2>4
<1>5. Image(m + 1, p) = Image(m, pos) \cup {n + 1}
  <2>1. 1..(m + 1) = (1..m) \cup {m + 1}
    OBVIOUS
  <2>2. \A x : x \in Image(m + 1, p) <=> x \in Image(m, pos) \/ x = n + 1
    BY <1>2, <1>3, <2>1 DEF Image
  <2> QED
    BY <2>2
<1> QED
  BY <1>1, <1>2, <1>3, <1>4, <1>5 DEF Increasing, p

\* An interface that is found.
LEMMA StepFinds ==
  ASSUME NEW c \in Seq(Descriptors), NEW n \in Nat, n + 1 \in 1..Len(c), n + 1 \in Raw(c),
         NEW w \in WalkStates, NEW pos, WalkInv(c, n, w, pos), Len(w.found) < MaxInterfaces
  PROVE  \E p : WalkInv(c, n + 1, Visit(w, c[n + 1]), p)
<1> DEFINE d == c[n + 1]
           m == Len(w.found)
           r == [number |-> d.number, alt |-> d.alt, protocol |-> d.protocol,
                 out |-> 0, in |-> 0]
           v == Visit(w, d)
           p == Extend(m, n, pos)
<1>0. m \in Nat /\ pos \in [1..m -> 1..n] /\ MaxInterfaces \in Nat
      /\ w.found \in Seq(InterfaceRecords)
  BY InterfacesAssumption DEF WalkInv, Numbers, Increasing, WalkStates
<1>1. d.kind = "interface" /\ d.protocol \in RawProtocols
  BY DEF Raw
<1>2. v = [found |-> Append(w.found, r), current |-> TRUE]
  BY <1>1 DEF Visit
<1>3. v.current = TRUE /\ v.found = Append(w.found, r)
  BY <1>2
<1>4. n + 1 \in Offers(c)
  BY OfferedWhen
<1>5. r.number = d.number /\ r.alt = d.alt /\ r.protocol = d.protocol
      /\ \A dir \in {"out", "in"} : r[dir] = 0
  OBVIOUS
<1> HIDE DEF r
<1>6. Len(v.found) = m + 1 /\ v.found[m + 1] = r /\ \A k \in 1..m : v.found[k] = w.found[k]
      /\ v.found # <<>>
  BY <1>0, <1>3
<1> HIDE DEF v
<1>d. m \in Nat /\ pos \in [1..m -> 1..n] /\ MaxInterfaces \in Nat
  BY <1>0
<1>e. Increasing(m, n, pos)
  BY DEF WalkInv, Numbers
<1>f. /\ Increasing(m + 1, n + 1, p)
      /\ p[m + 1] = n + 1 /\ \A k \in 1..m : p[k] = pos[k]
      /\ Image(m + 1, p) = Image(m, pos) \cup {n + 1}
  <2> HIDE DEF m
  <2> QED
    <3>1. m \in Nat /\ n \in Nat
      BY <1>d
    <3>2. Increasing(m, n, pos)
      BY <1>e
    <3>3. /\ Increasing(m + 1, n + 1, Extend(m, n, pos))
          /\ Extend(m, n, pos)[m + 1] = n + 1
          /\ \A k \in 1..m : Extend(m, n, pos)[k] = pos[k]
          /\ Image(m + 1, Extend(m, n, pos)) = Image(m, pos) \cup {n + 1}
      BY <3>1, <3>2, Extended
    <3> QED
      BY <3>3
<1>7. p[m + 1] = n + 1 /\ \A k \in 1..m : p[k] = pos[k]
  BY <1>f
<1>a. /\ \A k, l \in 1..m : k < l => pos[k] < pos[l]
      /\ Image(m, pos) = {i \in Offers(c) : i <= n}
      /\ \A k \in 1..m : Matches(c, n, pos[k], w.found[k])
  BY DEF WalkInv, Numbers, Increasing
<1>b. m < MaxInterfaces /\ \A i \in Raw(c) : i <= n => i \in Offers(c)
  BY DEF WalkInv
<1>c. \A k \in 1..m : n + 1 \notin Block(c, pos[k])
  BY <1>1, BlockGrows
<1> HIDE DEF p, m
<1>9. Numbers(c, n + 1, v, p)
  <2>2. Offers(c) \subseteq 1..Len(c)
    BY DEF Offers
  <2>3. {i \in Offers(c) : i <= n + 1} = {i \in Offers(c) : i <= n} \cup {n + 1}
    BY <1>4, <2>2
  <2> QED
    BY <1>6, <1>a, <1>f, <2>3 DEF Numbers
<1>10. \A i \in Raw(c) : i <= n + 1 => i \in Offers(c)
  <2>1. Raw(c) \subseteq 1..Len(c)
    BY DEF Raw
  <2> QED
    BY <1>4, <1>b, <2>1
<1>11. ASSUME NEW k \in 1..(m + 1) PROVE Matches(c, n + 1, p[k], v.found[k])
  <2>1. CASE k <= m
    <3>1. k \in 1..m
      BY <1>0, <2>1
    <3>2. n + 1 \notin Block(c, pos[k]) /\ Matches(c, n, pos[k], w.found[k])
      BY <1>a, <1>c, <3>1
    <3>3. Matches(c, n + 1, pos[k], w.found[k])
      BY <3>2, MatchKept
    <3> QED
      BY <1>6, <1>7, <3>1, <3>3
  <2>2. CASE k = m + 1
    <3>1. \A j \in Block(c, n + 1) : ~(j <= n + 1)
      BY DEF Block
    <3> QED
      BY <1>5, <1>6, <1>7, <2>2, <3>1 DEF Matches
  <2> QED
    BY <1>0, <2>1, <2>2
<1>12. \A j \in (p[m + 1] + 1)..(n + 1) : c[j].kind = "endpoint"
  BY <1>7
<1>13. WalkInv(c, n + 1, v, p)
  <2>1. m + 1 <= MaxInterfaces
    BY <1>d, <1>b
  <2> QED
    BY <1>3, <1>6, <1>9, <1>10, <1>11, <1>12, <2>1 DEF WalkInv
<1> QED
  BY <1>13 DEF v

\* An endpoint that printerCurrent takes.
LEMMA StepStores ==
  ASSUME NEW c \in Seq(Descriptors), NEW n \in Nat, n + 1 \in 1..Len(c),
         NEW w \in WalkStates, NEW pos, WalkInv(c, n, w, pos),
         c[n + 1].kind # "interface", w.current, c[n + 1].dir # "other",
         w.found[Len(w.found)][c[n + 1].dir] = 0
  PROVE  WalkInv(c, n + 1, Visit(w, c[n + 1]), pos)
<1> DEFINE d == c[n + 1]
           m == Len(w.found)
           r == [w.found[m] EXCEPT ![d.dir] = d.address]
           v == Visit(w, d)
<1>0. /\ m \in Nat /\ m \in 1..m /\ w.found \in Seq(InterfaceRecords)
      /\ pos \in [1..m -> 1..n] /\ pos[m] \in 1..n
      /\ d \in Descriptors
  <2>1. m \in Nat /\ m \in 1..m /\ w.found \in Seq(InterfaceRecords)
    BY DEF WalkStates
  <2>2. pos \in [1..m -> 1..n]
    BY DEF WalkInv, Numbers, Increasing
  <2>3. d \in Descriptors
    OBVIOUS
  <2> QED
    BY <2>1, <2>2, <2>3
<1>1. d.kind = "endpoint" /\ d.dir \in {"out", "in"} /\ d.address \in Nat \ {0}
  BY <1>0 DEF Descriptors
<1>2. v = [w EXCEPT !.found[m][d.dir] = d.address]
  BY DEF Visit
<1>3. /\ w \in [found : Seq(InterfaceRecords), current : BOOLEAN]
      /\ w.found[m] \in InterfaceRecords
  BY <1>0 DEF WalkStates
<1>4. v.current = w.current /\ v.found = [w.found EXCEPT ![m] = r]
  BY <1>2, <1>3
<1>5. /\ r.number = w.found[m].number /\ r.alt = w.found[m].alt
      /\ r.protocol = w.found[m].protocol
      /\ r[d.dir] = d.address
      /\ \A dir \in {"out", "in"} : dir # d.dir => r[dir] = w.found[m][dir]
  BY <1>1, <1>3 DEF InterfaceRecords
<1> HIDE DEF r, v
<1>6. /\ Len(v.found) = m /\ v.found[m] = r /\ v.found # <<>>
      /\ \A k \in 1..m : k # m => v.found[k] = w.found[k]
  BY <1>0, <1>4
<1>7. Numbers(c, n + 1, v, pos)
  <2>1. Increasing(m, n + 1, pos)
    <3>1. 1..n \subseteq 1..(n + 1)
      OBVIOUS
    <3> QED
      BY <1>0, <3>1 DEF WalkInv, Numbers, Increasing
  <2>2. n + 1 \notin Offers(c) /\ Offers(c) \subseteq 1..Len(c)
    BY <1>1 DEF Offers
  <2>3. {i \in Offers(c) : i <= n + 1} = {i \in Offers(c) : i <= n}
    BY <2>2
  <2> QED
    BY <1>6, <2>1, <2>3 DEF WalkInv, Numbers
<1>8. Len(v.found) < MaxInterfaces => \A i \in Raw(c) : i <= n + 1 => i \in Offers(c)
  <2>1. Raw(c) \subseteq 1..Len(c) /\ n + 1 \notin Raw(c)
    BY <1>1 DEF Raw
  <2> QED
    BY <1>6, <2>1 DEF WalkInv
<1>9. \A j \in (pos[m] + 1)..(n + 1) : c[j].kind = "endpoint"
  <2>1. (pos[m] + 1)..(n + 1) = ((pos[m] + 1)..n) \cup {n + 1}
    BY <1>0
  <2> QED
    BY <1>1, <2>1 DEF WalkInv
<1>10. ASSUME NEW k \in 1..m PROVE Matches(c, n + 1, pos[k], v.found[k])
  <2>0. Matches(c, n, pos[k], w.found[k])
    BY DEF WalkInv
  <2>1. CASE k = m
    <3>1. n + 1 \in Block(c, pos[m])
      BY <1>0, <1>9 DEF Block
    <3>2. \A j \in Block(c, pos[m]) : j <= n + 1 => j <= n \/ j = n + 1
      BY DEF Block
    <3>3. \A j \in Block(c, pos[m]) : j <= n => j <= n + 1
      BY DEF Block
    <3>4. ASSUME NEW dir \in {"out", "in"}
          PROVE  IF \E j \in Block(c, pos[m]) : j <= n + 1 /\ c[j].dir = dir
                 THEN \E j \in Block(c, pos[m]) :
                        j <= n + 1 /\ c[j].dir = dir /\ c[j].address = r[dir]
                 ELSE r[dir] = 0
      <4>1. CASE dir = d.dir
        BY <1>5, <3>1, <4>1
      <4>2. CASE dir # d.dir
        BY <1>5, <2>0, <2>1, <3>2, <3>3, <4>2 DEF Matches
      <4> QED
        BY <4>1, <4>2
    <3> QED
      BY <1>5, <1>6, <2>0, <2>1, <3>4 DEF Matches
  <2>2. CASE k # m
    <3>1. n + 1 \notin Block(c, pos[k])
      BY <2>2, BlockGrows
    <3> QED
      BY <1>6, <2>0, <2>2, <3>1, MatchKept
  <2> QED
    BY <2>1, <2>2
<1>11. Len(v.found) <= MaxInterfaces
  BY <1>6 DEF WalkInv
<1>12. WalkInv(c, n + 1, v, pos)
  BY <1>4, <1>6, <1>7, <1>8, <1>9, <1>10, <1>11 DEF WalkInv
<1> QED
  BY <1>12 DEF v

\* Every descriptor.
LEMMA WalkStep ==
  ASSUME NEW c \in Seq(Descriptors), NEW n \in Nat, n + 1 \in 1..Len(c),
         NEW w \in WalkStates, NEW pos, WalkInv(c, n, w, pos)
  PROVE  \E p : WalkInv(c, n + 1, Visit(w, c[n + 1]), p)
<1> DEFINE d == c[n + 1]
           m == Len(w.found)
           v == Visit(w, d)
<1>0. /\ d \in Descriptors /\ v \in WalkStates /\ m \in Nat
      /\ MaxInterfaces \in Nat /\ m <= MaxInterfaces
  <2>1. d \in Descriptors
    OBVIOUS
  <2>2. m \in Nat /\ MaxInterfaces \in Nat
    BY InterfacesAssumption DEF WalkStates
  <2>3. m <= MaxInterfaces
    BY DEF WalkInv
  <2> QED
    BY <2>1, <2>2, <2>3, VisitType
<1>1. CASE d.kind = "interface" /\ d.protocol \in RawProtocols /\ m < MaxInterfaces
  <2>1. n + 1 \in Raw(c)
    BY <1>1 DEF Raw
  <2> QED
    BY <1>1, <2>1, StepFinds
<1>2. CASE d.kind = "interface" /\ ~(d.protocol \in RawProtocols /\ m < MaxInterfaces)
  <2>1. v = [w EXCEPT !.current = FALSE]
    BY <1>2 DEF Visit
  <2>2. v.found = w.found /\ v.current = FALSE
    BY <2>1 DEF WalkStates
  <2>3. m < MaxInterfaces => n + 1 \notin Raw(c)
    BY <1>2 DEF Raw
  <2>4. n + 1 \notin Offers(c)
    <3>1. Offers(c) \subseteq Raw(c)
      BY DEF Offers, Raw
    <3> QED
      BY <1>0, <2>3, <3>1, OfferedWhen
  <2>5. \A k \in 1..m : Matches(c, n + 1, pos[k], w.found[k])
    <3> TAKE k \in 1..m
    <3>1. n + 1 \notin Block(c, pos[k])
      BY <1>2, BlockGrows
    <3> QED
      BY <3>1, MatchKept DEF WalkInv
  <2> HIDE DEF v
  <2>6. WalkInv(c, n + 1, v, pos)
    BY <1>0, <1>2, <2>2, <2>3, <2>4, <2>5, StepKept
  <2> QED
    BY <2>6 DEF v
<1>3. CASE d.kind # "interface" /\ w.current /\ d.dir # "other" /\ w.found[m][d.dir] = 0
  <2>1. WalkInv(c, n + 1, v, pos)
    BY <1>3, StepStores
  <2> QED
    BY <2>1
<1>4. CASE d.kind # "interface" /\ ~(w.current /\ d.dir # "other" /\ w.found[m][d.dir] = 0)
  <2>1. v = w
    BY <1>4 DEF Visit
  <2>2. n + 1 \notin Raw(c) /\ n + 1 \notin Offers(c)
    BY <1>4 DEF Raw, Offers
  <2>3. d.kind = "endpoint" /\ d.dir \in {"out", "in", "other"}
    BY <1>0, <1>4 DEF Descriptors
  <2>4. ASSUME NEW k \in 1..m PROVE Matches(c, n + 1, pos[k], w.found[k])
    <3>0. Matches(c, n, pos[k], w.found[k])
      BY DEF WalkInv
    <3>1. CASE n + 1 \notin Block(c, pos[k]) \/ d.dir = "other"
      BY <3>0, <3>1, MatchKept
    <3>2. CASE n + 1 \in Block(c, pos[k]) /\ d.dir # "other"
      <4>1. w.current /\ k = m
        BY <3>2, BlockGrows
      <4>2. w.found[k][d.dir] # 0
        BY <1>4, <3>2, <4>1
      <4>3. \A j \in Block(c, pos[k]) : j <= n + 1 => j <= n \/ j = n + 1
        BY DEF Block
      <4>4. \A j \in Block(c, pos[k]) : j <= n => j <= n + 1
        BY DEF Block
      <4>5. ASSUME NEW dir \in {"out", "in"}
            PROVE  IF \E j \in Block(c, pos[k]) : j <= n + 1 /\ c[j].dir = dir
                   THEN \E j \in Block(c, pos[k]) :
                          j <= n + 1 /\ c[j].dir = dir /\ c[j].address = w.found[k][dir]
                   ELSE w.found[k][dir] = 0
        <5>1. CASE dir = d.dir
          BY <3>0, <4>2, <4>4, <5>1 DEF Matches
        <5>2. CASE dir # d.dir
          BY <3>0, <4>3, <4>4, <5>2 DEF Matches
        <5> QED
          BY <5>1, <5>2
      <4> QED
        BY <3>0, <4>5 DEF Matches
    <3> QED
      BY <3>1, <3>2
  <2>5. WalkInv(c, n + 1, w, pos)
    BY <1>0, <2>2, <2>3, <2>4, StepKept
  <2> QED
    BY <2>1, <2>5
<1> QED
  BY <1>1, <1>2, <1>3, <1>4

\* The walk to the end of the configuration.
LEMMA WalkAlways ==
  ASSUME NEW c \in Seq(Descriptors)
  PROVE  \E pos : WalkInv(c, Len(c), Walk(c)[Len(c)], pos)
<1> DEFINE w == Walk(c)
           S == {n \in Nat : n <= Len(c) => \E pos : WalkInv(c, n, w[n], pos)}
<1>0. Len(c) \in Nat /\ MaxInterfaces \in Nat \ {0}
  BY InterfacesAssumption
<1>1. /\ w \in [0..Len(c) -> WalkStates]
      /\ w[0] = [found |-> <<>>, current |-> FALSE]
      /\ \A n \in 1..Len(c) : w[n] = Visit(w[n - 1], c[n])
  BY WalkIs
<1> HIDE DEF w
<1>2. 0 \in S
  <2>1. w[0].found = <<>> /\ Len(w[0].found) = 0 /\ w[0].current = FALSE
    BY <1>1
  <2>2. Raw(c) \subseteq 1..Len(c) /\ Offers(c) \subseteq 1..Len(c)
    BY DEF Raw, Offers
  <2>3. {i \in Offers(c) : i <= 0} = {} /\ \A i \in Raw(c) : ~(i <= 0)
    BY <1>0, <2>2
  <2> DEFINE pos == [k \in 1..0 |-> 0]
  <2>4. Increasing(0, 0, pos) /\ Image(0, pos) = {}
    BY DEF Increasing, Image
  <2> HIDE DEF pos
  <2>5. Numbers(c, 0, w[0], pos)
    BY <2>1, <2>3, <2>4 DEF Numbers
  <2>6. WalkInv(c, 0, w[0], pos)
    BY <1>0, <2>1, <2>3, <2>5 DEF WalkInv
  <2> QED
    BY <2>6
<1>3. ASSUME NEW n \in Nat, n \in S PROVE n + 1 \in S
  <2> SUFFICES ASSUME n + 1 <= Len(c) PROVE \E pos : WalkInv(c, n + 1, w[n + 1], pos)
    OBVIOUS
  <2>1. n + 1 \in 1..Len(c) /\ w[n] \in WalkStates
    BY <1>0, <1>1
  <2>2. w[n + 1] = Visit(w[n], c[n + 1])
    BY <1>1, <2>1
  <2>3. PICK pos : WalkInv(c, n, w[n], pos)
    BY <1>0, <1>3
  <2> QED
    BY <2>1, <2>2, <2>3, WalkStep
<1> HIDE DEF S
<1>4. Len(c) \in S
  <2>1. \A n \in Nat : n \in S
    BY <1>2, <1>3, NatSetInduction
  <2> QED
    BY <1>0, <2>1
<1> QED
  BY <1>0, <1>4 DEF S, w

\* enumerateDevice()'s descriptor loop: the k-th interface found is the k-th that
\* the configuration offers, with its number, setting and protocol; it has an
\* endpoint of a direction if one of its own block has that direction, and then
\* one of those; and every interface offered is found.
THEOREM WalkFinds ==
  ASSUME NEW c \in Seq(Descriptors)
  PROVE  /\ Candidates(c) \in Seq(InterfaceRecords)
         /\ \A k \in DOMAIN Candidates(c) :
              /\ Position(c, k) \in Offers(c)
              /\ Matches(c, Len(c), Position(c, k), Candidates(c)[k])
         /\ \A i \in Offers(c) : \E k \in DOMAIN Candidates(c) : Position(c, k) = i
<1> DEFINE w == Walk(c)[Len(c)]
           m == Len(w.found)
<1>0. Len(c) \in Nat
  OBVIOUS
<1>1. w \in WalkStates /\ Candidates(c) = w.found
  BY <1>0, WalkIs DEF Candidates
<1>2. PICK pos : WalkInv(c, Len(c), w, pos)
  BY WalkAlways
<1>3. /\ w.found \in Seq(InterfaceRecords) /\ m \in Nat /\ DOMAIN w.found = 1..m
  BY <1>1 DEF WalkStates
<1> HIDE DEF w
<1>4. /\ Increasing(m, Len(c), pos) /\ Image(m, pos) = {i \in Offers(c) : i <= Len(c)}
      /\ \A k \in 1..m : Matches(c, Len(c), pos[k], w.found[k])
  BY <1>2 DEF WalkInv, Numbers
<1>5. Image(m, pos) = Offers(c) /\ Offers(c) \subseteq 1..Len(c)
  <2>1. Offers(c) \subseteq 1..Len(c)
    BY DEF Offers
  <2> QED
    BY <1>0, <1>4, <2>1
<1> HIDE DEF m
<1>6. pos \in [1..m -> 1..Len(c)] /\ \A k, l \in 1..m : k < l => pos[k] < pos[l]
  BY <1>4 DEF Increasing
<1>7. ASSUME NEW k \in 1..m
      PROVE  Cardinality({j \in Offers(c) : j < pos[k]}) = k - 1
  <2>1. k - 1 \in Nat /\ 1..(k - 1) \subseteq 1..m /\ k \in Nat
    BY <1>3
  <2> DEFINE f == [l \in 1..(k - 1) |-> pos[l]]
  <2>2. DOMAIN f = 1..(k - 1) /\ \A l \in 1..(k - 1) : f[l] = pos[l] /\ pos[l] \in Int
    BY <1>6, <2>1
  <2> HIDE DEF f
  <2>3. \A l, h \in 1..(k - 1) : l < h => f[l] < f[h]
    BY <1>6, <2>1, <2>2
  <2>4. \A l \in 1..(k - 1) : f[l] \in Int
    BY <2>2
  <2>5. Cardinality(Image(k - 1, f)) = k - 1
    BY <2>1, <2>2, <2>3, <2>4, Counted
  <2>6. \A l \in 1..m : pos[l] < pos[k] <=> l \in 1..(k - 1)
    <3> TAKE l \in 1..m
    <3>1. l < k \/ l = k \/ k < l
      BY <1>3, <2>1
    <3>2. pos[l] \in Int /\ pos[k] \in Int
      BY <1>6
    <3> QED
      BY <1>3, <1>6, <2>1, <3>1, <3>2
  <2>7. \A x : x \in Image(k - 1, f) <=> x \in {j \in Offers(c) : j < pos[k]}
    BY <1>5, <2>1, <2>2, <2>6 DEF Image
  <2>8. Image(k - 1, f) = {j \in Offers(c) : j < pos[k]}
    BY <2>7
  <2> QED
    BY <2>5, <2>8
<1>8. ASSUME NEW k \in 1..m PROVE Position(c, k) = pos[k]
  <2>1. pos[k] \in Offers(c)
    BY <1>5 DEF Image
  <2>2. ASSUME NEW i \in Offers(c), Cardinality({j \in Offers(c) : j < i}) = k - 1
        PROVE  i = pos[k]
    <3>1. PICK l \in 1..m : i = pos[l]
      BY <1>5 DEF Image
    <3>2. k - 1 = l - 1
      BY <1>7, <2>2, <3>1
    <3> QED
      BY <1>3, <3>1, <3>2
  <2> QED
    BY <1>7, <2>1, <2>2 DEF Position
<1>9. \A k \in 1..m : Position(c, k) \in Offers(c)
                      /\ Matches(c, Len(c), Position(c, k), w.found[k])
  BY <1>4, <1>5, <1>8 DEF Image
<1>10. \A i \in Offers(c) : \E k \in 1..m : Position(c, k) = i
  BY <1>5, <1>8 DEF Image
<1> QED
  BY <1>1, <1>3, <1>9, <1>10 DEF m

-----------------------------------------------------------------------------
(***************************************************************************)
(* The choice                                                              *)
(***************************************************************************)

\* The least element.
First(T) == CHOOSE i \in T : \A j \in T : i <= j

LEMMA FirstIsIn ==
  ASSUME NEW T \in SUBSET Nat, T # {}
  PROVE  First(T) \in T
  BY Least DEF First

\* Those with the highest score.
Top(T, sc) == {i \in T : \A j \in T : sc[j] <= sc[i]}

\* Of finitely many scores one is the highest.
LEMMA Highest ==
  ASSUME NEW m \in Nat, NEW sc \in [1..m -> Int], NEW T \in SUBSET (1..m), T # {}
  PROVE  Top(T, sc) # {}
<1> DEFINE P(n) == \A U \in SUBSET (1..n) : U # {} => Top(U, sc) # {}
           S == {n \in Nat : n <= m => P(n)}
<1>1. 0 \in S
  <2>1. 1..0 = {}
    OBVIOUS
  <2>2. P(0)
    BY <2>1
  <2> QED
    BY <2>2
<1>2. ASSUME NEW n \in Nat, n \in S PROVE n + 1 \in S
  <2> SUFFICES ASSUME n + 1 <= m, NEW U \in SUBSET (1..(n + 1)), U # {} PROVE Top(U, sc) # {}
    OBVIOUS
  <2> DEFINE V == U \ {n + 1}
  <2>1. V \in SUBSET (1..n) /\ U \subseteq V \cup {n + 1} /\ V \subseteq U
    OBVIOUS
  <2>2. V # {} => Top(V, sc) # {}
    <3>1. P(n)
      BY <1>2
    <3> HIDE DEF V
    <3> QED
      BY <2>1, <3>1
  <2>3. \A i \in 1..m : sc[i] \in Int
    OBVIOUS
  <2>4. U \subseteq 1..m /\ n + 1 \in 1..m
    OBVIOUS
  <2> HIDE DEF V
  <2>5. CASE V = {}
    <3>1. U = {n + 1}
      BY <2>1, <2>5
    <3> QED
      BY <2>3, <2>4, <3>1 DEF Top
  <2>6. CASE V # {}
    <3>1. PICK i \in V : \A j \in V : sc[j] <= sc[i]
      BY <2>2, <2>6 DEF Top
    <3>2. CASE n + 1 \in U /\ sc[i] < sc[n + 1]
      <4>1. \A j \in U : sc[j] <= sc[n + 1]
        BY <2>1, <2>3, <2>4, <3>1, <3>2
      <4> QED
        BY <3>2, <4>1 DEF Top
    <3>3. CASE ~(n + 1 \in U /\ sc[i] < sc[n + 1])
      <4>1. i \in U /\ \A j \in U : sc[j] <= sc[i]
        BY <2>1, <2>3, <2>4, <3>1, <3>3
      <4> QED
        BY <4>1 DEF Top
    <3> QED
      BY <3>2, <3>3
  <2> QED
    BY <2>5, <2>6
<1> HIDE DEF S
<1>3. m \in S
  <2>1. \A n \in Nat : n \in S
    BY <1>1, <1>2, NatSetInduction
  <2> QED
    BY <2>1
<1>4. P(m)
  BY <1>3 DEF S
<1> QED
  BY <1>4

LEMMA FirstOfTop ==
  ASSUME NEW m \in Nat, NEW sc \in [1..m -> Int], NEW T \in SUBSET (1..m), T # {}
  PROVE  First(Top(T, sc)) \in Top(T, sc)
<1>1. Top(T, sc) # {}
  BY Highest
<1>2. Top(T, sc) \in SUBSET Nat
  <2>1. T \subseteq Nat /\ Top(T, sc) \subseteq T
    BY DEF Top
  <2> QED
    BY <2>1
<1> QED
  BY <1>1, <1>2, FirstIsIn

\* Scores are integers.
LEMMA PrintScoreType ==
  ASSUME NEW r \in InterfaceRecords
  PROVE  printScore(r) \in Int
<1>1. r.out \in Nat /\ r.in \in Nat /\ r.alt \in Nat /\ r.protocol \in Nat
  BY DEF InterfaceRecords
<1> DEFINE a == CASE r.protocol = 2 -> 120 [] r.protocol = 3 -> 90 [] OTHER -> 70
<1>2. a \in Int
  OBVIOUS
<1> HIDE DEF a
<1>3. a + (IF r.in # 0 /\ r.protocol # 1 THEN 10 ELSE 0) + (IF r.alt = 0 THEN 2 ELSE 0) \in Int
  BY <1>2
<1> QED
  BY <1>3 DEF printScore, a

LEMMA StatusScoreType ==
  ASSUME NEW r \in InterfaceRecords
  PROVE  statusScore(r) \in Int
  BY DEF InterfaceRecords, statusScore

\* The interface to print on is one with the highest score.
LEMMA PrintIndex ==
  ASSUME NEW cands \in Seq(InterfaceRecords), cands # <<>>
  PROVE  /\ selectedPrintIndex(cands) \in DOMAIN cands
         /\ \A j \in DOMAIN cands :
              printScore(cands[j]) <= printScore(cands[selectedPrintIndex(cands)])
<1> DEFINE m == Len(cands)
           sc == [i \in 1..m |-> printScore(cands[i])]
           T == DOMAIN cands
<1>1. m \in Nat /\ T = 1..m /\ T # {} /\ \A i \in T : cands[i] \in InterfaceRecords
  <2>1. m \in Nat /\ T = 1..m /\ \A i \in T : cands[i] \in InterfaceRecords
    OBVIOUS
  <2>2. m # 0
    BY EmptySeq
  <2>3. 1 \in 1..m
    BY <2>1, <2>2
  <2> QED
    BY <2>1, <2>3
<1>2. sc \in [1..m -> Int]
  BY <1>1, PrintScoreType
<1>3. Top(T, sc) = {i \in T : \A j \in T : printScore(cands[j]) <= printScore(cands[i])}
  BY <1>1 DEF Top
<1>4. selectedPrintIndex(cands) = First(Top(T, sc))
  <2> HIDE DEF sc
  <2> QED
    BY <1>1, <1>3 DEF selectedPrintIndex, Best, First
<1> HIDE DEF m, sc, T
<1>5. First(Top(T, sc)) \in Top(T, sc)
  BY <1>1, <1>2, FirstOfTop
<1> QED
  BY <1>3, <1>4, <1>5 DEF T

\* The status interface, if there is one, has another number.
LEMMA StatusIndex ==
  ASSUME NEW cands \in Seq(InterfaceRecords), NEW print \in DOMAIN cands
  PROVE  LET stat == selectedStatusIndex(cands, print)
         IN  stat # 0 => stat \in DOMAIN cands /\ cands[stat].number # cands[print].number
<1> DEFINE m == Len(cands)
           sc == [i \in 1..m |-> statusScore(cands[i])]
           T == {i \in DOMAIN cands : cands[i].number # cands[print].number}
<1>1. m \in Nat /\ T \in SUBSET (1..m) /\ \A i \in 1..m : cands[i] \in InterfaceRecords
  OBVIOUS
<1>2. sc \in [1..m -> Int]
  BY <1>1, StatusScoreType
<1>3. Top(T, sc) = {i \in T : \A j \in T : statusScore(cands[j]) <= statusScore(cands[i])}
  BY <1>1 DEF Top
<1>4. selectedStatusIndex(cands, print) = IF T = {} THEN 0 ELSE First(Top(T, sc))
  <2> DEFINE top == {i \in T : \A j \in T : statusScore(cands[j]) <= statusScore(cands[i])}
  <2>1. selectedStatusIndex(cands, print)
          = IF T = {} THEN 0 ELSE CHOOSE i \in top : \A j \in top : i <= j
    BY DEF selectedStatusIndex, Best
  <2> HIDE DEF sc, T
  <2>2. Top(T, sc) = top
    BY <1>3
  <2> HIDE DEF top
  <2> QED
    BY <2>1, <2>2 DEF First
<1> HIDE DEF m, sc, T
<1>5. T # {} => First(Top(T, sc)) \in Top(T, sc)
  BY <1>1, <1>2, FirstOfTop
<1>6. selectedStatusIndex(cands, print) # 0 => selectedStatusIndex(cands, print) \in T
  BY <1>3, <1>4, <1>5
<1> QED
  BY <1>6 DEF T

-----------------------------------------------------------------------------
\* An endpoint is found where one is described, and one that is.
LEMMA FoundEndpoint ==
  ASSUME NEW c \in Seq(Descriptors), NEW i \in 1..Len(c), NEW r, Matches(c, Len(c), i, r),
         NEW dir \in {"out", "in"}
  PROVE  /\ Has(c, i, dir) <=> r[dir] # 0
         /\ Has(c, i, dir) => \E j \in Block(c, i) : c[j].dir = dir /\ c[j].address = r[dir]
<1>1. \A j \in Block(c, i) : j <= Len(c) /\ c[j] \in Descriptors /\ c[j].kind = "endpoint"
  <2> TAKE j \in Block(c, i)
  <2>1. j \in 1..Len(c) /\ j > i /\ \A k \in (i + 1)..j : c[k].kind = "endpoint"
    BY DEF Block
  <2>2. c[j].kind = "endpoint"
    BY <2>1
  <2> QED
    BY <2>1
<1>2. \A j \in Block(c, i) : c[j].address # 0
  BY <1>1 DEF Descriptors
<1> QED
  BY <1>1, <1>2 DEF Matches, Has

\* The score of a usable interface is its rank's.
Points(a) ==
  (IF a[1] = 3 THEN 120 ELSE IF a[1] = 2 THEN 90 ELSE 70) + 10 * a[2] + 2 * a[3]

\* A higher rank has more points: no bonus outweighs the protocol.
LEMMA PointsGrow ==
  ASSUME NEW a \in (1..3) \X (0..1) \X (0..1), NEW b \in (1..3) \X (0..1) \X (0..1), Lower(a, b)
  PROVE  Points(a) < Points(b)
<1>1. /\ a[1] \in 1..3 /\ a[2] \in 0..1 /\ a[3] \in 0..1
      /\ b[1] \in 1..3 /\ b[2] \in 0..1 /\ b[3] \in 0..1
  OBVIOUS
<1>2. \/ a[1] < b[1]
      \/ a[1] = b[1] /\ a[2] < b[2]
      \/ a[1] = b[1] /\ a[2] = b[2] /\ a[3] < b[3]
  <2>1. PICK k \in 1..3 : a[k] < b[k] /\ \A m \in 1..(k - 1) : a[m] = b[m]
    BY DEF Lower
  <2>2. CASE k = 1
    BY <2>1, <2>2
  <2>3. CASE k = 2
    BY <2>1, <2>3
  <2>4. CASE k = 3
    BY <2>1, <2>4
  <2> QED
    BY <2>2, <2>3, <2>4
<1> QED
  BY <1>1, <1>2 DEF Points

LEMMA Scored ==
  ASSUME NEW c \in Seq(Descriptors), NEW i \in Offers(c), NEW r \in InterfaceRecords,
         Matches(c, Len(c), i, r)
  PROVE  /\ Rank(c, i) \in (1..3) \X (0..1) \X (0..1)
         /\ printScore(r) = IF Has(c, i, "out") THEN Points(Rank(c, i)) ELSE -1000
<1>1. r.protocol = c[i].protocol /\ r.alt = c[i].alt /\ r.protocol \in {1, 2, 3}
  BY DEF Matches, Offers, RawProtocols
<1>0. i \in 1..Len(c)
  BY DEF Offers
<1>2. (Has(c, i, "out") <=> r.out # 0) /\ (Has(c, i, "in") <=> r.in # 0)
  <2>1. Has(c, i, "out") <=> r["out"] # 0
    BY <1>0, FoundEndpoint
  <2>2. Has(c, i, "in") <=> r["in"] # 0
    BY <1>0, FoundEndpoint
  <2> QED
    BY <2>1, <2>2
<1> DEFINE a == CASE c[i].protocol = 2 -> 3 [] c[i].protocol = 3 -> 2 [] OTHER -> 1
           b == IF Has(c, i, "in") /\ c[i].protocol # 1 THEN 1 ELSE 0
           d == IF c[i].alt = 0 THEN 1 ELSE 0
           p == CASE r.protocol = 2 -> 120 [] r.protocol = 3 -> 90 [] OTHER -> 70
<1>3. /\ a = IF r.protocol = 2 THEN 3 ELSE IF r.protocol = 3 THEN 2 ELSE 1
      /\ b = IF r.in # 0 /\ r.protocol # 1 THEN 1 ELSE 0
      /\ d = IF r.alt = 0 THEN 1 ELSE 0
      /\ p = IF r.protocol = 2 THEN 120 ELSE IF r.protocol = 3 THEN 90 ELSE 70
  BY <1>1, <1>2
<1>4. Rank(c, i) = <<a, b, d>>
  BY DEF Rank
<1>5. printScore(r) = IF Has(c, i, "out")
                      THEN p + (IF r.in # 0 /\ r.protocol # 1 THEN 10 ELSE 0)
                             + (IF r.alt = 0 THEN 2 ELSE 0)
                      ELSE -1000
  BY <1>2 DEF printScore, usableForRawPrint
<1> HIDE DEF a, b, d, p
<1>6. a \in 1..3 /\ b \in 0..1 /\ d \in 0..1
  BY <1>3
<1>7. Rank(c, i) \in (1..3) \X (0..1) \X (0..1)
  BY <1>4, <1>6
<1>8. Points(Rank(c, i)) = p + (IF r.in # 0 /\ r.protocol # 1 THEN 10 ELSE 0)
                             + (IF r.alt = 0 THEN 2 ELSE 0)
  BY <1>1, <1>3, <1>4, <1>6 DEF Points
<1> QED
  BY <1>5, <1>7, <1>8

\* claimInterfaces(): of all that the configuration describes, the interface to
\* print on has a Bulk OUT endpoint if any has one, none of those ranks above it,
\* and the endpoints it is used with are its own.
THEOREM ChoiceIsTheBest ==
  ASSUME NEW c \in Seq(Descriptors), Candidates(c) # <<>>
  PROVE  LET k      == selectedPrintIndex(Candidates(c))
             i      == Position(c, k)
             usable == {j \in Offers(c) : Has(c, j, "out")}
         IN  /\ usable # {} => i \in usable /\ \A j \in usable : ~Lower(Rank(c, i), Rank(c, j))
             /\ \A dir \in {"out", "in"} :
                  IF Has(c, i, dir)
                  THEN \E j \in Block(c, i) :
                         c[j].dir = dir /\ c[j].address = Candidates(c)[k][dir]
                  ELSE Candidates(c)[k][dir] = 0
<1> DEFINE cands == Candidates(c)
           k == selectedPrintIndex(cands)
           i == Position(c, k)
           usable == {j \in Offers(c) : Has(c, j, "out")}
<1>1. /\ cands \in Seq(InterfaceRecords)
      /\ \A h \in DOMAIN cands : /\ Position(c, h) \in Offers(c)
                                 /\ Matches(c, Len(c), Position(c, h), cands[h])
      /\ \A j \in Offers(c) : \E h \in DOMAIN cands : Position(c, h) = j
  BY WalkFinds
<1>2. /\ k \in DOMAIN cands
      /\ \A h \in DOMAIN cands : printScore(cands[h]) <= printScore(cands[k])
  BY <1>1, PrintIndex
<1>3. \A h \in DOMAIN cands : cands[h] \in InterfaceRecords
  BY <1>1
<1> HIDE DEF cands, k
<1>4. i \in Offers(c) /\ Matches(c, Len(c), i, cands[k]) /\ cands[k] \in InterfaceRecords
  BY <1>1, <1>2, <1>3
<1>a. i \in 1..Len(c)
  BY <1>4 DEF Offers
<1> HIDE DEF i
<1>5. ASSUME NEW j \in usable PROVE Has(c, i, "out") /\ ~Lower(Rank(c, i), Rank(c, j))
  <2>1. PICK h \in DOMAIN cands : Position(c, h) = j
    BY <1>1
  <2>2. Matches(c, Len(c), j, cands[h]) /\ cands[h] \in InterfaceRecords /\ j \in Offers(c)
    BY <1>1, <1>3, <2>1
  <2>3. /\ Rank(c, j) \in (1..3) \X (0..1) \X (0..1)
        /\ printScore(cands[h]) = Points(Rank(c, j))
    BY <2>2, Scored
  <2>4. /\ Rank(c, i) \in (1..3) \X (0..1) \X (0..1)
        /\ printScore(cands[k]) = IF Has(c, i, "out") THEN Points(Rank(c, i)) ELSE -1000
    BY <1>4, Scored
  <2>5. printScore(cands[h]) <= printScore(cands[k])
    BY <1>2
  <2>6. Points(Rank(c, j)) \in Nat /\ Points(Rank(c, i)) \in Nat
    <3>1. \A a \in (1..3) \X (0..1) \X (0..1) : Points(a) \in Nat
      BY DEF Points
    <3> QED
      BY <2>3, <2>4, <3>1
  <2>7. Has(c, i, "out")
    BY <2>3, <2>4, <2>5, <2>6
  <2>8. ~(Points(Rank(c, i)) < Points(Rank(c, j)))
    BY <2>3, <2>4, <2>5, <2>6, <2>7
  <2> QED
    BY <2>3, <2>4, <2>7, <2>8, PointsGrow
<1>6. usable # {} => i \in usable /\ \A j \in usable : ~Lower(Rank(c, i), Rank(c, j))
  BY <1>4, <1>5
<1>7. \A dir \in {"out", "in"} :
        IF Has(c, i, dir)
        THEN \E j \in Block(c, i) : c[j].dir = dir /\ c[j].address = cands[k][dir]
        ELSE cands[k][dir] = 0
  BY <1>4, <1>a, FoundEndpoint
<1> QED
  BY <1>6, <1>7 DEF cands, k, i
=============================================================================
