-------------------------- MODULE XnsRoutedProofs ---------------------------
(***************************************************************************)
(* The routing daemon on any number of hosts and networks, joined in any   *)
(* way: no distance is ever underestimated, an entry for an interface is   *)
(* one of the host itself, the kernel's routes stay in step, and no route  *)
(* expires as long as nothing fails.                                       *)
(***************************************************************************)
EXTENDS XnsRouted, PositionsProofs, FiniteSetTheorems, TLAPS

-----------------------------------------------------------------------------
(* Recursions.                                                             *)

\* A recursion up to m that stays in the set X.
Steps(f, a, F, m) == f[0] = a /\ \A i \in 0..m : i < m => f[i + 1] = F[i][f[i]]

LEMMA Bounded ==
    ASSUME NEW X, NEW a \in X, NEW m \in Nat, NEW F,
           \A i \in 0..m : i < m => \A x \in X : F[i][x] \in X
    PROVE  \E f \in [0..m -> X] : Steps(f, a, F, m)
<1>1. PICK g, Y : g \in [Nat -> Y] /\ Recursive(g, a, F)
  BY Recursion
<1> DEFINE T == {i \in Nat : i <= m => g[i] \in X}
           f == [i \in 0..m |-> g[i]]
<1>2. 0 \in T
  BY <1>1 DEF Recursive
<1>3. ASSUME NEW i \in Nat, i \in T
      PROVE  i + 1 \in T
  <2>1. g[i + 1] = F[i][g[i]]
    BY <1>1 DEF Recursive
  <2>2. ASSUME i + 1 <= m
        PROVE  g[i + 1] \in X
    <3>1. i \in 0..m /\ i < m
      BY <2>2
    <3>2. g[i] \in X
      BY <1>3, <3>1
    <3>3. QED
      BY <2>1, <3>1, <3>2
  <2>3. QED
    BY <2>2
<1>4. \A i \in Nat : i \in T
  <2> HIDE DEF T
  <2> QED BY <1>2, <1>3, SetInduction
<1>5. f \in [0..m -> X]
  BY <1>4
<1>6. Steps(f, a, F, m)
  <2>1. f[0] = a
    BY <1>1 DEF Recursive
  <2>2. ASSUME NEW i \in 0..m, i < m
        PROVE  f[i + 1] = F[i][f[i]]
    <3>1. i + 1 \in 0..m /\ i \in Nat
      BY <2>2
    <3>2. QED
      BY <1>1, <3>1 DEF Recursive
  <2> HIDE DEF f
  <2>3. QED
    BY <2>1, <2>2 DEF Steps
<1>7. QED
  BY <1>5, <1>6

\* L is the tables after each network of a response.
Taught(L, slots, from, nets) ==
    /\ Learnt(slots, from, nets) = L[Len(nets)] /\ L[0] = slots
    /\ \A i \in 0..(Len(nets) - 1) : L[i + 1] = Learn(L[i], from, nets[i + 1])

LEMMA LearntSteps ==
    ASSUME NEW X, NEW slots \in X, NEW from, NEW nets, Len(nets) \in Nat,
           \A s \in X : \A i \in 1..Len(nets) : Learn(s, from, nets[i]) \in X
    PROVE  \E L : Taught(L, slots, from, nets)
<1> DEFINE m == Len(nets)
           F == [i \in Nat |-> [s \in X |-> Learn(s, from, nets[i + 1])]]
           D(l, i) == IF i = 0 THEN slots ELSE Learn(l[i - 1], from, nets[i])
           L == CHOOSE l : l = [i \in 0..m |-> D(l, i)]
<1>1. Learnt(slots, from, nets) = L[m]
  BY DEF Learnt
<1>2. \A i \in Nat, s \in X : F[i][s] = Learn(s, from, nets[i + 1])
  OBVIOUS
<1>3. \A i \in 0..m : i < m => i \in Nat /\ i + 1 \in 1..m
  OBVIOUS
<1>4. \A i \in 0..m : i < m => \A s \in X : F[i][s] \in X
  BY <1>2, <1>3
<1> HIDE DEF F
<1>5. PICK f \in [0..m -> X] : Steps(f, slots, F, m)
  BY <1>4, Bounded
<1>6. ASSUME NEW i \in 0..m
      PROVE  f[i] = D(f, i)
  <2>1. CASE i = 0
    BY <1>5, <2>1 DEF Steps
  <2>2. CASE i # 0
    <3>1. i - 1 \in 0..m /\ i - 1 < m /\ (i - 1) + 1 = i
      BY <2>2
    <3>2. f[i] = F[i - 1][f[i - 1]]
      BY <1>5, <3>1 DEF Steps
    <3>3. f[i - 1] \in X
      BY <3>1
    <3>4. QED
      BY <1>2, <2>2, <3>1, <3>2, <3>3
  <2>3. QED
    BY <2>1, <2>2
<1> HIDE DEF D
<1>7. f = [i \in 0..m |-> D(f, i)]
  BY <1>6
<1>8. L = [i \in 0..m |-> D(L, i)]
  BY <1>7
<1> HIDE DEF L
<1>9. L[0] = slots
  BY <1>8 DEF D
<1>10. ASSUME NEW i \in 0..(m - 1)
       PROVE  L[i + 1] = Learn(L[i], from, nets[i + 1])
  <2>1. i + 1 \in 0..m /\ (i + 1) - 1 = i /\ i + 1 # 0
    OBVIOUS
  <2>2. L[i + 1] = D(L, i + 1)
    BY <1>8, <2>1
  <2> QED
    BY <2>1, <2>2 DEF D
<1>11. Taught(L, slots, from, nets)
  BY <1>1, <1>9, <1>10 DEF Taught
<1> QED
  BY <1>11

\* What a response teaches, network by network, stays in any set that the
\* single steps do not leave.
LEMMA LearntIn ==
    ASSUME NEW X, NEW slots \in X, NEW from, NEW nets, Len(nets) \in Nat,
           \A s \in X : \A i \in 1..Len(nets) : Learn(s, from, nets[i]) \in X
    PROVE  Learnt(slots, from, nets) \in X
<1> DEFINE m == Len(nets)
<1>0. PICK L : Taught(L, slots, from, nets)
  BY LearntSteps
<1>1. /\ Learnt(slots, from, nets) = L[m] /\ L[0] = slots
      /\ \A i \in 0..(m - 1) : L[i + 1] = Learn(L[i], from, nets[i + 1])
  BY <1>0 DEF Taught
<1> DEFINE T == {i \in Nat : i <= m => L[i] \in X}
<1>2. 0 \in T
  BY <1>1
<1>3. ASSUME NEW i \in Nat, i \in T
      PROVE  i + 1 \in T
  <2>1. ASSUME i + 1 <= m
        PROVE  L[i + 1] \in X
    <3>1. i \in 0..(m - 1) /\ i + 1 \in 1..m /\ i <= m
      BY <2>1
    <3>2. L[i + 1] = Learn(L[i], from, nets[i + 1])
      BY <1>1, <3>1
    <3>3. L[i] \in X
      BY <1>3, <3>1
    <3>4. QED
      BY <3>1, <3>2, <3>3
  <2>2. QED
    BY <2>1
<1>4. m \in T
  <2> HIDE DEF T
  <2> QED BY <1>2, <1>3, SetInduction
<1>5. QED
  BY <1>1, <1>4

-----------------------------------------------------------------------------
(* Distances.                                                              *)

\* The pairs one hop further than those in w.
Hop(w) == {l \in Hosts \X Nets : \E m \in w :
             /\ m[1] \in Hosts /\ m[2] = l[2]
             /\ \E n \in Nets : {<<l[1], n>>, <<m[1], n>>} \subseteq Links}

LEMMA NearestDef ==
    /\ Nearest[0] = Links
    /\ \A k \in 0..Infinity - 1 : Nearest[k + 1] = Nearest[k] \cup Hop(Nearest[k])
<1> DEFINE X == SUBSET (Hosts \X Nets)
           F == [k \in Nat |-> [w \in X |-> w \cup Hop(w)]]
           D(w, k) == IF k = 0 THEN Links ELSE w[k - 1] \cup Hop(w[k - 1])
           W == CHOOSE w : w = [k \in 0..Infinity |-> D(w, k)]
<1>1. Nearest = W
  BY DEF Nearest, Within, Hop
<1>2. \A k \in Nat, w \in X : F[k][w] = w \cup Hop(w)
  OBVIOUS
<1>3. Links \in X /\ Infinity \in Nat /\ \A w \in X : w \cup Hop(w) \in X
  BY XnsAssumption DEF Hop
<1>4. \A k \in 0..Infinity : k < Infinity => \A w \in X : F[k][w] \in X
  BY <1>2, <1>3
<1> HIDE DEF F, X
<1>5. PICK f \in [0..Infinity -> X] : Steps(f, Links, F, Infinity)
  BY <1>3, <1>4, Bounded
<1>6. ASSUME NEW k \in 0..Infinity
      PROVE  f[k] = D(f, k)
  <2>1. CASE k = 0
    BY <1>5, <2>1 DEF Steps
  <2>2. CASE k # 0
    <3>1. k - 1 \in 0..Infinity /\ k - 1 < Infinity /\ (k - 1) + 1 = k /\ k - 1 \in Nat
      BY <1>3, <2>2
    <3>2. f[k] = F[k - 1][f[k - 1]]
      BY <1>5, <3>1 DEF Steps
    <3>3. f[k - 1] \in X
      BY <3>1
    <3>4. QED
      BY <1>2, <2>2, <3>1, <3>2, <3>3
  <2>3. QED
    BY <2>1, <2>2
<1> HIDE DEF D
<1>7. f = [k \in 0..Infinity |-> D(f, k)]
  BY <1>6
<1>8. W = [k \in 0..Infinity |-> D(W, k)]
  BY <1>7
<1> HIDE DEF W
<1>9. W[0] = Links
  BY <1>3, <1>8 DEF D
<1>10. ASSUME NEW k \in 0..Infinity - 1
       PROVE  W[k + 1] = W[k] \cup Hop(W[k])
  <2>1. k + 1 \in 0..Infinity /\ k + 1 # 0 /\ (k + 1) - 1 = k
    BY <1>3
  <2>2. W[k + 1] = D(W, k + 1)
    BY <1>8, <2>1
  <2>3. QED
    BY <2>1, <2>2 DEF D
<1>11. QED
  BY <1>1, <1>9, <1>10

\* A route learned from a neighbour is one hop longer than his.
LEMMA NearestHop ==
    ASSUME NEW g \in Hosts, NEW h \in Hosts, NEW n \in Nets, NEW k \in 0..Infinity - 1,
           NEW j \in Nets, <<g, j>> \in Links, <<h, j>> \in Links, <<g, n>> \in Nearest[k]
    PROVE  <<h, n>> \in Nearest[k + 1]
<1>1. <<h, n>> \in Hop(Nearest[k])
  BY DEF Hop
<1>2. QED
  BY <1>1, NearestDef

-----------------------------------------------------------------------------
(* One entry.                                                              *)

\* What an entry for network n in the table of host h may be, when h knows
\* the interfaces in known.
OwnEntry(h, known, n, rt) ==
    rt # NoRoute =>
        IF rt.iface
        THEN rt.router = <<h, n>> /\ n \in known /\ rt.metric \in {0, Infinity}
        ELSE rt.router[1] # h /\ <<h, rt.router[2]>> \in Links /\ rt.metric > 0
NearEntry(h, n, rt) ==
    rt # NoRoute /\ rt.metric < Infinity => <<h, n>> \in Nearest[rt.metric]
Fit(h, known, n) ==
    {s \in Slot : OwnEntry(h, known, n, s.rt) /\ NearEntry(h, n, s.rt)}

LEMMA Numbers ==
    /\ Infinity \in Nat /\ Infinity > 1 /\ Garbage \in Nat /\ Garbage > 0
    /\ Expire \in Nat /\ Check \in Nat /\ Check > 0 /\ NumNets \in Nat
    /\ \A l \in Links : l = <<l[1], l[2]>> /\ l[1] \in Hosts /\ l[2] \in Nets
  BY XnsAssumption

LEMMA EntryIs == \A e \in Entry : e # NoRoute /\ e.router # NoRoute
<1>1. Entry \subseteq [router : Links, metric : Nat, timer : Nat, iface : BOOLEAN]
  BY Numbers DEF Entry
<1>2. QED
  BY <1>1, NoRouteAssumption DEF Entry

LEMMA SlotIs == \A s \in Slot : /\ s.rt \in Entry \cup {NoRoute}
                                /\ s.kern \in Links \cup {NoRoute}
  BY DEF Slot

LEMMA AddIs ==
    ASSUME NEW s \in Slot, NEW gate \in Links, NEW metric \in 0..Infinity,
           NEW iface \in BOOLEAN
    PROVE  /\ rtadd(s, gate, metric, iface) \in Slot
           /\ rtadd(s, gate, metric, iface).rt # NoRoute
           /\ rtadd(s, gate, metric, iface).rt.router = gate
           /\ rtadd(s, gate, metric, iface).rt.metric = metric
           /\ rtadd(s, gate, metric, iface).rt.iface = iface
           /\ s.kern = NoRoute => rtadd(s, gate, metric, iface).kern = gate
<1> DEFINE e == [router |-> gate, metric |-> metric, timer |-> 0, iface |-> iface]
<1>1. e \in Entry
  BY Numbers DEF Entry
<1>2. rtadd(s, gate, metric, iface) =
          [rt |-> e, kern |-> IF s.kern = NoRoute THEN gate ELSE s.kern]
  BY DEF rtadd
<1>3. e.router = gate /\ e.metric = metric /\ e.iface = iface
  OBVIOUS
<1> HIDE DEF e
<1>4. QED
  BY <1>1, <1>2, <1>3, EntryIs, SlotIs DEF Slot

LEMMA ChangeIs ==
    ASSUME NEW s \in Slot, s.rt # NoRoute, NEW gate \in Links, NEW metric \in 0..Infinity
    PROVE  /\ rtchange(s, gate, metric) \in Slot
           /\ rtchange(s, gate, metric).rt # NoRoute
           /\ rtchange(s, gate, metric).rt.router = gate
           /\ rtchange(s, gate, metric).rt.metric = metric
           /\ rtchange(s, gate, metric).rt.iface = (s.rt.iface /\ metric = 0)
           /\ InStep(s) => rtchange(s, gate, metric).kern = gate
<1> DEFINE b == StaysIface(s, metric)
           e == [s.rt EXCEPT !.router = gate, !.metric = metric, !.timer = 0, !.iface = b]
<1>1. s.rt \in Entry /\ s.rt.iface \in BOOLEAN
  BY SlotIs DEF Entry
<1>2. b = (s.rt.iface /\ metric = 0) /\ b \in BOOLEAN
  BY <1>1 DEF StaysIface
<1> HIDE DEF b
<1>3. /\ e \in Entry
      /\ e.router = gate /\ e.metric = metric /\ e.iface = b
  <2>1. /\ DOMAIN e = DOMAIN s.rt /\ e.router = gate /\ e.metric = metric /\ e.timer = 0
    BY <1>1 DEF Entry
  <2>2. e.iface = b
    BY <1>1 DEF Entry
  <2>3. e \in Entry
    <3> DEFINE d == [s.rt EXCEPT !.router = gate, !.metric = metric, !.timer = 0]
    <3>1. d \in Entry
      <4>1. 0 \in 0..(Garbage - 1)
        BY Numbers
      <4>2. \A r \in Entry : /\ [r EXCEPT !.router = gate] \in Entry
                             /\ [r EXCEPT !.metric = metric] \in Entry
                             /\ [r EXCEPT !.timer = 0] \in Entry
        BY <4>1 DEF Entry
      <4>3. QED
        BY <1>1, <4>2, Zenon
    <3>2. e = [d EXCEPT !.iface = b]
      BY <1>1 DEF Entry
    <3> HIDE DEF d, e
    <3>3. \A x \in BOOLEAN : [d EXCEPT !.iface = x] \in Entry
      BY <3>1 DEF Entry
    <3>4. QED
      BY <1>2, <3>2, <3>3, Zenon
  <2>4. QED
    BY <2>1, <2>2, <2>3
<1>4. rtchange(s, gate, metric) =
          [rt |-> e, kern |-> IF DoIoctl(s, gate) /\ s.kern # NoRoute
                              THEN gate ELSE s.kern]
  BY DEF rtchange, b
<1> HIDE DEF e
<1>5. InStep(s) => rtchange(s, gate, metric).kern = gate
  BY <1>1, <1>4, EntryIs DEF InStep, DoIoctl
<1>6. QED
  BY <1>2, <1>3, <1>4, <1>5, EntryIs, SlotIs DEF Slot

LEMMA DeleteIs == \A s : /\ rtdelete(s) \in Slot
                         /\ rtdelete(s).rt = NoRoute /\ rtdelete(s).kern = NoRoute
  BY DEF rtdelete, Slot

\* addrouteforif(): the entry of an interface.
LEMMA IfaceFits ==
    ASSUME NEW h \in Hosts, NEW known, NEW n \in known, <<h, n>> \in Links,
           NEW s \in Slot
    PROVE  /\ addrouteforif(h, n, s) \in Fit(h, known, n)
           /\ InStep(s) => InStep(addrouteforif(h, n, s))
<1> DEFINE o == IF s.rt = NoRoute THEN s ELSE rtdelete(s)
           r == rtadd(o, <<h, n>>, 0, TRUE)
<1>1. o \in Slot /\ (InStep(s) => o.kern = NoRoute)
  BY DeleteIs DEF InStep
<1>2. addrouteforif(h, n, s) = r
  BY DEF addrouteforif
<1> HIDE DEF o
<1>3. /\ r \in Slot /\ r.rt # NoRoute /\ r.rt.router = <<h, n>> /\ r.rt.metric = 0
      /\ r.rt.iface = TRUE /\ (o.kern = NoRoute => r.kern = <<h, n>>)
  <2>1. 0 \in 0..Infinity /\ TRUE \in BOOLEAN
    BY Numbers
  <2>2. \A l \in Links, k \in 0..Infinity, b \in BOOLEAN :
            LET q == rtadd(o, l, k, b)
            IN  /\ q \in Slot /\ q.rt # NoRoute /\ q.rt.router = l /\ q.rt.metric = k
                /\ q.rt.iface = b /\ (o.kern = NoRoute => q.kern = l)
    BY <1>1, AddIs
  <2>3. QED
    BY <2>1, <2>2, ZenonT(60)
<1> HIDE DEF r
<1>4. OwnEntry(h, known, n, r.rt)
  BY <1>3 DEF OwnEntry
<1>5. NearEntry(h, n, r.rt)
  BY <1>3, NearestDef DEF NearEntry
<1>6. InStep(s) => InStep(r)
  BY <1>1, <1>3 DEF InStep
<1>7. QED
  BY <1>2, <1>3, <1>4, <1>5, <1>6 DEF Fit

\* timer(): an entry grows old.
LEMMA AgedFits ==
    ASSUME NEW h, NEW known, NEW n, NEW s \in Fit(h, known, n), NEW supplies
    PROVE  /\ Aged(s, supplies) \in Fit(h, known, n)
           /\ InStep(s) => InStep(Aged(s, supplies))
<1>0. s \in Slot /\ OwnEntry(h, known, n, s.rt) /\ NearEntry(h, n, s.rt)
  BY DEF Fit
<1>1. CASE s.rt = NoRoute
  BY <1>1 DEF Aged
<1>2. CASE s.rt # NoRoute
  <2> DEFINE t == s.rt.timer + (IF GrowsOld(s.rt, supplies) THEN 1 ELSE 0)
             m == IF t >= Expire THEN Infinity ELSE s.rt.metric
             e == [s.rt EXCEPT !.timer = t, !.metric = m]
             r == [s EXCEPT !.rt.timer = t,
                            !.rt.metric = IF t >= Expire THEN Infinity ELSE @]
  <2>1. s.rt \in Entry
    BY <1>0, <1>2, SlotIs
  <2>2. t \in Nat /\ m \in {Infinity, s.rt.metric} /\ m \in 0..Infinity
    BY <2>1, Numbers DEF Entry
  <2>3. Aged(s, supplies) = IF t >= Garbage THEN rtdelete(s) ELSE r
    BY <1>2 DEF Aged
  <2>4. CASE t >= Garbage
    <3>1. Aged(s, supplies).rt = NoRoute /\ Aged(s, supplies) \in Slot
             /\ Aged(s, supplies).kern = NoRoute
      BY <2>3, <2>4, DeleteIs
    <3>2. QED
      BY <3>1 DEF Fit, OwnEntry, NearEntry, InStep
  <2>5. CASE ~(t >= Garbage)
    <3>1. r = [s EXCEPT !.rt = e]
      BY <1>0, <2>1 DEF Slot, Entry
    <3>2. t \in 0..Garbage - 1
      BY <2>2, <2>5, Numbers
    <3> HIDE DEF t, m
    <3>3. /\ e \in Entry /\ e.metric = m /\ e.router = s.rt.router
          /\ e.iface = s.rt.iface
      BY <2>1, <2>2, <3>2 DEF Entry
    <3> HIDE DEF e
    <3>4. r.rt = e /\ r.kern = s.kern /\ r \in Slot
      BY <1>0, <3>1, <3>3 DEF Slot
    <3> HIDE DEF r
    <3>5. OwnEntry(h, known, n, e)
      BY <1>0, <1>2, <2>2, <3>3, Numbers DEF OwnEntry
    <3>6. NearEntry(h, n, e)
      BY <1>0, <1>2, <2>2, <3>3, Numbers DEF NearEntry
    <3>7. InStep(s) => InStep(r)
      BY <1>2, <3>3, <3>4, EntryIs DEF InStep
    <3>8. Aged(s, supplies) = r
      BY <2>3, <2>5
    <3>9. QED
      BY <3>4, <3>5, <3>6, <3>7, <3>8 DEF Fit
  <2>6. QED
    BY <2>4, <2>5
<1>3. QED
  BY <1>1, <1>2

-----------------------------------------------------------------------------
(* One table.                                                              *)

Table(h, known) == {t \in [Nets -> Slot] : \A n \in Nets : t[n] \in Fit(h, known, n)}

\* The tables that keep the kernel's routes in step where table old does.
After(h, known, old) ==
    {t \in Table(h, known) : \A n \in Nets : InStep(old[n]) => InStep(t[n])}

LEMMA AfterIs ==
    ASSUME NEW h, NEW known, NEW old, NEW t \in [Nets -> Slot],
           \A n \in Nets : /\ t[n] \in Fit(h, known, n)
                           /\ InStep(old[n]) => InStep(t[n])
    PROVE  t \in After(h, known, old)
  BY DEF After, Table

LEMMA AfterAfter ==
    ASSUME NEW h, NEW known, NEW k, NEW old, NEW s \in After(h, k, old),
           NEW t \in After(h, known, s)
    PROVE  t \in After(h, known, old)
  BY DEF After

\* One entry changes.
LEMMA AfterChange ==
    ASSUME NEW h, NEW known, NEW old, NEW t \in After(h, known, old), NEW n \in Nets,
           NEW s \in Fit(h, known, n), InStep(t[n]) => InStep(s)
    PROVE  [t EXCEPT ![n] = s] \in After(h, known, old)
<1> DEFINE u == [t EXCEPT ![n] = s]
<1>1. t \in [Nets -> Slot] /\ s \in Slot
  BY DEF After, Table, Fit
<1>2. u \in [Nets -> Slot] /\ u[n] = s /\ \A k \in Nets : k # n => u[k] = t[k]
  BY <1>1
<1> HIDE DEF u
<1>3. \A k \in Nets : u[k] \in Fit(h, known, k) /\ (InStep(old[k]) => InStep(u[k]))
  BY <1>2 DEF After, Table
<1>4. u \in After(h, known, old)
  BY <1>2, <1>3, AfterIs
<1>5. QED
  BY <1>4 DEF u

\* What a packet may say to host h: nothing better than the truth.
Lesson(h, e) == \/ e.metric >= Infinity
                \/ /\ e.net \in Nets /\ e.metric \in 1..Infinity
                   /\ <<h, e.net>> \in Nearest[e.metric]

\* rip_input() of one network of a response of another host.
LEMMA LearnFits ==
    ASSUME NEW h \in Hosts, NEW known, NEW old, NEW t \in After(h, known, old),
           NEW from \in Links, from[1] # h, <<h, from[2]>> \in Links,
           NEW e, Lesson(h, e)
    PROVE  Learn(t, from, e) \in After(h, known, old)
<1>1. CASE e.metric >= Infinity
  BY <1>1 DEF Learn
<1>2. CASE ~(e.metric >= Infinity)
  <2> DEFINE n == e.net
             m == e.metric
             s == t[n]
             a == rtadd(s, from, m, FALSE)
             c == rtchange(s, from, m)
  <2>1. n \in Nets /\ m \in 1..Infinity /\ <<h, n>> \in Nearest[m] /\ m \in 0..Infinity
           /\ m > 0 /\ m # 0
    BY <1>2, Numbers DEF Lesson
  <2>2. s \in Slot /\ t \in [Nets -> Slot]
    BY <2>1 DEF After, Table
  <2>3. Learn(t, from, e) = IF s.rt = NoRoute THEN [t EXCEPT ![n] = a]
                            ELSE IF Updates(s.rt, from, m) THEN [t EXCEPT ![n] = c]
                            ELSE t
    BY <1>2 DEF Learn
  <2> HIDE DEF n, m
  <2>4. ASSUME NEW r \in Slot, r.rt # NoRoute, r.rt.router = from, r.rt.metric = m,
               ~r.rt.iface, InStep(s) => r.kern = from
        PROVE  [t EXCEPT ![n] = r] \in After(h, known, old)
    <3>1. OwnEntry(h, known, n, r.rt)
      BY <2>1, <2>4 DEF OwnEntry
    <3>2. NearEntry(h, n, r.rt)
      BY <2>1, <2>4 DEF NearEntry
    <3>3. InStep(s) => InStep(r)
      BY <2>4 DEF InStep
    <3>4. r \in Fit(h, known, n)
      BY <2>4, <3>1, <3>2 DEF Fit
    <3>5. QED
      BY <2>1, <3>3, <3>4, AfterChange
  <2>5. CASE s.rt = NoRoute
    <3>1. FALSE \in BOOLEAN
      OBVIOUS
    <3>2. /\ a \in Slot /\ a.rt # NoRoute /\ a.rt.router = from /\ a.rt.metric = m
          /\ a.rt.iface = FALSE /\ (s.kern = NoRoute => a.kern = from)
      <4> HIDE DEF s
      <4>1. \A b \in BOOLEAN :
              LET q == rtadd(s, from, m, b)
              IN  /\ q \in Slot /\ q.rt # NoRoute /\ q.rt.router = from
                  /\ q.rt.metric = m /\ q.rt.iface = b
                  /\ (s.kern = NoRoute => q.kern = from)
        BY <2>1, <2>2, AddIs
      <4>2. QED
        BY <3>1, <4>1, Zenon
    <3>3. InStep(s) => a.kern = from
      BY <2>5, <3>2 DEF InStep
    <3> HIDE DEF a, s
    <3>4. QED
      BY <2>3, <2>4, <2>5, <3>2, <3>3
  <2>6. CASE s.rt # NoRoute /\ Updates(s.rt, from, m)
    <3>1. /\ c \in Slot /\ c.rt # NoRoute /\ c.rt.router = from /\ c.rt.metric = m
          /\ c.rt.iface = (s.rt.iface /\ m = 0) /\ (InStep(s) => c.kern = from)
      <4> HIDE DEF s
      <4>1. QED
        BY <2>1, <2>2, <2>6, ChangeIs
    <3>2. ~c.rt.iface
      BY <2>1, <3>1
    <3> HIDE DEF c, s
    <3>3. QED
      BY <2>3, <2>4, <2>6, <3>1, <3>2
  <2>7. QED
    BY <2>3, <2>5, <2>6
<1>3. QED
  BY <1>1, <1>2

LEMMA LearntFits ==
    ASSUME NEW h \in Hosts, NEW known, NEW old, NEW t \in After(h, known, old),
           NEW from \in Links, from[1] # h, <<h, from[2]>> \in Links,
           NEW nets, Len(nets) \in Nat,
           \A i \in 1..Len(nets) : Lesson(h, nets[i])
    PROVE  Learnt(t, from, nets) \in After(h, known, old)
<1> DEFINE X == After(h, known, old)
<1>1. \A s \in X : \A i \in 1..Len(nets) : Learn(s, from, nets[i]) \in X
  BY LearnFits
<1> HIDE DEF X
<1>2. Learnt(t, from, nets) \in X
  <2>1. t \in X
    BY DEF X
  <2>2. QED
    BY <1>1, <2>1, LearntIn
<1>3. QED
  BY <1>2 DEF X

\* The timer of an interface that has been heard is reset.
LEMMA HeardFits ==
    ASSUME NEW h, NEW known, NEW t \in Table(h, known), NEW n \in Nets
    PROVE  Heard(t, n) \in After(h, known, t)
<1>0. t \in [Nets -> Slot] /\ t \in After(h, known, t)
  BY DEF After, Table
<1>1. CASE ~(t[n].rt # NoRoute /\ t[n].rt.iface)
  BY <1>0, <1>1 DEF Heard
<1>2. CASE t[n].rt # NoRoute /\ t[n].rt.iface
  <2> DEFINE s == t[n]
             e == [s.rt EXCEPT !.timer = 0]
             r == [s EXCEPT !.rt = e]
  <2>1. s \in Slot /\ s.rt \in Entry
    BY <1>0, <1>2, SlotIs
  <2>2. /\ e \in Entry /\ e.metric = s.rt.metric /\ e.router = s.rt.router
        /\ e.iface = s.rt.iface
    <3>1. 0 \in 0..(Garbage - 1)
      BY Numbers
    <3>2. QED
      BY <2>1, <3>1 DEF Entry
  <2>3. Heard(t, n) = [t EXCEPT ![n] = r]
    BY <1>0, <1>2, <2>1 DEF Heard, Slot, Entry
  <2>4. r.rt = e /\ r.kern = s.kern /\ r \in Slot
    <3> HIDE DEF e
    <3>1. QED
      BY <2>1, <2>2 DEF Slot
  <2>5. OwnEntry(h, known, n, s.rt) /\ NearEntry(h, n, s.rt)
    BY DEF Table, Fit
  <2> HIDE DEF r, e, s
  <2>6. OwnEntry(h, known, n, r.rt)
    BY <2>1, <2>2, <2>4, <2>5, EntryIs DEF OwnEntry
  <2>7. NearEntry(h, n, r.rt)
    BY <2>1, <2>2, <2>4, <2>5, EntryIs DEF NearEntry
  <2>8. InStep(s) => InStep(r)
    BY <2>1, <2>2, <2>4, EntryIs DEF InStep
  <2>9. r \in Fit(h, known, n)
    BY <2>4, <2>6, <2>7 DEF Fit
  <2>10. [t EXCEPT ![n] = r] \in After(h, known, t)
    BY <1>0, <2>8, <2>9, AfterChange DEF s
  <2>11. QED
    BY <2>3, <2>10
<1>3. QED
  BY <1>1, <1>2

LEMMA HeardSelfFits ==
    ASSUME NEW h \in Hosts, NEW known, NEW t \in Table(h, known), NEW n \in known,
           <<h, n>> \in Links
    PROVE  HeardSelf(h, t, n) \in After(h, known, t)
<1>0. t \in [Nets -> Slot] /\ t \in After(h, known, t) /\ n \in Nets
  BY Numbers DEF After, Table
<1>1. CASE t[n].rt = NoRoute \/ ~t[n].rt.iface
  <2> DEFINE r == addrouteforif(h, n, t[n])
  <2>1. r \in Fit(h, known, n) /\ (InStep(t[n]) => InStep(r))
    BY <1>0, IfaceFits
  <2>2. HeardSelf(h, t, n) = [t EXCEPT ![n] = r]
    BY <1>0, <1>1 DEF HeardSelf
  <2> HIDE DEF r
  <2>3. [t EXCEPT ![n] = r] \in After(h, known, t)
    BY <1>0, <2>1, AfterChange
  <2>4. QED
    BY <2>2, <2>3
<1>2. CASE ~(t[n].rt = NoRoute \/ ~t[n].rt.iface)
  BY <1>0, <1>2, HeardFits DEF HeardSelf
<1>3. QED
  BY <1>1, <1>2

\* What may be said in a packet that host h gets.
Message(h, p) ==
    /\ p.from \in Links /\ <<h, p.from[2]>> \in Links
    /\ p.from[1] = h => p.from[2] \in ifnet[h]
    /\ Len(p.nets) \in Nat
    /\ p.from[1] # h => \A i \in 1..Len(p.nets) : Lesson(h, p.nets[i])

LEMMA ResponseFits ==
    ASSUME NEW h \in Hosts, NEW known, ifnet[h] \subseteq known,
           NEW t \in Table(h, known), NEW p, Message(h, p)
    PROVE  Response(h, t, p) \in After(h, known, t)
<1>0. p.from = <<p.from[1], p.from[2]>> /\ p.from[2] \in Nets
  BY Numbers DEF Message
<1>1. CASE p.from[1] = h
  BY <1>0, <1>1, HeardSelfFits DEF Message, Response
<1>2. CASE p.from[1] # h
  <2>1. Heard(t, p.from[2]) \in After(h, known, t)
    BY <1>0, HeardFits
  <2>2. Learnt(Heard(t, p.from[2]), p.from, p.nets) \in After(h, known, t)
    BY <1>2, <2>1, LearntFits DEF Message
  <2>3. QED
    BY <1>2, <2>2 DEF Response
<1>3. QED
  BY <1>1, <1>2

LEMMA FitGrows ==
    ASSUME NEW h, NEW k, NEW known, k \subseteq known, NEW n
    PROVE  Fit(h, k, n) \subseteq Fit(h, known, n)
  BY DEF Fit, OwnEntry

\* ifinit(): the new interfaces get their entries.
LEMMA IfinitFits ==
    ASSUME NEW h \in Hosts, up \subseteq Links, NEW t \in Table(h, ifnet[h])
    PROVE  ifinit(h, t) \in After(h, ifnet[h] \cup Found(h), t)
<1> DEFINE known == ifnet[h] \cup Found(h)
           u == ifinit(h, t)
<1>1. u = [n \in Nets |-> IF n \in Found(h) THEN addrouteforif(h, n, t[n]) ELSE t[n]]
  BY DEF ifinit
<1> HIDE DEF u
<1>2. ASSUME NEW n \in Nets
      PROVE  /\ u[n] \in Fit(h, known, n) /\ u[n] \in Slot
             /\ InStep(t[n]) => InStep(u[n])
  <2>1. t[n] \in Fit(h, ifnet[h], n) /\ t[n] \in Slot
    BY DEF Table
  <2>2. CASE n \in Found(h)
    <3>1. n \in known /\ <<h, n>> \in Links
      BY <2>2 DEF Found
    <3>2. /\ addrouteforif(h, n, t[n]) \in Fit(h, known, n)
          /\ InStep(t[n]) => InStep(addrouteforif(h, n, t[n]))
      <4> HIDE DEF known
      <4>1. QED
        BY <2>1, <3>1, IfaceFits
    <3>3. u[n] = addrouteforif(h, n, t[n])
      BY <1>1, <2>2
    <3>4. QED
      BY <3>2, <3>3 DEF Fit
  <2>3. CASE n \notin Found(h)
    <3>1. u[n] = t[n]
      BY <1>1, <2>3
    <3>2. QED
      BY <2>1, <3>1, FitGrows
  <2>4. QED
    BY <2>2, <2>3
<1>3. u \in [Nets -> Slot]
  BY <1>1, <1>2
<1> HIDE DEF known
<1>4. u \in After(h, known, t)
  BY <1>2, <1>3, AfterIs
<1>5. QED
  BY <1>4 DEF u, known

\* The table after timer().
LEMMA AgedTable ==
    ASSUME NEW h, NEW known, NEW t \in Table(h, known), NEW supplies
    PROVE  [n \in Nets |-> Aged(t[n], supplies)] \in After(h, known, t)
<1> DEFINE u == [n \in Nets |-> Aged(t[n], supplies)]
<1>1. ASSUME NEW n \in Nets
      PROVE  /\ u[n] \in Fit(h, known, n) /\ u[n] \in Slot
             /\ InStep(t[n]) => InStep(u[n])
  <2>1. t[n] \in Fit(h, known, n)
    BY DEF Table
  <2>2. /\ Aged(t[n], supplies) \in Fit(h, known, n)
        /\ InStep(t[n]) => InStep(Aged(t[n], supplies))
    BY <2>1, AgedFits
  <2>3. QED
    BY <2>2 DEF Fit
<1>2. u \in [Nets -> Slot]
  BY <1>1
<1> HIDE DEF u
<1>3. u \in After(h, known, t)
  BY <1>1, <1>2, AfterIs
<1>4. QED
  BY <1>3 DEF u

LEMMA TimerFits ==
    ASSUME NEW h \in Hosts, up \subseteq Links, routes[h] \in Table(h, ifnet[h])
    PROVE  AfterTimer(h) \in After(h, Known(h), routes[h])
<1> DEFINE t == IF Due(h) THEN ifinit(h, routes[h]) ELSE routes[h]
<1>1. t \in After(h, Known(h), routes[h])
  <2>1. CASE Due(h)
    BY <2>1, IfinitFits DEF Known
  <2>2. CASE ~Due(h)
    BY <2>2 DEF Known, After
  <2>3. QED
    BY <2>1, <2>2
<1>2. AfterTimer(h) = [n \in Nets |-> Aged(t[n], h \in supplier)]
  BY DEF AfterTimer
<1> HIDE DEF t
<1>3. t \in Table(h, Known(h))
  BY <1>1 DEF After
<1>4. AfterTimer(h) \in After(h, Known(h), t)
  BY <1>2, <1>3, AgedTable
<1>5. QED
  BY <1>1, <1>4, AfterAfter

-----------------------------------------------------------------------------
(* Packets.                                                                *)

\* What host g may say of networks: their distances from it, and one more.
Said(g) == {e \in [net : Nets, metric : 1..Infinity] :
              e.metric < Infinity => <<g, e.net>> \in Nearest[e.metric - 1]}

LEMMA FurtherIs ==
    ASSUME NEW m \in 0..Infinity
    PROVE  /\ Further(m) \in 1..Infinity
           /\ Further(m) < Infinity => m < Infinity /\ Further(m) - 1 = m
  BY Numbers DEF Further

LEMMA SuppliedIs ==
    ASSUME NEW h, NEW known, NEW t \in Table(h, known)
    PROVE  Supplied(t) \in Seq(Said(h))
<1> DEFINE S == {n \in Nets : t[n].rt # NoRoute}
           ns == Positions(S)[NumNets]
           v == [i \in DOMAIN ns |-> [net |-> ns[i], metric |-> Further(t[ns[i]].rt.metric)]]
<1>1. ns \in Seq(Nets) /\ \A i \in DOMAIN ns : ns[i] \in S
  BY PositionsType, PositionsIn, Numbers DEF Nets
<1>2. Supplied(t) = v
  BY DEF Supplied
<1> HIDE DEF ns
<1>3. ASSUME NEW i \in DOMAIN ns
      PROVE  [net |-> ns[i], metric |-> Further(t[ns[i]].rt.metric)] \in Said(h)
  <2> DEFINE n == ns[i]
             m == t[n].rt.metric
             e == [net |-> n, metric |-> Further(m)]
  <2>1. n \in Nets /\ t[n].rt # NoRoute /\ t[n] \in Fit(h, known, n) /\ t[n] \in Slot
    BY <1>1 DEF Table
  <2> HIDE DEF n
  <2>2. m \in 0..Infinity /\ (m < Infinity => <<h, n>> \in Nearest[m])
    BY <2>1, SlotIs DEF Entry, Fit, NearEntry
  <2> HIDE DEF m
  <2>3. /\ Further(m) \in 1..Infinity
        /\ Further(m) < Infinity => m < Infinity /\ Further(m) - 1 = m
    BY <2>2, FurtherIs
  <2>4. e.net = n /\ e.metric = Further(m) /\ e \in [net : Nets, metric : 1..Infinity]
    BY <2>1, <2>3
  <2> HIDE DEF e
  <2>5. e \in Said(h)
    BY <2>2, <2>3, <2>4 DEF Said
  <2>6. QED
    BY <2>5 DEF e, m, n
<1>4. Len(ns) \in Nat /\ DOMAIN ns = 1..Len(ns)
  BY <1>1
<1>5. v \in Seq(Said(h))
  BY <1>3, <1>4
<1>6. QED
  BY <1>2, <1>5

Asked == <<[net |-> 0, metric |-> Infinity]>>

\* The packets in the socket of host h, which knows the interfaces in known.
Mail(h, known) ==
    {p \in Packets : /\ <<h, p.from[2]>> \in Links
                     /\ p.from[1] = h => p.from[2] \in known
                     /\ \/ p.cmd = "response" /\ p.nets \in Seq(Said(p.from[1]))
                        \/ p.cmd = "request" /\ p.nets = Asked}

\* The sockets of all hosts; K has the interfaces each one knows.
Boxes(K) == {q \in [Hosts -> Seq(Packets)] :
               \A g \in Hosts : q[g] \in Seq(Mail(g, K[g]))}

\* What a host h may put into a packet.
Text(h, cmd, nets) == \/ cmd = "response" /\ nets \in Seq(Said(h))
                      \/ cmd = "request" /\ nets = Asked

LEMMA SaidIs ==
    \A h : Said(h) \subseteq [net : 0..NumNets, metric : 0..Infinity]
<1>1. Nets \subseteq 0..NumNets /\ 1..Infinity \subseteq 0..Infinity
  BY Numbers DEF Nets
<1>2. [net : Nets, metric : 1..Infinity] \subseteq [net : 0..NumNets, metric : 0..Infinity]
  BY <1>1
<1>3. QED
  BY <1>2 DEF Said

LEMMA PacketIs ==
    ASSUME NEW h \in Hosts, NEW g \in Hosts, NEW n, {<<h, n>>, <<g, n>>} \subseteq Links,
           NEW known, g = h => n \in known, NEW cmd, NEW nets, Text(h, cmd, nets)
    PROVE  Packet(cmd, <<h, n>>, nets) \in Mail(g, known)
<1> DEFINE p == Packet(cmd, <<h, n>>, nets)
           R == [net : 0..NumNets, metric : 0..Infinity]
<1>1. nets \in Seq(R)
  <2>1. CASE nets \in Seq(Said(h))
    <3>1. Said(h) \subseteq R
      BY SaidIs
    <3> HIDE DEF R
    <3>2. QED
      BY <2>1, <3>1, SeqMonotonic
  <2>2. CASE nets = Asked
    <3>1. [net |-> 0, metric |-> Infinity] \in R
      BY Numbers
    <3> DEFINE a == [net |-> 0, metric |-> Infinity]
    <3> HIDE DEF R, a
    <3>2. <<a>> \in Seq(R)
      BY <3>1 DEF a
    <3>3. QED
      BY <2>2, <3>2 DEF Asked, a
  <2>3. QED
    BY <2>1, <2>2 DEF Text
<1>2. p = [cmd |-> cmd, from |-> <<h, n>>, nets |-> nets]
  BY DEF Packet
<1>3. cmd \in {"request", "response"}
  BY DEF Text
<1> HIDE DEF R
<1>4. p \in [cmd : {"request", "response"}, from : Links, nets : Seq(R)]
  BY <1>1, <1>2, <1>3
<1>5. p.cmd = cmd /\ p.from = <<h, n>> /\ p.nets = nets
  BY <1>2
<1> HIDE DEF p
<1>6. p \in Packets
  BY <1>4 DEF Packets, R
<1>7. p.from[1] = h /\ p.from[2] = n
  BY <1>5
<1>8. p \in Mail(g, known)
  BY <1>5, <1>6, <1>7 DEF Mail, Text
<1>9. QED
  BY <1>8 DEF p

\* toall(): each host that runs gets a packet on every network in common.
LEMMA ToallIs ==
    ASSUME NEW h \in Hosts, up \subseteq Links, NEW K, K[h] \subseteq Nets,
           NEW q \in Boxes(K), NEW cmd, NEW nets, Text(h, cmd, nets)
    PROVE  /\ Toall(h, q, K[h], cmd, nets) \in Boxes(K)
           /\ \A g \in Hosts : g \notin alive \cup {h} =>
                 Toall(h, q, K[h], cmd, nets)[g] = q[g]
<1> DEFINE N(g) == Positions(Between(h, g, K[h]))[NumNets]
           A(g) == [i \in DOMAIN N(g) |-> Packet(cmd, <<h, N(g)[i]>>, nets)]
           r == Toall(h, q, K[h], cmd, nets)
<1>1. r = [g \in Hosts |-> IF g \notin alive \cup {h} THEN q[g] ELSE q[g] \o A(g)]
  BY DEF Toall
<1>2. ASSUME NEW g \in Hosts
      PROVE  A(g) \in Seq(Mail(g, K[g]))
  <2>1. /\ N(g) \in Seq(1..NumNets)
        /\ \A i \in DOMAIN N(g) : N(g)[i] \in Between(h, g, K[h])
    BY PositionsType, PositionsIn, Numbers
  <2> HIDE DEF N
  <2>2. \A i \in DOMAIN N(g) : Packet(cmd, <<h, N(g)[i]>>, nets) \in Mail(g, K[g])
    <3>1. \A n \in Between(h, g, K[h]) :
             n \in K[h] /\ {<<h, n>>, <<g, n>>} \subseteq Links
      BY DEF Between
    <3>2. \A n \in Between(h, g, K[h]) : Packet(cmd, <<h, n>>, nets) \in Mail(g, K[g])
      BY <3>1, PacketIs
    <3>3. QED
      BY <2>1, <3>2
  <2>3. Len(N(g)) \in Nat /\ DOMAIN N(g) = 1..Len(N(g))
    BY <2>1
  <2> DEFINE M == Mail(g, K[g])
  <2>4. \A i \in DOMAIN N(g) : A(g)[i] \in M
    BY <2>2
  <2>5. DOMAIN A(g) = 1..Len(N(g))
    BY <2>3
  <2> HIDE DEF A, M
  <2>6. A(g) \in [1..Len(N(g)) -> M]
    BY <2>2, <2>3 DEF A, M
  <2>7. A(g) \in Seq(M)
    BY <2>3, <2>6
  <2>8. QED
    BY <2>7 DEF M
<1> HIDE DEF A
<1>3. \A g \in Hosts : q[g] \in Seq(Mail(g, K[g])) /\ q[g] \in Seq(Packets)
  BY DEF Boxes
<1>4. \A g : Mail(g, K[g]) \subseteq Packets
  BY DEF Mail
<1>5. \A g \in Hosts : q[g] \o A(g) \in Seq(Mail(g, K[g]))
  BY <1>2, <1>3, ConcatProperties
<1>6. \A g \in Hosts : q[g] \o A(g) \in Seq(Packets)
  BY <1>4, <1>5, SeqMonotonic
<1>7. \A g \in Hosts : /\ r[g] \in {q[g], q[g] \o A(g)}
                       /\ g \notin alive \cup {h} => r[g] = q[g]
  BY <1>1
<1>8. r \in [Hosts -> Seq(Packets)]
  BY <1>1, <1>3, <1>6
<1> HIDE DEF r
<1>9. r \in Boxes(K)
  BY <1>3, <1>5, <1>7, <1>8 DEF Boxes
<1>10. QED
  BY <1>7, <1>9 DEF r

\* The sockets are those in q and what host h has said.
Sends(h, K, q, r) ==
    /\ r \in Boxes(K)
    /\ \A g \in Hosts : g \notin alive \cup {h} => r[g] = q[g]

LEMMA SupplyIs ==
    ASSUME NEW h \in Hosts, up \subseteq Links, NEW K, NEW known, K[h] = known,
           known \subseteq Nets, NEW q \in Boxes(K),
           NEW t, Supplied(t) \in Seq(Said(h)), NEW supplies
    PROVE  Sends(h, K, q, SupplyAll(h, q, known, t, supplies))
<1>1. Text(h, "response", Supplied(t))
  BY DEF Text
<1>2. QED
  BY <1>1, ToallIs DEF SupplyAll, Sends

\* The sockets when more interfaces are known.
LEMMA BoxesGrow ==
    ASSUME NEW K, NEW L, \A g \in Hosts : K[g] \subseteq L[g], NEW q \in Boxes(K)
    PROVE  q \in Boxes(L)
<1>1. ASSUME NEW g \in Hosts
      PROVE  q[g] \in Seq(Mail(g, L[g]))
  <2>1. Mail(g, K[g]) \subseteq Mail(g, L[g])
    BY DEF Mail
  <2>2. q[g] \in Seq(Mail(g, K[g]))
    BY DEF Boxes
  <2>3. QED
    BY <2>1, <2>2, SeqMonotonic
<1>2. QED
  BY <1>1 DEF Boxes

-----------------------------------------------------------------------------
(* The invariant.                                                          *)

Simple ==
    /\ alive \subseteq Hosts /\ up \subseteq Links
    /\ supplier \subseteq Hosts /\ ticked \subseteq Hosts
    /\ timeval \in [Hosts -> 0..(Check - 1)]
    /\ faults \in 0..MaxFaults

Tables ==
    /\ ifnet \in [Hosts -> SUBSET Nets]
    /\ routes \in [Hosts -> [Nets -> Slot]]
    /\ \A h \in Hosts : routes[h] \in Table(h, ifnet[h])

Sockets == queue \in Boxes(ifnet) /\ \A h \in Hosts \ alive : queue[h] = <<>>

IInv == Simple /\ Tables /\ Sockets

\* One host has table t, and the interfaces in known, after a step.
Changes(h, known, t) ==
    /\ ifnet' = [ifnet EXCEPT ![h] = known]
    /\ routes' = [routes EXCEPT ![h] = t]

KernelStep == \A h \in alive \cap alive', n \in Nets :
                  InStep(routes[h][n]) => InStep(routes'[h][n])

LEMMA TablesChange ==
    ASSUME Tables, NEW h \in Hosts, NEW known \in SUBSET Nets, NEW t \in Table(h, known),
           Changes(h, known, t),
           t \in After(h, known, routes[h]) \/ h \notin alive \cap alive'
    PROVE  Tables' /\ KernelStep
<1>1. t \in [Nets -> Slot]
  BY DEF Table
<1>2. /\ ifnet' \in [Hosts -> SUBSET Nets] /\ ifnet'[h] = known
      /\ \A g \in Hosts : g # h => ifnet'[g] = ifnet[g]
  BY DEF Tables, Changes
<1>3. /\ routes' \in [Hosts -> [Nets -> Slot]] /\ routes'[h] = t
      /\ \A g \in Hosts : g # h => routes'[g] = routes[g]
  BY <1>1 DEF Tables, Changes
<1>4. \A g \in Hosts : routes'[g] \in Table(g, ifnet'[g])
  BY <1>2, <1>3 DEF Tables
<1>5. KernelStep
  <2> SUFFICES ASSUME NEW g \in alive \cap alive', NEW n \in Nets, InStep(routes[g][n])
               PROVE  InStep(routes'[g][n])
    BY DEF KernelStep
  <2>1. CASE g = h
    BY <1>3, <2>1 DEF After
  <2>2. CASE g # h
    <3>1. routes'[g] = routes[g]
      <4>1. CASE g \in Hosts
        BY <1>3, <2>2, <4>1
      <4>2. CASE g \notin Hosts
        BY <4>2 DEF Tables, Changes
      <4>3. QED
        BY <4>1, <4>2
    <3>2. QED
      BY <3>1
  <2>3. QED
    BY <2>1, <2>2
<1>6. QED
  BY <1>2, <1>3, <1>4, <1>5 DEF Tables

LEMMA SameTables ==
    ASSUME Tables, UNCHANGED <<ifnet, routes>>
    PROVE  Tables' /\ KernelStep
<1>1. Tables'
  BY DEF Tables
<1>2. KernelStep
  BY DEF KernelStep
<1>3. QED
  BY <1>1, <1>2

\* What can be learned from a packet, whatever came of it in between.
LEMMA MailLesson ==
    ASSUME NEW h \in Hosts, NEW known, NEW p \in Mail(h, known), p.from[1] # h,
           NEW i \in 1..Len(p.nets)
    PROVE  Lesson(h, p.nets[i])
<1>1. CASE p.cmd = "request" /\ p.nets = Asked
  BY <1>1, Numbers DEF Asked, Lesson
<1>2. CASE p.nets \in Seq(Said(p.from[1]))
  <2> DEFINE e == p.nets[i]
             g == p.from[1]
             j == p.from[2]
  <2>1. e \in Said(g)
    BY <1>2
  <2>2. /\ p.from = <<g, j>> /\ g \in Hosts /\ j \in Nets /\ <<g, j>> \in Links
        /\ <<h, j>> \in Links
    BY Numbers DEF Mail, Packets
  <2> HIDE DEF e, g, j
  <2>3. /\ e.net \in Nets /\ e.metric \in 1..Infinity
        /\ e.metric < Infinity => <<g, e.net>> \in Nearest[e.metric - 1]
    BY <2>1 DEF Said
  <2>4. CASE e.metric < Infinity
    <3> DEFINE k == e.metric - 1
               n == e.net
    <3>1. k \in 0..Infinity - 1 /\ k + 1 = e.metric
      BY <2>3, <2>4, Numbers
    <3>2. <<g, n>> \in Nearest[k] /\ n \in Nets
      BY <2>3, <2>4
    <3> HIDE DEF k, n
    <3>3. <<h, n>> \in Nearest[k + 1]
      BY <2>2, <3>1, <3>2, NearestHop
    <3>4. QED
      BY <2>3, <3>1, <3>3 DEF Lesson, n, e
  <2>5. CASE ~(e.metric < Infinity)
    BY <2>3, <2>5, Numbers DEF Lesson, e
  <2>6. QED
    BY <2>4, <2>5
<1>3. QED
  BY <1>1, <1>2 DEF Mail

\* A host that hears its own table from another believes nothing wrong.
LEMMA OwnLesson ==
    ASSUME NEW h, NEW e \in Said(h)
    PROVE  Lesson(h, e)
<1>1. /\ e.net \in Nets /\ e.metric \in 1..Infinity
      /\ e.metric < Infinity => <<h, e.net>> \in Nearest[e.metric - 1]
  BY DEF Said
<1>2. CASE e.metric < Infinity
  <2> DEFINE k == e.metric - 1
  <2>1. k \in 0..Infinity - 1 /\ k + 1 = e.metric
    BY <1>1, <1>2, Numbers
  <2>2. <<h, e.net>> \in Nearest[k]
    BY <1>1, <1>2
  <2> HIDE DEF k
  <2>3. <<h, e.net>> \in Nearest[k + 1]
    BY <2>1, <2>2, NearestDef
  <2>4. QED
    BY <1>1, <2>1, <2>3 DEF Lesson
<1>3. CASE ~(e.metric < Infinity)
  BY <1>1, <1>3, Numbers DEF Lesson
<1>4. QED
  BY <1>2, <1>3

\* The packet at the head of the socket of h, and the others.
Rest(h) == [queue EXCEPT ![h] = Tail(queue[h])]

LEMMA HeadRest ==
    ASSUME IInv, NEW h \in Hosts, queue[h] # <<>>
    PROVE  /\ Head(queue[h]) \in Mail(h, ifnet[h])
           /\ Rest(h) \in Boxes(ifnet)
           /\ \A g \in Hosts \ alive : Rest(h)[g] = <<>>
<1>1. queue \in Boxes(ifnet)
  BY DEF IInv, Sockets
<1>2. queue[h] \in Seq(Mail(h, ifnet[h])) /\ queue[h] \in Seq(Packets)
  BY <1>1 DEF Boxes
<1>3. /\ Head(queue[h]) \in Mail(h, ifnet[h])
      /\ Tail(queue[h]) \in Seq(Mail(h, ifnet[h])) /\ Tail(queue[h]) \in Seq(Packets)
  BY <1>2, HeadTailProperties
<1> DEFINE r == Rest(h)
<1>4. /\ r \in [Hosts -> Seq(Packets)] /\ r[h] = Tail(queue[h])
      /\ \A g \in Hosts : g # h => r[g] = queue[g]
  BY <1>1, <1>3 DEF Boxes, Rest
<1> HIDE DEF r
<1>5. r \in Boxes(ifnet)
  BY <1>1, <1>3, <1>4 DEF Boxes
<1>6. h \in alive
  BY DEF IInv, Sockets
<1>7. \A g \in Hosts \ alive : r[g] = <<>>
  BY <1>4, <1>6 DEF IInv, Sockets
<1>8. QED
  BY <1>3, <1>5, <1>7 DEF r

-----------------------------------------------------------------------------
(* The steps.                                                              *)

LEMMA InitInv == Init => IInv
<1> SUFFICES ASSUME Init PROVE IInv
  OBVIOUS
<1>1. Simple
  <2>1. 0 \in 0..(Check - 1) /\ 0 \in 0..MaxFaults
    BY Numbers, XnsAssumption
  <2>2. QED
    BY <2>1 DEF Init, Simple
<1>2. Tables
  <2> DEFINE k(h, n) == IF <<h, n>> \in Links THEN <<h, n>> ELSE NoRoute
             s(h, n) == [rt |-> NoRoute, kern |-> k(h, n)]
  <2>1. \A h, n : s(h, n) \in Slot /\ s(h, n).rt = NoRoute
    BY DEF Slot
  <2>2. routes = [h \in Hosts |-> [n \in Nets |-> s(h, n)]]
           /\ ifnet = [h \in Hosts |-> {}]
    BY DEF Init
  <2> HIDE DEF s
  <2>3. routes \in [Hosts -> [Nets -> Slot]] /\ ifnet \in [Hosts -> SUBSET Nets]
    BY <2>1, <2>2
  <2>4. \A h \in Hosts, n \in Nets : routes[h][n] \in Slot /\ routes[h][n].rt = NoRoute
    BY <2>1, <2>2
  <2>5. \A h \in Hosts : routes[h] \in Table(h, ifnet[h])
    BY <2>3, <2>4 DEF Table, Fit, OwnEntry, NearEntry
  <2>6. QED
    BY <2>3, <2>5 DEF Tables
<1>3. Sockets
  <2>1. queue \in [Hosts -> Seq(Packets)] /\ \A h \in Hosts : queue[h] = <<>>
    BY DEF Init
  <2>2. \A h \in Hosts : queue[h] \in Seq(Mail(h, ifnet[h]))
    BY <2>1, EmptySeq
  <2>3. QED
    BY <2>1, <2>2 DEF Sockets, Boxes
<1>4. QED
  BY <1>1, <1>2, <1>3 DEF IInv

\* The timer goes off; q is what the sockets hold just then.
LEMMA Ticks ==
    ASSUME IInv, NEW h \in alive, NEW q \in Boxes(ifnet),
           \A g \in Hosts \ alive : q[g] = <<>>,
           NEW supplies, NEW t \in After(h, Known(h), routes[h]),
           queue' = SupplyAll(h, q, Known(h), AfterTimer(h), supplies),
           ifnet' = [ifnet EXCEPT ![h] = Known(h)],
           routes' = [routes EXCEPT ![h] = t],
           UNCHANGED <<alive, up>>
    PROVE  Tables' /\ Sockets' /\ KernelStep
<1>0. /\ h \in Hosts /\ up \subseteq Links /\ ifnet \in [Hosts -> SUBSET Nets]
      /\ routes[h] \in Table(h, ifnet[h])
  BY DEF IInv, Simple, Tables
<1>1. Known(h) \in SUBSET Nets /\ ifnet[h] \subseteq Known(h)
  BY <1>0 DEF Known, Found
<1>2. t \in Table(h, Known(h)) /\ Changes(h, Known(h), t)
  BY DEF After, Changes
<1>3. Tables' /\ KernelStep
  BY <1>0, <1>1, <1>2, TablesChange DEF IInv
<1> DEFINE K == ifnet'
<1>4. /\ K[h] = Known(h) /\ K[h] \subseteq Nets
      /\ \A g \in Hosts : ifnet[g] \subseteq K[g]
  BY <1>0, <1>1
<1>5. Supplied(AfterTimer(h)) \in Seq(Said(h))
  <2>1. AfterTimer(h) \in Table(h, Known(h))
    BY <1>0, TimerFits DEF After
  <2>2. QED
    BY <2>1, SuppliedIs
<1> HIDE DEF K
<1>6. q \in Boxes(K)
  BY <1>4, BoxesGrow
<1>7. Sends(h, K, q, SupplyAll(h, q, Known(h), AfterTimer(h), supplies))
  BY <1>0, <1>1, <1>4, <1>5, <1>6, SupplyIs
<1>8. Sockets'
  BY <1>7 DEF Sockets, Sends, K
<1>9. QED
  BY <1>3, <1>8

LEMMA Counts ==
    ASSUME Simple, NEW h \in Hosts, timeval' = [timeval EXCEPT ![h] = (@ + 1) % Check]
    PROVE  timeval' \in [Hosts -> 0..(Check - 1)]
<1>1. timeval[h] \in Nat
  BY Numbers DEF Simple
<1>2. (timeval[h] + 1) % Check \in 0..(Check - 1)
  BY <1>1, Numbers
<1>3. QED
  BY <1>2 DEF Simple

LEMMA TimerStep ==
    ASSUME IInv, NEW h \in Hosts, timer(h)
    PROVE  IInv' /\ KernelStep
<1>1. AfterTimer(h) \in After(h, Known(h), routes[h])
  BY TimerFits DEF IInv, Simple, Tables
<1>2. Tables' /\ Sockets' /\ KernelStep
  <2>1. /\ h \in alive /\ queue \in Boxes(ifnet)
        /\ \A g \in Hosts \ alive : queue[g] = <<>>
    BY DEF timer, IInv, Sockets
  <2>2. QED
    BY <1>1, <2>1, Ticks DEF timer
<1>3. timeval' \in [Hosts -> 0..(Check - 1)]
  BY Counts DEF timer, IInv
<1>4. Simple'
  BY <1>3 DEF timer, IInv, Simple
<1>5. QED
  BY <1>2, <1>4 DEF IInv

LEMMA InterruptedStep ==
    ASSUME IInv, NEW h \in Hosts, Interrupted(h)
    PROVE  IInv' /\ KernelStep
<1> DEFINE p == Head(queue[h])
           own == Supplied(AfterTimer(h))
           nets == [i \in DOMAIN p.nets |-> IF i <= Len(own) THEN own[i] ELSE p.nets[i]]
           r == Packet("response", p.from, nets)
<1>0. /\ up \subseteq Links /\ routes[h] \in Table(h, ifnet[h]) /\ h \in alive
      /\ ifnet \in [Hosts -> SUBSET Nets]
  BY DEF Interrupted, IInv, Simple, Tables
<1>1. /\ queue[h] # <<>>
      /\ queue' = SupplyAll(h, Rest(h), Known(h), AfterTimer(h), TRUE)
      /\ ifnet' = [ifnet EXCEPT ![h] = Known(h)]
      /\ routes' = [routes EXCEPT ![h] = Response(h, AfterTimer(h), r)]
      /\ UNCHANGED <<alive, up>>
  BY DEF Interrupted, Rest
<1>2. /\ p \in Mail(h, ifnet[h]) /\ Rest(h) \in Boxes(ifnet)
      /\ \A g \in Hosts \ alive : Rest(h)[g] = <<>>
  BY <1>1, HeadRest
<1>3. AfterTimer(h) \in After(h, Known(h), routes[h])
  BY <1>0, TimerFits
<1>4. own \in Seq(Said(h))
  BY <1>3, SuppliedIs DEF After
<1>5. ifnet[h] \subseteq Known(h)
  BY DEF Known
<1>6. Message(h, r)
  <2> HIDE DEF p, own
  <2>1. p.nets \in Seq([net : 0..NumNets, metric : 0..Infinity]) /\ p.from \in Links
    BY <1>2 DEF Mail, Packets
  <2>2. Len(p.nets) \in Nat /\ DOMAIN p.nets = 1..Len(p.nets)
    BY <2>1
  <2>3. DOMAIN nets = 1..Len(p.nets) /\ Len(nets) = Len(p.nets)
    <3>1. nets = [i \in 1..Len(p.nets) |-> IF i <= Len(own) THEN own[i] ELSE p.nets[i]]
      BY <2>2
    <3>2. QED
      BY <2>2, <3>1
  <2>4. ASSUME NEW i \in 1..Len(p.nets), p.from[1] # h
        PROVE  Lesson(h, nets[i])
    <3>1. CASE i <= Len(own)
      <4>1. own[i] \in Said(h)
        BY <1>4, <3>1
      <4>2. nets[i] = own[i]
        BY <2>2, <3>1
      <4> HIDE DEF nets
      <4>3. QED
        BY <4>1, <4>2, OwnLesson
    <3>2. CASE ~(i <= Len(own))
      <4>1. nets[i] = p.nets[i]
        BY <2>2, <3>2
      <4> HIDE DEF nets
      <4>2. QED
        BY <1>2, <2>4, <4>1, MailLesson
    <3>3. QED
      BY <3>1, <3>2
  <2> HIDE DEF nets
  <2>5. r.from = p.from /\ r.nets = nets
    BY DEF Packet
  <2> HIDE DEF r
  <2>6. QED
    BY <1>2, <2>1, <2>2, <2>3, <2>4, <2>5 DEF Message, Mail
<1> HIDE DEF r
<1>7. Response(h, AfterTimer(h), r) \in After(h, Known(h), AfterTimer(h))
  BY <1>3, <1>5, <1>6, ResponseFits DEF After
<1>8. Response(h, AfterTimer(h), r) \in After(h, Known(h), routes[h])
  BY <1>3, <1>7, AfterAfter
<1>9. Tables' /\ Sockets' /\ KernelStep
  BY <1>0, <1>1, <1>2, <1>8, Ticks
<1>10. timeval' \in [Hosts -> 0..(Check - 1)]
  BY Counts DEF Interrupted, IInv
<1>11. Simple'
  BY <1>10, XnsAssumption DEF Interrupted, Fault, IInv, Simple
<1>12. QED
  BY <1>9, <1>11 DEF IInv

LEMMA ReplyStep ==
    ASSUME IInv, NEW h \in Hosts, process(h), Head(queue[h]).cmd = "request",
           queue' = Reply(h, Rest(h), Head(queue[h]), routes[h])
    PROVE  queue' \in Boxes(ifnet) /\ \A g \in Hosts \ alive : queue'[g] = <<>>
<1> DEFINE p == Head(queue[h])
           n == p.from[2]
           g == p.from[1]
           s == Supplied(routes[h])
           r == Packet("response", <<h, n>>, s)
           q == Rest(h)
<1>1. /\ p \in Mail(h, ifnet[h]) /\ q \in Boxes(ifnet)
      /\ \A k \in Hosts \ alive : q[k] = <<>>
  BY HeadRest DEF process
<1>2. CASE queue' = q
  BY <1>1, <1>2
<1>3. CASE queue' # q
  <2>1. /\ queue' = [q EXCEPT ![g] = Append(@, r)] /\ g \in alive
        /\ {p.from, <<h, n>>} \subseteq up
    BY <1>3 DEF Reply
  <2> HIDE DEF q, p
  <2>2. /\ p.from = <<g, n>> /\ g \in Hosts /\ p.from \in Links
        /\ g = h => n \in ifnet[g]
    BY <1>1, Numbers DEF Mail, Packets
  <2>3. {<<h, n>>, <<g, n>>} \subseteq Links
    BY <2>1, <2>2 DEF IInv, Simple
  <2>4. s \in Seq(Said(h))
    BY SuppliedIs DEF IInv, Tables
  <2>5. Text(h, "response", s)
    BY <2>4 DEF Text
  <2> HIDE DEF s, n, g
  <2>6. r \in Mail(g, ifnet[g])
    BY <2>2, <2>3, <2>5, PacketIs
  <2>7. r \in Packets
    BY <2>6 DEF Mail
  <2> HIDE DEF r
  <2>8. q[g] \in Seq(Mail(g, ifnet[g])) /\ q[g] \in Seq(Packets) /\ q \in [Hosts -> Seq(Packets)]
    BY <1>1, <2>2 DEF Boxes
  <2>9. Append(q[g], r) \in Seq(Mail(g, ifnet[g])) /\ Append(q[g], r) \in Seq(Packets)
    BY <2>6, <2>7, <2>8, AppendProperties
  <2>10. /\ queue' \in [Hosts -> Seq(Packets)] /\ queue'[g] = Append(q[g], r)
         /\ \A k \in Hosts : k # g => queue'[k] = q[k]
    BY <2>1, <2>2, <2>8, <2>9
  <2>11. queue' \in Boxes(ifnet)
    BY <1>1, <2>9, <2>10 DEF Boxes
  <2>12. QED
    BY <1>1, <2>1, <2>10, <2>11
<1>4. QED
  BY <1>2, <1>3

LEMMA ProcessStep ==
    ASSUME IInv, NEW h \in Hosts, process(h)
    PROVE  IInv' /\ KernelStep
<1> DEFINE p == Head(queue[h])
<1>1. /\ h \in alive /\ queue[h] # <<>>
      /\ UNCHANGED <<alive, up, supplier, ifnet, timeval, ticked, faults>>
  BY DEF process
<1>2. /\ p \in Mail(h, ifnet[h]) /\ Rest(h) \in Boxes(ifnet)
      /\ \A g \in Hosts \ alive : Rest(h)[g] = <<>>
  BY <1>1, HeadRest
<1>3. Simple'
  BY <1>1 DEF IInv, Simple
<1>4. CASE p.cmd = "request"
  <2>1. queue' = Reply(h, Rest(h), p, routes[h]) /\ UNCHANGED routes
    BY <1>4 DEF process, Rest
  <2>2. queue' \in Boxes(ifnet) /\ \A g \in Hosts \ alive : queue'[g] = <<>>
    BY <1>4, <2>1, ReplyStep
  <2>3. Sockets'
    BY <1>1, <2>2 DEF Sockets
  <2>4. Tables' /\ KernelStep
    BY <1>1, <2>1, SameTables DEF IInv
  <2>5. QED
    BY <1>3, <2>3, <2>4 DEF IInv
<1>5. CASE p.cmd = "response"
  <2> DEFINE t == Response(h, routes[h], p)
  <2>1. queue' = Rest(h) /\ routes' = [routes EXCEPT ![h] = t]
    BY <1>5 DEF process, Rest
  <2>2. /\ routes[h] \in Table(h, ifnet[h]) /\ ifnet[h] \in SUBSET Nets
        /\ ifnet \in [Hosts -> SUBSET Nets]
    BY DEF IInv, Tables
  <2>3. Message(h, p)
    <3> HIDE DEF p
    <3>1. p.nets \in Seq(Said(p.from[1])) /\ Len(p.nets) \in Nat
      BY <1>2, <1>5 DEF Mail
    <3>2. p.from[1] # h => \A i \in 1..Len(p.nets) : Lesson(h, p.nets[i])
      BY <1>2, MailLesson
    <3>3. QED
      BY <1>2, <3>1, <3>2 DEF Message, Mail, Packets
  <2>4. t \in After(h, ifnet[h], routes[h])
    BY <2>2, <2>3, ResponseFits
  <2> HIDE DEF t
  <2>5. Changes(h, ifnet[h], t)
    BY <1>1, <2>1, <2>2 DEF Changes
  <2>6. Tables' /\ KernelStep
    BY <2>2, <2>4, <2>5, TablesChange DEF IInv, After
  <2>7. Sockets'
    BY <1>1, <1>2, <2>1 DEF Sockets
  <2>8. QED
    BY <1>3, <2>6, <2>7 DEF IInv
<1>6. QED
  BY <1>2, <1>4, <1>5 DEF Mail

\* The table of a daemon that has gone: the kernel's routes stay.
Cleared(t) == [n \in Nets |-> [t[n] EXCEPT !.rt = NoRoute]]

LEMMA ClearedIs ==
    ASSUME NEW h, NEW known, NEW t \in [Nets -> Slot]
    PROVE  /\ Cleared(t) \in Table(h, known)
           /\ \A n \in Nets : Cleared(t)[n] \in Slot /\ Cleared(t)[n] \in Fit(h, known, n)
<1>1. \A n \in Nets : /\ [t[n] EXCEPT !.rt = NoRoute] \in Slot
                      /\ [t[n] EXCEPT !.rt = NoRoute].rt = NoRoute
  BY DEF Slot
<1> DEFINE u == Cleared(t)
<1>2. u \in [Nets -> Slot] /\ \A n \in Nets : u[n].rt = NoRoute
  BY <1>1 DEF Cleared
<1> HIDE DEF u
<1>3. \A n \in Nets : u[n] \in Fit(h, known, n)
  BY <1>2 DEF Fit, OwnEntry, NearEntry
<1>4. u \in Table(h, known)
  BY <1>2, <1>3 DEF Table
<1>5. QED
  BY <1>2, <1>3, <1>4 DEF u

\* What hup() says before it goes: every network is out of reach.
LEMMA GoneIs ==
    ASSUME NEW h, NEW known, NEW t \in Table(h, known)
    PROVE  [n \in Nets |-> IF t[n].rt = NoRoute THEN t[n]
                           ELSE [t[n] EXCEPT !.rt.metric = Infinity]] \in Table(h, known)
<1> DEFINE G(n) == [t[n] EXCEPT !.rt.metric = Infinity]
           u == [n \in Nets |-> IF t[n].rt = NoRoute THEN t[n] ELSE G(n)]
<1>1. ASSUME NEW n \in Nets, t[n].rt # NoRoute
      PROVE  G(n) \in Fit(h, known, n)
  <2> DEFINE s == t[n]
             e == [s.rt EXCEPT !.metric = Infinity]
             r == [s EXCEPT !.rt = e]
  <2>1. s \in Slot /\ s.rt \in Entry /\ OwnEntry(h, known, n, s.rt)
    BY <1>1, SlotIs DEF Table, Fit
  <2>2. G(n) = r
    BY <2>1 DEF Slot, Entry
  <2>3. Infinity \in 0..Infinity
    BY Numbers
  <2>4. /\ e \in Entry /\ e.metric = Infinity /\ e.router = s.rt.router
        /\ e.iface = s.rt.iface
    BY <2>1, <2>3 DEF Entry
  <2> HIDE DEF e
  <2>5. r.rt = e /\ r \in Slot
    BY <2>1, <2>4 DEF Slot
  <2> HIDE DEF r, s
  <2>6. OwnEntry(h, known, n, r.rt)
    BY <1>1, <2>1, <2>4, <2>5, Numbers, EntryIs DEF OwnEntry
  <2>7. NearEntry(h, n, r.rt)
    BY <2>4, <2>5, Numbers DEF NearEntry
  <2>8. QED
    BY <2>2, <2>5, <2>6, <2>7 DEF Fit
<1> HIDE DEF G
<1>2. \A n \in Nets : t[n] \in Fit(h, known, n)
  BY DEF Table
<1>3. \A n \in Nets : u[n] \in Fit(h, known, n)
  BY <1>1, <1>2
<1>4. \A n \in Nets : u[n] \in Slot
  BY <1>3 DEF Fit
<1>5. u \in Table(h, known)
  BY <1>3, <1>4 DEF Table
<1>6. QED
  BY <1>5 DEF G

\* A daemon ends; q is what the sockets hold then.
LEMMA Ends ==
    ASSUME IInv, NEW h \in alive, NEW q \in Boxes(ifnet),
           \A g \in Hosts \ alive : q[g] = <<>>,
           alive' = alive \ {h}, queue' = [q EXCEPT ![h] = <<>>],
           routes' = [routes EXCEPT ![h] = [n \in Nets |-> [@[n] EXCEPT !.rt = NoRoute]]],
           UNCHANGED ifnet
    PROVE  Tables' /\ Sockets' /\ KernelStep
<1>1. /\ h \in Hosts /\ routes[h] \in [Nets -> Slot] /\ ifnet[h] \in SUBSET Nets
      /\ ifnet \in [Hosts -> SUBSET Nets] /\ routes \in [Hosts -> [Nets -> Slot]]
  BY DEF IInv, Simple, Tables
<1> DEFINE t == Cleared(routes[h])
<1>2. t \in Table(h, ifnet[h])
  BY <1>1, ClearedIs
<1>3. routes' = [routes EXCEPT ![h] = t]
  BY <1>1 DEF Cleared
<1> HIDE DEF t
<1>4. Changes(h, ifnet[h], t)
  BY <1>1, <1>3 DEF Changes
<1>5. Tables' /\ KernelStep
  BY <1>1, <1>2, <1>4, TablesChange DEF IInv
<1>6. <<>> \in Seq(Packets) /\ \A g : <<>> \in Seq(Mail(g, ifnet[g]))
  BY EmptySeq
<1>7. /\ queue' \in [Hosts -> Seq(Packets)] /\ queue'[h] = <<>>
      /\ \A g \in Hosts : g # h => queue'[g] = q[g]
  BY <1>1, <1>6 DEF Boxes
<1>8. queue' \in Boxes(ifnet)
  BY <1>6, <1>7 DEF Boxes
<1>9. Sockets'
  BY <1>7, <1>8 DEF Sockets
<1>10. QED
  BY <1>5, <1>9

LEMMA EndStep ==
    ASSUME IInv, NEW h \in Hosts, hup(h) \/ Crash(h)
    PROVE  IInv' /\ KernelStep
<1>0. /\ queue \in Boxes(ifnet) /\ \A g \in Hosts \ alive : queue[g] = <<>>
      /\ up \subseteq Links /\ routes[h] \in Table(h, ifnet[h]) /\ ifnet[h] \subseteq Nets
  BY DEF IInv, Simple, Tables, Sockets
<1>1. CASE hup(h)
  <2> DEFINE t == [n \in Nets |-> IF routes[h][n].rt = NoRoute THEN routes[h][n]
                                  ELSE [routes[h][n] EXCEPT !.rt.metric = Infinity]]
             q == SupplyAll(h, queue, ifnet[h], t, h \in supplier)
  <2>1. t \in Table(h, ifnet[h])
    BY <1>0, GoneIs
  <2>2. /\ h \in alive /\ alive' = alive \ {h} /\ queue' = [q EXCEPT ![h] = <<>>]
        /\ routes' = [routes EXCEPT ![h] = [n \in Nets |-> [@[n] EXCEPT !.rt = NoRoute]]]
        /\ UNCHANGED ifnet
    BY <1>1 DEF hup
  <2> HIDE DEF t
  <2>3. Supplied(t) \in Seq(Said(h))
    BY <2>1, SuppliedIs
  <2>4. \A x : Sends(h, ifnet, queue, SupplyAll(h, queue, ifnet[h], t, x))
    BY <1>0, <2>3, SupplyIs
  <2>5. Sends(h, ifnet, queue, q)
    BY <2>4
  <2> HIDE DEF q
  <2>6. q \in Boxes(ifnet) /\ \A g \in Hosts \ alive : q[g] = <<>>
    BY <1>0, <2>2, <2>5 DEF Sends
  <2>7. Tables' /\ Sockets' /\ KernelStep
    BY <2>2, <2>6, Ends
  <2>8. Simple'
    BY <1>1, XnsAssumption DEF hup, Fault, IInv, Simple
  <2>9. QED
    BY <2>7, <2>8 DEF IInv
<1>2. CASE Crash(h)
  <2>1. Tables' /\ Sockets' /\ KernelStep
    BY <1>0, <1>2, Ends DEF Crash
  <2>2. Simple'
    BY <1>2, XnsAssumption DEF Crash, Fault, IInv, Simple
  <2>3. QED
    BY <2>1, <2>2 DEF IInv
<1>3. QED
  BY <1>1, <1>2

LEMMA StartStep ==
    ASSUME IInv, NEW h \in Hosts, Start(h)
    PROVE  IInv' /\ KernelStep
<1> DEFINE found == {n \in Nets : <<h, n>> \in up}
           supplies == Cardinality(found) > 1
           table == Cleared(routes[h])
           slots == [n \in Nets |-> IF n \in found
                        THEN Aged(addrouteforif(h, n, table[n]), supplies) ELSE table[n]]
           asked == Toall(h, queue, found, "request", Asked)
<1>1. /\ h \notin alive /\ alive' = alive \cup {h}
      /\ ifnet' = [ifnet EXCEPT ![h] = found] /\ routes' = [routes EXCEPT ![h] = slots]
      /\ queue' = SupplyAll(h, asked, found, slots, supplies)
      /\ supplier' \subseteq supplier \cup {h} /\ timeval' = [timeval EXCEPT ![h] = 0]
      /\ ticked' = ticked \cup {h} /\ UNCHANGED <<up, faults>>
  BY DEF Start, Asked, Cleared
<1>2. /\ up \subseteq Links /\ routes[h] \in [Nets -> Slot]
      /\ ifnet \in [Hosts -> SUBSET Nets] /\ found \in SUBSET Nets
  BY DEF IInv, Simple, Tables
<1>3. ASSUME NEW n \in Nets
      PROVE  slots[n] \in Fit(h, found, n) /\ slots[n] \in Slot
  <2>1. table[n] \in Slot /\ table[n] \in Fit(h, found, n)
    BY <1>2, ClearedIs
  <2> HIDE DEF table
  <2>2. CASE n \in found
    <3>1. <<h, n>> \in Links
      BY <1>2, <2>2
    <3> HIDE DEF found
    <3>2. addrouteforif(h, n, table[n]) \in Fit(h, found, n)
      BY <2>1, <2>2, <3>1, IfaceFits
    <3>3. \A x : Aged(addrouteforif(h, n, table[n]), x) \in Fit(h, found, n)
      BY <3>2, AgedFits
    <3>4. slots[n] \in Fit(h, found, n)
      BY <2>2, <3>3
    <3>5. QED
      BY <3>4 DEF Fit
  <2>3. CASE n \notin found
    BY <2>1, <2>3
  <2>4. QED
    BY <2>2, <2>3
<1>4. slots \in Table(h, found)
  BY <1>3 DEF Table
<1> HIDE DEF slots, supplies, asked
<1>5. Tables' /\ KernelStep
  <2> HIDE DEF found
  <2>1. Changes(h, found, slots)
    BY <1>1 DEF Changes
  <2>2. QED
    BY <1>1, <1>2, <1>4, <2>1, TablesChange DEF IInv
<1> DEFINE K == ifnet'
<1> HIDE DEF found
<1>6. K[h] = found /\ \A g \in Hosts : g # h => K[g] = ifnet[g]
  BY <1>1, <1>2
<1> HIDE DEF K
<1>7. queue \in Boxes(K)
  <2>1. queue \in [Hosts -> Seq(Packets)] /\ \A g \in Hosts : queue[g] \in Seq(Mail(g, ifnet[g]))
    BY DEF IInv, Sockets, Boxes
  <2>2. queue[h] = <<>>
    BY <1>1 DEF IInv, Sockets
  <2>3. \A g \in Hosts : queue[g] \in Seq(Mail(g, K[g]))
    BY <1>6, <2>1, <2>2, EmptySeq
  <2>4. QED
    BY <2>1, <2>3 DEF Boxes
<1>8. Sends(h, K, queue, asked)
  <2>1. Text(h, "request", Asked)
    BY DEF Text
  <2>2. asked = Toall(h, queue, K[h], "request", Asked)
    BY <1>6 DEF asked
  <2>3. QED
    BY <1>2, <1>6, <1>7, <2>1, <2>2, ToallIs DEF Sends
<1>9. Sends(h, K, asked, queue')
  <2>1. Supplied(slots) \in Seq(Said(h))
    BY <1>4, SuppliedIs
  <2>2. \A x : Sends(h, K, asked, SupplyAll(h, asked, found, slots, x))
    <3>1. asked \in Boxes(K)
      BY <1>8 DEF Sends
    <3>2. QED
      BY <1>2, <1>6, <2>1, <3>1, SupplyIs
  <2>3. QED
    BY <1>1, <2>2
<1>10. Sockets'
  <2>1. queue' \in Boxes(K)
    BY <1>9 DEF Sends
  <2>2. \A g \in Hosts \ alive' : queue'[g] = <<>>
    BY <1>1, <1>8, <1>9 DEF Sends, IInv, Sockets
  <2>3. QED
    BY <2>1, <2>2 DEF Sockets, K
<1>11. Simple'
  <2>1. 0 \in 0..(Check - 1)
    BY Numbers
  <2>2. QED
    BY <1>1, <2>1 DEF IInv, Simple
<1>12. QED
  BY <1>5, <1>10, <1>11 DEF IInv

LEMMA NextInv ==
    ASSUME IInv, [Next]_vars
    PROVE  IInv' /\ KernelStep
<1>1. ASSUME NEW h \in Hosts, LosePacket(h)
      PROVE  IInv' /\ KernelStep
  <2>1. Tables' /\ KernelStep
    BY <1>1, SameTables DEF LosePacket, IInv
  <2>2. queue' = Rest(h) /\ queue[h] # <<>> /\ UNCHANGED <<alive, ifnet>>
    BY <1>1 DEF LosePacket, Rest
  <2>3. Sockets'
    BY <1>1, <2>2, HeadRest DEF Sockets
  <2>4. Simple'
    BY <1>1, XnsAssumption DEF LosePacket, Fault, IInv, Simple
  <2>5. QED
    BY <2>1, <2>3, <2>4 DEF IInv
<1>2. ASSUME UNCHANGED <<alive, ifnet, routes, queue>>, Simple'
      PROVE  IInv' /\ KernelStep
  <2>1. Tables' /\ KernelStep
    BY <1>2, SameTables DEF IInv
  <2>2. Sockets'
    BY <1>2 DEF IInv, Sockets
  <2>3. QED
    BY <1>2, <2>1, <2>2 DEF IInv
<1>3. ASSUME NEW l \in Links, Down(l) \/ Up(l)
      PROVE  IInv' /\ KernelStep
  <2>1. Simple'
    BY <1>3, XnsAssumption DEF Down, Up, Fault, IInv, Simple
  <2>2. QED
    BY <1>2, <1>3, <2>1 DEF Down, Up
<1>4. CASE NextRound
  <2>1. Simple'
    BY <1>4 DEF NextRound, IInv, Simple
  <2>2. QED
    BY <1>2, <1>4, <2>1 DEF NextRound
<1>5. CASE UNCHANGED vars
  <2>1. Simple'
    BY <1>5 DEF vars, IInv, Simple
  <2>2. QED
    BY <1>2, <1>5, <2>1 DEF vars
<1>6. QED
  BY <1>1, <1>3, <1>4, <1>5, TimerStep, ProcessStep, StartStep, EndStep, InterruptedStep
  DEF Next, Run

\* The invariant of tables and packets.
THEOREM Invariance == Spec => []IInv
<1>1. IInv /\ [Next]_vars => IInv'
  BY NextInv
<1>2. QED
  BY <1>1, InitInv, PTL DEF Spec

\* NeverShorter of the xns_routing run, for hosts and networks joined in any
\* way: whatever is lost, delayed, repeated or overwritten in rip_input()'s
\* buffer, no host ever believes a network to be nearer than it can be.
THEOREM Truthful == Spec => []NeverShorter
<1>1. IInv => NeverShorter
  <2> SUFFICES ASSUME IInv, NEW h \in Hosts, NEW n \in Nets, Finite(routes[h][n])
               PROVE  <<h, n>> \in Nearest[routes[h][n].rt.metric]
    BY DEF NeverShorter
  <2>1. routes[h][n] \in Fit(h, ifnet[h], n)
    BY DEF IInv, Tables, Table
  <2>2. QED
    BY <2>1 DEF Fit, NearEntry, Finite
<1>2. QED
  BY <1>1, Invariance, PTL

\* InterfaceOwn of the run, types included: an entry with RTS_INTERFACE is
\* one of the host's own interfaces, any other leads through a neighbour.
THEOREM OwnInterfaces == Spec => []InterfaceOwn
<1>1. IInv => TypeOK
  <2> SUFFICES ASSUME IInv PROVE TypeOK
    OBVIOUS
  <2>1. queue \in [Hosts -> Seq(Packets)]
    BY DEF IInv, Sockets, Boxes
  <2>2. QED
    BY <2>1 DEF IInv, Simple, Tables, TypeOK
<1>2. IInv => InterfaceOwn
  <2> SUFFICES ASSUME IInv, NEW h \in alive, NEW n \in Nets
               PROVE  OwnEntry(h, ifnet[h], n, routes[h][n].rt)
    BY <1>1 DEF InterfaceOwn, OwnEntry
  <2>1. h \in Hosts
    BY DEF IInv, Simple
  <2>2. routes[h][n] \in Fit(h, ifnet[h], n)
    BY <2>1 DEF IInv, Tables, Table
  <2>3. QED
    BY <2>2 DEF Fit
<1>3. QED
  BY <1>2, Invariance, PTL

\* KernelFollows of the run: no step of a daemon lets the kernel's route get
\* out of step with its own.
THEOREM KernelInStep == Spec => KernelFollows
<1>1. IInv /\ [Next]_vars =>
         [\A h \in alive \cap alive', n \in Nets :
            InStep(routes[h][n]) => InStep(routes'[h][n])]_vars
  BY NextInv DEF KernelStep
<1>2. QED
  BY <1>1, Invariance, PTL DEF Spec, KernelFollows

-----------------------------------------------------------------------------
(* As long as nothing fails no route expires.                              *)

\* Half the time an entry lives: an older one is refreshed when it is heard.
Middle == Expire \div 2

\* Response p says that network n is k away.
Tell(p, n, k) ==
    /\ p.cmd = "response"
    /\ \E i \in 1..Len(p.nets) : p.nets[i].net = n /\ p.nets[i].metric = k

\* An entry learnt from another host.
Learned(slot) == slot.rt # NoRoute /\ ~slot.rt.iface

\* Host h is nearer to n than k.
Shorter(R, h, n, k) == R[h][n].rt # NoRoute /\ R[h][n].rt.metric < k

\* A daemon that runs knows its interfaces, and supplies if there are two.
Interfaces ==
    \A h \in alive :
        /\ ifnet[h] = {n \in Nets : <<h, n>> \in Links}
        /\ h \notin supplier => \A m, n \in ifnet[h] : m = n

\* In the following q is the sockets, R the tables, S the hosts that run and T
\* those whose timer has gone off.  What a packet says has not got worse,
\* neither at its sender nor in a later packet of his.
Honest(q, R, S) ==
    \A h \in Hosts : \A i \in 1..Len(q[h]) : q[h][i].cmd = "response" =>
        /\ q[h][i].from[1] \in S
        /\ \A n \in Nets, k \in 1..Infinity : Tell(q[h][i], n, k) =>
              /\ R[q[h][i].from[1]][n].rt # NoRoute
              /\ Further(R[q[h][i].from[1]][n].rt.metric) <= k

NoWorse(q) ==
    \A h \in Hosts : \A i, j \in 1..Len(q[h]) :
        i <= j /\ q[h][i].from = q[h][j].from =>
            \A n \in Nets, k, l \in 1..Infinity :
                Tell(q[h][i], n, k) /\ Tell(q[h][j], n, l) => l <= k

\* The gateway of an entry is nearer, and none of its packets says otherwise.
Routed(q, R, S) ==
    \A h \in S, n \in Nets : Learned(R[h][n]) =>
        /\ R[h][n].rt.metric < Infinity
        /\ R[h][n].rt.router[1] \in S
        /\ Shorter(R, R[h][n].rt.router[1], n, R[h][n].rt.metric)
        /\ \A i \in 1..Len(q[h]), k \in 1..Infinity :
              q[h][i].from = R[h][n].rt.router /\ Tell(q[h][i], n, k) => k <= R[h][n].rt.metric

\* There is a supplier nearby who will refresh the entry of h for n: in this
\* round he has not sent yet, or h has not read it yet, or it is refreshed.
Underway(q, h, from, n, k) ==
    \E i \in 1..Len(q[h]), j \in 1..Infinity :
        j <= k /\ q[h][i].from = from /\ Tell(q[h][i], n, j)
Round(b) == IF b THEN 1 ELSE 0
Backs(q, R, T, h, n, g, m) ==
    /\ {<<h, m>>, <<g, m>>} \subseteq Links
    /\ Shorter(R, g, n, R[h][n].rt.metric)
    /\ R[h][n].rt.timer <= Middle + Round(h \in T)
          + Round(g \notin T \/ Underway(q, h, <<g, m>>, n, R[h][n].rt.metric))
Backed(q, R, S, P, T) ==
    \A h \in S, n \in Nets : Learned(R[h][n]) =>
        \E g \in S \cap P, m \in Nets : Backs(q, R, T, h, n, g, m)

\* The entry of an interface is older only until its own broadcast is heard.
Echoed(q, h, n) ==
    \E i \in 1..Len(q[h]) : q[h][i].cmd = "response" /\ q[h][i].from = <<h, n>>
Own(q, R, S, T) ==
    \A h \in S, n \in Nets : <<h, n>> \in Links =>
        /\ R[h][n].rt # NoRoute /\ R[h][n].rt.iface /\ R[h][n].rt.metric = 0
        /\ R[h][n].rt.timer <= 1
        /\ R[h][n].rt.timer = 1 => h \in T /\ Echoed(q, h, n)

Calm ==
    /\ up = Links /\ Interfaces
    /\ Honest(queue, routes, alive) /\ NoWorse(queue)
    /\ Routed(queue, routes, alive)
    /\ Backed(queue, routes, alive, supplier, ticked)
    /\ Own(queue, routes, alive, ticked)

\* What a table says to others.
LEMMA SuppliedSays ==
    ASSUME NEW t \in [Nets -> Slot]
    PROVE  /\ \A i \in 1..Len(Supplied(t)) :
                 /\ Supplied(t)[i].net \in Nets /\ t[Supplied(t)[i].net].rt # NoRoute
                 /\ Supplied(t)[i].metric = Further(t[Supplied(t)[i].net].rt.metric)
           /\ \A n \in Nets : t[n].rt # NoRoute =>
                 \E i \in 1..Len(Supplied(t)) :
                    Supplied(t)[i].net = n /\ Supplied(t)[i].metric = Further(t[n].rt.metric)
<1> DEFINE S == {n \in Nets : t[n].rt # NoRoute}
           ns == Positions(S)[NumNets]
           F(n) == Further(t[n].rt.metric)
           v == [i \in DOMAIN ns |-> [net |-> ns[i], metric |-> F(ns[i])]]
<1>1. ns \in Seq(Nets) /\ (\A i \in DOMAIN ns : ns[i] \in S)
         /\ (\A n \in Nets : n \in S => \E i \in DOMAIN ns : ns[i] = n)
  <2>1. ns \in Seq(Nets) /\ NumNets \in Nat
    BY PositionsType, Numbers DEF Nets
  <2>2. \A i \in DOMAIN ns : ns[i] \in S
    BY <2>1, PositionsIn
  <2>3. \A n \in Nets : n \in S => \E i \in DOMAIN ns : ns[i] = n
    <3> HIDE DEF S
    <3> QED BY <2>1, PositionsAll DEF Nets
  <2> QED
    BY <2>1, <2>2, <2>3
<1>2. Supplied(t) = v
  BY DEF Supplied
<1>3. \A n \in Nets : n \in S <=> t[n].rt # NoRoute
  OBVIOUS
<1>4. \A n \in S : n \in Nets
  OBVIOUS
<1> HIDE DEF ns, S, F
<1>5. Len(ns) \in Nat /\ DOMAIN ns = 1..Len(ns)
  BY <1>1
<1>6. Len(v) = Len(ns) /\ \A i \in 1..Len(ns) : v[i].net = ns[i] /\ v[i].metric = F(ns[i])
  BY <1>5
<1> HIDE DEF v
<1>7. \A i \in 1..Len(v) : /\ v[i].net \in Nets /\ t[v[i].net].rt # NoRoute
                           /\ v[i].metric = F(v[i].net)
  BY <1>1, <1>3, <1>4, <1>5, <1>6
<1>8. \A n \in Nets : t[n].rt # NoRoute =>
         \E i \in 1..Len(v) : v[i].net = n /\ v[i].metric = F(n)
  BY <1>1, <1>3, <1>5, <1>6
<1> QED
  BY <1>2, <1>7, <1>8 DEF F

\* In r there is also what host h has sent, which has table t.
Extends(q, r) ==
    \A x \in Hosts : /\ Len(q[x]) <= Len(r[x])
                     /\ \A i \in 1..Len(q[x]) : r[x][i] = q[x][i]
Delivers(q, r, h, t) ==
    /\ Extends(q, r)
    /\ \A x \in Hosts : \A i \in 1..Len(r[x]) : i > Len(q[x]) /\ r[x][i].cmd = "response" =>
          r[x][i].from[1] = h /\ r[x][i].nets = Supplied(t)

\* It has reached host x on network m.
Reached(r, x, h, m, t) ==
    \E i \in 1..Len(r[x]) : /\ r[x][i].cmd = "response" /\ r[x][i].from = <<h, m>>
                            /\ r[x][i].nets = Supplied(t)

\* A broadcast of h has reached those who run.
Broadcast(q, r, h, known, cmd, nets) ==
    /\ Extends(q, r)
    /\ \A x \in Hosts : \A i \in 1..Len(r[x]) : i > Len(q[x]) =>
         r[x][i].cmd = cmd /\ r[x][i].from[1] = h /\ r[x][i].nets = nets
    /\ \A x \in Hosts : \A m \in Nets :
         x \in alive \cup {h} /\ m \in Between(h, x, known) =>
           \E i \in 1..Len(r[x]) : /\ r[x][i].cmd = cmd /\ r[x][i].from = <<h, m>>
                                   /\ r[x][i].nets = nets

LEMMA ToallExtends ==
    ASSUME NEW h \in Hosts, NEW q \in [Hosts -> Seq(Packets)], NEW known, NEW cmd, NEW nets,
           NEW r, r = Toall(h, q, known, cmd, nets)
    PROVE  Broadcast(q, r, h, known, cmd, nets)
<1> DEFINE N(g) == Positions(Between(h, g, known))[NumNets]
           A(g) == [i \in DOMAIN N(g) |-> Packet(cmd, <<h, N(g)[i]>>, nets)]
<1>1. r = [g \in Hosts |-> IF g \notin alive \cup {h} THEN q[g] ELSE q[g] \o A(g)]
  BY DEF Toall
<1>2. SUFFICES ASSUME NEW x \in Hosts
      PROVE  /\ Len(q[x]) <= Len(r[x])
             /\ \A i \in 1..Len(q[x]) : r[x][i] = q[x][i]
             /\ \A i \in 1..Len(r[x]) : i > Len(q[x]) =>
                  r[x][i].cmd = cmd /\ r[x][i].from[1] = h /\ r[x][i].nets = nets
             /\ \A m \in Nets : x \in alive \cup {h} /\ m \in Between(h, x, known) =>
                  \E i \in 1..Len(r[x]) : /\ r[x][i].cmd = cmd /\ r[x][i].from = <<h, m>>
                                          /\ r[x][i].nets = nets
  BY DEF Broadcast, Extends
<1>3. q[x] \in Seq(Packets) /\ Len(q[x]) \in Nat
  OBVIOUS
<1>4. CASE x \notin alive \cup {h}
  <2>1. r[x] = q[x]
    BY <1>1, <1>4
  <2> QED
    BY <1>3, <1>4, <2>1
<1>5. CASE x \in alive \cup {h}
  <2>1. r[x] = q[x] \o A(x)
    BY <1>1, <1>5
  <2>2. N(x) \in Seq(1..NumNets) /\ \A m \in Nets : m \in Between(h, x, known) =>
                                       \E i \in DOMAIN N(x) : N(x)[i] = m
    BY PositionsType, PositionsAll, Numbers DEF Nets
  <2> DEFINE N0 == N(x)
             A0 == A(x)
             P(m) == Packet(cmd, <<h, m>>, nets)
  <2>3. A0 = [i \in DOMAIN N0 |-> P(N0[i])]
    OBVIOUS
  <2>4. \A m : P(m).cmd = cmd /\ P(m).from = <<h, m>> /\ P(m).from[1] = h /\ P(m).nets = nets
    BY DEF Packet
  <2> HIDE DEF N, A, N0, A0, P
  <2>5. N0 \in Seq(1..NumNets) /\ Len(N0) \in Nat /\ DOMAIN N0 = 1..Len(N0)
    BY <2>2 DEF N0
  <2> DEFINE X == {P(m) : m \in 1..NumNets}
  <2>6. Len(A0) = Len(N0) /\ \A i \in 1..Len(N0) : A0[i] = P(N0[i])
    <3>1. A0 = [i \in 1..Len(N0) |-> P(N0[i])]
      BY <2>3, <2>5, Zenon
    <3> QED
      BY <2>5, <3>1
  <2>7. A0 \in Seq(X)
    <3>1. A0 = [i \in 1..Len(N0) |-> P(N0[i])]
      BY <2>3, <2>5, Zenon
    <3>2. \A i \in 1..Len(N0) : N0[i] \in 1..NumNets
      BY <2>5, ElementOfSeq
    <3>3. \A i \in 1..Len(N0) : P(N0[i]) \in X
      BY <3>2, Zenon
    <3> HIDE DEF X
    <3> QED
      BY <2>5, <3>1, <3>3
  <2> HIDE DEF X
  <2>8. /\ Len(q[x] \o A0) = Len(q[x]) + Len(A0)
        /\ \A i \in 1..Len(q[x]) : (q[x] \o A0)[i] = q[x][i]
        /\ \A i \in 1..Len(A0) : (q[x] \o A0)[Len(q[x]) + i] = A0[i]
    BY <1>3, <2>7
  <2> DEFINE c == r[x]
             l == Len(q[x])
             a == Len(A0)
  <2>9. c = q[x] \o A0
    BY <2>1 DEF A0
  <2>10. Len(c) = l + a /\ (\A i \in 1..l : c[i] = q[x][i]) /\ \A i \in 1..a : c[l + i] = P(N0[i])
    BY <2>6, <2>8, <2>9
  <2>11. l \in Nat /\ a \in Nat
    BY <1>3, <2>5, <2>6
  <2>12. ASSUME NEW i \in 1..Len(c), i > l
         PROVE  c[i].cmd = cmd /\ c[i].from[1] = h /\ c[i].nets = nets
    <3>1. i - l \in 1..a /\ l + (i - l) = i
      BY <2>10, <2>11, <2>12
    <3>2. c[i] = P(N0[i - l])
      BY <2>10, <3>1
    <3> QED
      BY <2>4, <3>2
  <2>13. ASSUME NEW m \in Nets, m \in Between(h, x, known)
         PROVE  \E i \in 1..Len(c) : c[i].cmd = cmd /\ c[i].from = <<h, m>> /\ c[i].nets = nets
    <3>1. PICK i \in 1..Len(N0) : N0[i] = m
      BY <2>2, <2>5, <2>13 DEF N0
    <3>2. i \in 1..a /\ l + i \in 1..Len(c)
      BY <2>6, <2>10, <2>11
    <3>3. c[l + i] = P(m)
      BY <2>10, <3>1, <3>2
    <3> QED
      BY <2>4, <3>2, <3>3
  <2>14. l <= Len(c)
    BY <2>10, <2>11
  <2> QED
    BY <2>10, <2>12, <2>13, <2>14
<1> QED
  BY <1>4, <1>5

LEMMA SupplyDelivers ==
    ASSUME NEW h \in Hosts, NEW q \in [Hosts -> Seq(Packets)], NEW known, NEW t, NEW supplies,
           NEW r, r = SupplyAll(h, q, known, t, supplies)
    PROVE  /\ Delivers(q, r, h, t)
           /\ supplies /\ Supplied(t) # <<>> =>
                 \A x \in Hosts : \A m \in Nets :
                    x \in alive \cup {h} /\ m \in Between(h, x, known) => Reached(r, x, h, m, t)
<1>1. CASE supplies /\ Supplied(t) # <<>>
  <2>1. r = Toall(h, q, known, "response", Supplied(t))
    BY <1>1 DEF SupplyAll
  <2>2. Broadcast(q, r, h, known, "response", Supplied(t))
    BY <2>1, ToallExtends
  <2>3. Delivers(q, r, h, t)
    BY <2>2, Zenon DEF Broadcast, Delivers
  <2> QED
    BY <2>2, <2>3, Zenon DEF Broadcast, Reached
<1>2. CASE ~(supplies /\ Supplied(t) # <<>>)
  <2>1. r = q
    BY <1>2 DEF SupplyAll
  <2>2. \A x \in Hosts : Len(q[x]) \in Nat
    OBVIOUS
  <2>3. Delivers(q, q, h, t)
    BY <2>2 DEF Delivers, Extends
  <2> QED
    BY <1>2, <2>1, <2>3
<1> QED
  BY <1>1, <1>2

LEMMA TellsTable ==
    ASSUME NEW t \in [Nets -> Slot], NEW p, p.nets = Supplied(t), NEW n \in Nets, NEW k,
           Tell(p, n, k)
    PROVE  /\ t[n].rt # NoRoute /\ k = Further(t[n].rt.metric)
           /\ k <= t[n].rt.metric + 1 /\ t[n].rt.metric \in 0..Infinity
<1>1. t[n].rt # NoRoute /\ k = Further(t[n].rt.metric)
  BY SuppliedSays DEF Tell
<1>2. t[n].rt.metric \in 0..Infinity
  BY <1>1, SlotIs DEF Entry
<1> QED
  BY <1>1, <1>2, Numbers DEF Further

\* A host that tells its neighbours what it has leaves them well informed.
LEMMA DeliverKeeps ==
    ASSUME NEW q \in [Hosts -> Seq(Packets)], NEW r \in [Hosts -> Seq(Packets)],
           NEW S \in SUBSET Hosts, NEW h \in S, NEW R \in [Hosts -> [Nets -> Slot]],
           Honest(q, R, S), NoWorse(q), Routed(q, R, S), Delivers(q, r, h, R[h])
    PROVE  Honest(r, R, S) /\ NoWorse(r) /\ Routed(r, R, S)
<1>1. \A x \in Hosts : /\ Len(q[x]) \in Nat /\ Len(r[x]) \in Nat /\ Len(q[x]) <= Len(r[x])
                       /\ \A i \in 1..Len(q[x]) : r[x][i] = q[x][i]
  BY DEF Delivers, Extends
<1>2. R[h] \in [Nets -> Slot]
  OBVIOUS
<1>3. ASSUME NEW x \in Hosts, NEW i \in 1..Len(r[x]), i \notin 1..Len(q[x]),
             r[x][i].cmd = "response"
      PROVE  /\ r[x][i].from[1] = h
             /\ \A n \in Nets, k \in 1..Infinity : Tell(r[x][i], n, k) =>
                   /\ R[h][n].rt # NoRoute /\ k = Further(R[h][n].rt.metric)
                   /\ k <= R[h][n].rt.metric + 1 /\ R[h][n].rt.metric \in 0..Infinity
  <2>0. i > Len(q[x])
    BY <1>1, <1>3
  <2>1. r[x][i].from[1] = h /\ r[x][i].nets = Supplied(R[h])
    BY <1>3, <2>0 DEF Delivers
  <2> QED
    BY <1>2, <2>1, TellsTable
<1>4. Honest(r, R, S)
  <2> SUFFICES ASSUME NEW x \in Hosts, NEW i \in 1..Len(r[x]), r[x][i].cmd = "response"
               PROVE  /\ r[x][i].from[1] \in S
                      /\ \A n \in Nets, k \in 1..Infinity : Tell(r[x][i], n, k) =>
                            /\ R[r[x][i].from[1]][n].rt # NoRoute
                            /\ Further(R[r[x][i].from[1]][n].rt.metric) <= k
    BY DEF Honest
  <2>1. CASE i \in 1..Len(q[x])
    <3>1. r[x][i] = q[x][i]
      BY <1>1, <2>1
    <3>2. /\ q[x][i].from[1] \in S
          /\ \A n \in Nets, k \in 1..Infinity : Tell(q[x][i], n, k) =>
                /\ R[q[x][i].from[1]][n].rt # NoRoute
                /\ Further(R[q[x][i].from[1]][n].rt.metric) <= k
      BY <2>1, <3>1 DEF Honest
    <3> QED
      BY <3>1, <3>2, Zenon
  <2>2. CASE i \notin 1..Len(q[x])
    BY <1>3, <2>2
  <2> QED
    BY <2>1, <2>2
<1>5. NoWorse(r)
  <2> SUFFICES ASSUME NEW x \in Hosts, NEW i \in 1..Len(r[x]), NEW j \in 1..Len(r[x]), i <= j,
                      r[x][i].from = r[x][j].from, NEW n \in Nets,
                      NEW k \in 1..Infinity, NEW l \in 1..Infinity,
                      Tell(r[x][i], n, k), Tell(r[x][j], n, l)
               PROVE  l <= k
    BY DEF NoWorse
  <2>0. r[x][i].cmd = "response" /\ r[x][j].cmd = "response"
    BY DEF Tell
  <2>1. CASE j \in 1..Len(q[x])
    <3>1. i \in 1..Len(q[x])
      BY <1>1, <2>1
    <3> QED
      BY <1>1, <2>1, <3>1 DEF NoWorse
  <2>2. CASE j \notin 1..Len(q[x])
    <3>1. r[x][j].from[1] = h /\ l = Further(R[h][n].rt.metric)
      BY <1>3, <2>0, <2>2
    <3>2. CASE i \in 1..Len(q[x])
      <4>1. r[x][i] = q[x][i] /\ q[x][i].from[1] = h
        BY <1>1, <3>1, <3>2
      <4> QED
        BY <2>0, <3>1, <3>2, <4>1 DEF Honest
    <3>3. CASE i \notin 1..Len(q[x])
      BY <1>3, <2>0, <3>1, <3>3
    <3> QED
      BY <3>2, <3>3
  <2> QED
    BY <2>1, <2>2
<1>6. Routed(r, R, S)
  <2> SUFFICES ASSUME NEW x \in S, NEW n \in Nets, Learned(R[x][n]),
                      NEW i \in 1..Len(r[x]), NEW k \in 1..Infinity,
                      r[x][i].from = R[x][n].rt.router, Tell(r[x][i], n, k)
               PROVE  k <= R[x][n].rt.metric
    BY DEF Routed
  <2>1. CASE i \in 1..Len(q[x])
    BY <1>1, <2>1 DEF Routed
  <2>2. CASE i \notin 1..Len(q[x])
    <3>1. r[x][i].cmd = "response"
      BY DEF Tell
    <3>2. r[x][i].from[1] = h /\ k <= R[h][n].rt.metric + 1 /\ R[h][n].rt.metric \in 0..Infinity
      BY <1>3, <2>2, <3>1
    <3>3. Shorter(R, h, n, R[x][n].rt.metric)
      BY <3>2 DEF Routed
    <3>4. R[x][n].rt.metric \in 0..Infinity
      BY SlotIs DEF Learned, Entry
    <3> QED
      BY <3>2, <3>3, <3>4 DEF Shorter
  <2> QED
    BY <2>1, <2>2
<1> QED
  BY <1>4, <1>5, <1>6

\* Nobody is worse off with more packets.
LEMMA ExtendsKeeps ==
    ASSUME NEW q \in [Hosts -> Seq(Packets)], NEW r \in [Hosts -> Seq(Packets)], Extends(q, r),
           NEW R \in [Hosts -> [Nets -> Slot]]
    PROVE  /\ \A h \in Hosts : \A n : Echoed(q, h, n) => Echoed(r, h, n)
           /\ \A h \in Hosts, n \in Nets : \A T, g, m :
                 Learned(R[h][n]) /\ Backs(q, R, T, h, n, g, m) => Backs(r, R, T, h, n, g, m)
<1>1. \A h \in Hosts : \A i \in 1..Len(q[h]) : i \in 1..Len(r[h]) /\ r[h][i] = q[h][i]
  <2>1. \A h \in Hosts : Len(q[h]) \in Nat /\ Len(r[h]) \in Nat
    OBVIOUS
  <2> QED
    BY <2>1 DEF Extends
<1>2. \A h \in Hosts : \A n : Echoed(q, h, n) => Echoed(r, h, n)
  BY <1>1 DEF Echoed
<1>3. ASSUME NEW T, NEW h \in Hosts, NEW n \in Nets, NEW g, NEW m, Learned(R[h][n]),
             Backs(q, R, T, h, n, g, m)
      PROVE  Backs(r, R, T, h, n, g, m)
  <2> DEFINE U(s) == Underway(s, h, <<g, m>>, n, R[h][n].rt.metric)
             P(s) == g \notin T \/ U(s)
  <2>1. U(q) => U(r)
    BY <1>1 DEF Underway
  <2>2. R[h][n].rt.timer \in Nat /\ Middle \in Nat
    <3>1. R[h][n] \in Slot /\ R[h][n].rt # NoRoute
      BY <1>3 DEF Learned
    <3>2. R[h][n].rt.timer \in Nat
      BY <3>1, SlotIs, Numbers DEF Entry
    <3>3. Middle \in Nat
      BY Numbers DEF Middle
    <3> QED
      BY <3>2, <3>3
  <2>3. R[h][n].rt.timer <= Middle + Round(h \in T) + Round(P(q))
    BY <1>3 DEF Backs
  <2>4. P(q) => P(r)
    BY <2>1
  <2> HIDE DEF P
  <2>5. R[h][n].rt.timer <= Middle + Round(h \in T) + Round(P(r))
    BY <2>2, <2>3, <2>4 DEF Round
  <2> QED
    BY <1>3, <2>5 DEF Backs, P
<1> QED
  BY <1>2, <1>3

\* What a response from the given address does to one entry.
Once(s, from, k) ==
    IF k >= Infinity THEN s
    ELSE IF s.rt = NoRoute THEN rtadd(s, from, k, FALSE)
    ELSE IF Updates(s.rt, from, k) THEN rtchange(s, from, k)
    ELSE s

LEMMA AddTimer ==
    ASSUME NEW s, NEW gate, NEW metric, NEW iface
    PROVE  rtadd(s, gate, metric, iface).rt.timer = 0
  BY DEF rtadd

LEMMA ChangeTimer ==
    ASSUME NEW s \in Slot, s.rt # NoRoute, NEW gate, NEW metric
    PROVE  rtchange(s, gate, metric).rt.timer = 0
<1>1. s.rt \in Entry
  BY SlotIs
<1> DEFINE e == [s.rt EXCEPT !.router = gate, !.metric = metric, !.timer = 0,
                             !.iface = StaysIface(s, metric)]
<1>2. e.timer = 0
  BY <1>1 DEF Entry
<1>3. rtchange(s, gate, metric).rt = e
  BY DEF rtchange
<1> QED
  BY <1>2, <1>3

\* It changes nothing or makes the sender the gateway.
LEMMA OnceIs ==
    ASSUME NEW s \in Slot, NEW from \in Links, NEW k \in 1..Infinity
    PROVE  /\ Once(s, from, k) \in Slot
           /\ \/ /\ Once(s, from, k) = s
                 /\ k >= Infinity \/ (s.rt # NoRoute /\ ~Updates(s.rt, from, k))
              \/ /\ k < Infinity /\ (s.rt = NoRoute \/ Updates(s.rt, from, k))
                 /\ Once(s, from, k).rt # NoRoute /\ Once(s, from, k).rt.router = from
                 /\ Once(s, from, k).rt.metric = k /\ Once(s, from, k).rt.timer = 0
                 /\ ~Once(s, from, k).rt.iface
<1>0. k \in 0..Infinity /\ Infinity \in Nat /\ k # 0
  BY Numbers
<1>1. CASE k >= Infinity \/ (s.rt # NoRoute /\ ~Updates(s.rt, from, k))
  BY <1>1 DEF Once
<1>2. CASE k < Infinity /\ s.rt = NoRoute
  <2> DEFINE r == rtadd(s, from, k, FALSE)
  <2>0. ~(k >= Infinity)
    BY <1>0, <1>2
  <2>1. Once(s, from, k) = r
    BY <1>2, <2>0, Zenon DEF Once
  <2>2. \A b \in BOOLEAN : LET c == rtadd(s, from, k, b)
                           IN  c \in Slot /\ c.rt # NoRoute /\ c.rt.router = from
                               /\ c.rt.metric = k /\ c.rt.iface = b /\ c.rt.timer = 0
    BY <1>0, AddIs, AddTimer
  <2>3. r \in Slot /\ r.rt # NoRoute /\ r.rt.router = from
           /\ r.rt.metric = k /\ r.rt.iface = FALSE /\ r.rt.timer = 0
    BY <2>2, Zenon
  <2> QED
    BY <1>2, <2>1, <2>3
<1>3. CASE k < Infinity /\ s.rt # NoRoute /\ Updates(s.rt, from, k)
  <2> DEFINE r == rtchange(s, from, k)
  <2>1. Once(s, from, k) = r
    BY <1>0, <1>3 DEF Once
  <2>2. r \in Slot /\ r.rt # NoRoute /\ r.rt.router = from
           /\ r.rt.metric = k /\ r.rt.iface = (s.rt.iface /\ k = 0) /\ r.rt.timer = 0
    BY <1>0, <1>3, ChangeIs, ChangeTimer
  <2> HIDE DEF r
  <2> QED
    BY <1>0, <1>3, <2>1, <2>2
<1> QED
  BY <1>0, <1>1, <1>2, <1>3

LEMMA OnceAgain ==
    ASSUME NEW s \in Slot, NEW from \in Links, NEW k \in 1..Infinity
    PROVE  Once(Once(s, from, k), from, k) = Once(s, from, k)
<1> DEFINE r == Once(s, from, k)
<1>1. CASE r = s
  BY <1>1
<1>2. CASE r # s
  <2>1. /\ r \in Slot /\ r.rt # NoRoute /\ r.rt.router = from /\ r.rt.metric = k
        /\ r.rt.timer = 0
    BY <1>2, OnceIs
  <2> HIDE DEF r
  <2>2. ~Updates(r.rt, from, k)
    BY <2>1, Numbers DEF Updates
  <2>3. Once(r, from, k) = r
    BY <2>1, <2>2 DEF Once
  <2> QED
    BY <2>3 DEF r
<1> QED
  BY <1>1, <1>2

LEMMA LearnIs ==
    ASSUME NEW t \in [Nets -> Slot], NEW from \in Links, NEW e, e.net \in Nets,
           e.metric \in 1..Infinity
    PROVE  Learn(t, from, e) = [t EXCEPT ![e.net] = Once(t[e.net], from, e.metric)]
<1> DEFINE n == e.net
<1>1. [t EXCEPT ![n] = t[n]] = t
  OBVIOUS
<1> QED
  BY <1>1 DEF Learn, Once

Learns(t, u, from, nets) ==
    /\ \A i \in 1..Len(nets) : u[nets[i].net] = Once(t[nets[i].net], from, nets[i].metric)
    /\ \A n \in Nets : (\A i \in 1..Len(nets) : nets[i].net # n) => u[n] = t[n]

\* Each network is learnt once, however often the response lists it.
LEMMA LearntIs ==
    ASSUME NEW t \in [Nets -> Slot], NEW from \in Links, NEW nets, Len(nets) \in Nat,
           \A i \in 1..Len(nets) : nets[i].net \in Nets /\ nets[i].metric \in 1..Infinity,
           \A i, j \in 1..Len(nets) : nets[i].net = nets[j].net => nets[i].metric = nets[j].metric
    PROVE  Learns(t, Learnt(t, from, nets), from, nets)
<1> DEFINE X == [Nets -> Slot]
           m == Len(nets)
           O(i) == Once(t[nets[i].net], from, nets[i].metric)
<1>1. \A s \in X : \A i \in 1..m :
         /\ Learn(s, from, nets[i]) \in X
         /\ Learn(s, from, nets[i])[nets[i].net] = Once(s[nets[i].net], from, nets[i].metric)
         /\ \A n \in Nets : n # nets[i].net => Learn(s, from, nets[i])[n] = s[n]
  <2> SUFFICES ASSUME NEW s \in X, NEW i \in 1..m
               PROVE  /\ Learn(s, from, nets[i]) \in X
                      /\ Learn(s, from, nets[i])[nets[i].net]
                            = Once(s[nets[i].net], from, nets[i].metric)
                      /\ \A n \in Nets : n # nets[i].net => Learn(s, from, nets[i])[n] = s[n]
    OBVIOUS
  <2> DEFINE n0 == nets[i].net
             o == Once(s[n0], from, nets[i].metric)
  <2>1. Learn(s, from, nets[i]) = [s EXCEPT ![n0] = o]
    <3>1. PICK e : e = nets[i]
      OBVIOUS
    <3>2. e.net \in Nets /\ e.metric \in 1..Infinity
      BY <3>1
    <3>3. Learn(s, from, e) = [s EXCEPT ![e.net] = Once(s[e.net], from, e.metric)]
      BY <3>2, LearnIs
    <3> QED
      BY <3>1, <3>3, Zenon
  <2>2. o \in Slot /\ n0 \in Nets
    BY OnceIs
  <2> HIDE DEF o, n0
  <2>3. [s EXCEPT ![n0] = o] \in X /\ [s EXCEPT ![n0] = o][n0] = o
           /\ \A n \in Nets : n # n0 => [s EXCEPT ![n0] = o][n] = s[n]
    BY <2>2
  <2> QED
    BY <2>1, <2>3 DEF o, n0
<1>0. PICK L : Taught(L, t, from, nets)
  <2> HIDE DEF X
  <2>1. t \in X
    BY DEF X
  <2> QED
    BY <1>1, <2>1, LearntSteps
<1>2. /\ Learnt(t, from, nets) = L[m] /\ L[0] = t
      /\ \A i \in 0..(m - 1) : L[i + 1] = Learn(L[i], from, nets[i + 1])
  BY <1>0 DEF Taught
<1> DEFINE G(k) == /\ L[k] \in X
                   /\ \A i \in 1..k : L[k][nets[i].net] = O(i)
                   /\ \A n \in Nets : (\A i \in 1..k : nets[i].net # n) => L[k][n] = t[n]
           T == {k \in Nat : k <= m => G(k)}
<1>3. 0 \in T
  BY <1>2
<1>4. ASSUME NEW k \in Nat, k \in T
      PROVE  k + 1 \in T
  <2>1. SUFFICES ASSUME k + 1 <= m PROVE G(k + 1)
    OBVIOUS
  <2>2. k \in 0..(m - 1) /\ k + 1 \in 1..m /\ k <= m
    BY <2>1
  <2>3. G(k)
    BY <1>4, <2>2
  <2> DEFINE a == nets[k + 1].net
             l == L[k + 1]
  <2>4. L[k] \in X /\ a \in Nets
    BY <2>2, <2>3
  <2>5. /\ l \in X /\ l[a] = Once(L[k][a], from, nets[k + 1].metric)
        /\ \A n \in Nets : n # a => l[n] = L[k][n]
    <3>1. l = Learn(L[k], from, nets[k + 1])
      BY <1>2, <2>2
    <3> DEFINE s == L[k]
               j == k + 1
    <3>2. s \in X /\ j \in 1..m
      BY <2>2, <2>4
    <3> HIDE DEF s, j, X
    <3>3. /\ Learn(s, from, nets[j]) \in X
          /\ Learn(s, from, nets[j])[nets[j].net] = Once(s[nets[j].net], from, nets[j].metric)
          /\ \A n \in Nets : n # nets[j].net => Learn(s, from, nets[j])[n] = s[n]
      BY <1>1, <3>2, Zenon
    <3> QED
      BY <3>1, <3>3, Zenon DEF s, j
  <2>6. l[a] = O(k + 1)
    <3>1. CASE \E i \in 1..k : nets[i].net = a
      <4>1. PICK i \in 1..k : nets[i].net = a
        BY <3>1
      <4>2. i \in 1..m /\ nets[i].metric = nets[k + 1].metric
        BY <2>2, <4>1
      <4>3. L[k][a] = Once(t[a], from, nets[k + 1].metric)
        BY <2>3, <4>1, <4>2
      <4>4. t[a] \in Slot /\ nets[k + 1].metric \in 1..Infinity
        BY <2>2, <2>4
      <4> HIDE DEF a, l
      <4> QED
        BY <2>5, <4>3, <4>4, OnceAgain DEF a
    <3>2. CASE \A i \in 1..k : nets[i].net # a
      BY <2>3, <2>4, <2>5, <3>2
    <3> QED
      BY <3>1, <3>2
  <2>7. ASSUME NEW i \in 1..(k + 1)
        PROVE  l[nets[i].net] = O(i)
    <3>0. i \in 1..m
      BY <2>2
    <3>1. CASE nets[i].net = a
      <4>1. nets[i].metric = nets[k + 1].metric
        BY <2>2, <3>0, <3>1
      <4> QED
        BY <2>6, <3>1, <4>1
    <3>2. CASE nets[i].net # a
      <4>1. i \in 1..k
        BY <3>2
      <4> QED
        BY <2>3, <2>5, <3>0, <3>2, <4>1
    <3> QED
      BY <3>1, <3>2
  <2>8. ASSUME NEW n \in Nets, \A i \in 1..(k + 1) : nets[i].net # n
        PROVE  l[n] = t[n]
    <3>1. n # a /\ \A i \in 1..k : nets[i].net # n
      BY <2>8
    <3> QED
      BY <2>3, <2>5, <3>1
  <2> QED
    BY <2>5, <2>7, <2>8
<1>5. m \in T
  <2> HIDE DEF T
  <2> QED BY <1>3, <1>4, SetInduction
<1> QED
  BY <1>2, <1>5 DEF Learns

-----------------------------------------------------------------------------
(* A response is read.                                                     *)

LEMMA HeardIs ==
    ASSUME NEW t \in [Nets -> Slot], NEW m \in Nets, t[m].rt # NoRoute, t[m].rt.iface
    PROVE  /\ Heard(t, m) \in [Nets -> Slot]
           /\ Heard(t, m)[m].rt # NoRoute /\ Heard(t, m)[m].rt.iface
           /\ Heard(t, m)[m].rt.metric = t[m].rt.metric /\ Heard(t, m)[m].rt.timer = 0
           /\ Heard(t, m)[m].rt.router = t[m].rt.router
           /\ \A n \in Nets : n # m => Heard(t, m)[n] = t[n]
<1> DEFINE s == t[m]
           e == [s.rt EXCEPT !.timer = 0]
           r == [s EXCEPT !.rt = e]
<1>1. s \in Slot /\ s.rt \in Entry
  BY SlotIs
<1>2. /\ e \in Entry /\ e.metric = s.rt.metric /\ e.router = s.rt.router
      /\ e.iface = s.rt.iface /\ e.timer = 0
  <2>1. 0 \in 0..(Garbage - 1)
    BY Numbers
  <2> QED
    BY <1>1, <2>1 DEF Entry
<1>3. Heard(t, m) = [t EXCEPT ![m] = r]
  BY <1>1 DEF Heard, Slot, Entry
<1>4. r.rt = e /\ r \in Slot
  <2> HIDE DEF e
  <2> QED
    BY <1>1, <1>2 DEF Slot
<1>5. e # NoRoute /\ s.rt.iface
  BY <1>2, EntryIs
<1> HIDE DEF r, e
<1>6. /\ [t EXCEPT ![m] = r] \in [Nets -> Slot] /\ [t EXCEPT ![m] = r][m] = r
      /\ \A n \in Nets : n # m => [t EXCEPT ![m] = r][n] = t[n]
  BY <1>4
<1> HIDE DEF s
<1>7. r.rt # NoRoute /\ r.rt.iface /\ r.rt.metric = s.rt.metric /\ r.rt.timer = 0
         /\ r.rt.router = s.rt.router
  BY <1>2, <1>4, <1>5
<1> QED
  BY <1>3, <1>6, <1>7 DEF s

\* The entry of an interface, and another one that is or is not changed.
OwnStays(s, u) ==
    u.rt # NoRoute /\ u.rt.iface /\ u.rt.metric = 0 /\ u.rt.timer <= s.rt.timer
Ignored(p, n, s) ==
    \A k \in 1..Infinity : Tell(p, n, k) /\ s.rt # NoRoute =>
        k > s.rt.metric \/ s.rt.timer <= Middle
Taken(p, n, s, u) ==
    \E k \in 1..Infinity :
        /\ Tell(p, n, k) /\ k < Infinity
        /\ u.rt # NoRoute /\ u.rt.router = p.from /\ u.rt.metric = k /\ u.rt.timer = 0
        /\ ~u.rt.iface
        /\ s.rt # NoRoute => k <= s.rt.metric

\* What is known of the first packet in the socket of h.
First(h, p) ==
    /\ h \in Hosts /\ Len(queue[h]) \in Nat /\ 1 \in 1..Len(queue[h]) /\ queue[h][1] = p
    /\ p.from \in Links /\ p.from = <<p.from[1], p.from[2]>> /\ p.from[1] \in Hosts
    /\ p.from[2] \in Nets /\ <<h, p.from[2]>> \in Links
    /\ p.from[1] = h => p.from[2] \in ifnet[h]
    /\ p.from[1] \in alive
    /\ Len(p.nets) \in Nat
    /\ \A i \in 1..Len(p.nets) : p.nets[i].net \in Nets /\ p.nets[i].metric \in 1..Infinity
    /\ \A n \in Nets, k, l \in 1..Infinity : Tell(p, n, k) /\ Tell(p, n, l) => k = l
    /\ \A n \in Nets, k \in 1..Infinity : Tell(p, n, k) =>
          /\ routes[p.from[1]][n].rt # NoRoute
          /\ Further(routes[p.from[1]][n].rt.metric) <= k

LEMMA FirstIs ==
    ASSUME IInv, Calm, NEW h \in alive, queue[h] # <<>>, NEW p, p = Head(queue[h]),
           p.cmd = "response"
    PROVE  First(h, p)
<1>1. h \in Hosts /\ queue[h] \in Seq(Packets)
  BY DEF IInv, Simple, Sockets, Boxes
<1>2. Len(queue[h]) \in Nat /\ 1 \in 1..Len(queue[h]) /\ queue[h][1] = p
  BY <1>1
<1>3. p \in Mail(h, ifnet[h])
  BY <1>1, HeadRest
<1>4. /\ p.from \in Links /\ <<h, p.from[2]>> \in Links
      /\ p.from[1] = h => p.from[2] \in ifnet[h]
      /\ p.nets \in Seq(Said(p.from[1]))
  BY <1>3 DEF Mail, Packets
<1>5. p.from = <<p.from[1], p.from[2]>> /\ p.from[1] \in Hosts /\ p.from[2] \in Nets
  BY <1>4, Numbers
<1>6. Len(p.nets) \in Nat /\ \A i \in 1..Len(p.nets) : p.nets[i] \in Said(p.from[1])
  <2> DEFINE X == Said(p.from[1])
             v == p.nets
  <2>1. v \in Seq(X)
    BY <1>4
  <2> HIDE DEF X, v
  <2>2. Len(v) \in Nat /\ \A i \in 1..Len(v) : v[i] \in X
    BY <2>1, ElementOfSeq
  <2> QED
    BY <2>2 DEF v, X
<1>7. \A i \in 1..Len(p.nets) : p.nets[i].net \in Nets /\ p.nets[i].metric \in 1..Infinity
  BY <1>6 DEF Said
<1>8. \A n \in Nets, k, l \in 1..Infinity : Tell(p, n, k) /\ Tell(p, n, l) => k = l
  <2> SUFFICES ASSUME NEW n \in Nets, NEW k \in 1..Infinity, NEW l \in 1..Infinity,
                      Tell(p, n, k), Tell(p, n, l)
               PROVE  k = l
    OBVIOUS
  <2>1. l <= k /\ k <= l
    BY <1>1, <1>2 DEF Calm, NoWorse
  <2> QED
    BY <2>1, Numbers
<1>9. /\ p.from[1] \in alive
      /\ \A n \in Nets, k \in 1..Infinity : Tell(p, n, k) =>
            /\ routes[p.from[1]][n].rt # NoRoute
            /\ Further(routes[p.from[1]][n].rt.metric) <= k
  BY <1>1, <1>2 DEF Calm, Honest
<1> QED
  BY <1>1, <1>2, <1>4, <1>5, <1>6, <1>7, <1>8, <1>9 DEF First

\* What the table of a host that runs looks like.
LEMMA TableIs ==
    ASSUME IInv, Calm, NEW h \in alive, NEW n \in Nets
    PROVE  /\ h \in Hosts /\ routes[h] \in [Nets -> Slot] /\ routes[h][n] \in Slot
           /\ routes[h][n].rt # NoRoute =>
                 /\ routes[h][n].rt \in Entry /\ routes[h][n].rt.metric \in 0..Infinity
                 /\ routes[h][n].rt.timer \in Nat /\ routes[h][n].rt.router \in Links
           /\ <<h, n>> \in Links =>
                 /\ routes[h][n].rt # NoRoute /\ routes[h][n].rt.iface
                 /\ routes[h][n].rt.router = <<h, n>> /\ routes[h][n].rt.metric = 0
                 /\ routes[h][n].rt.timer <= 1
           /\ <<h, n>> \notin Links /\ routes[h][n].rt # NoRoute =>
                 /\ Learned(routes[h][n]) /\ routes[h][n].rt.router[1] # h
                 /\ routes[h][n].rt.metric < Infinity
<1>1. h \in Hosts /\ routes[h] \in [Nets -> Slot] /\ routes[h][n] \in Slot
  BY DEF IInv, Simple, Tables
<1>2. OwnEntry(h, ifnet[h], n, routes[h][n].rt)
  BY <1>1 DEF IInv, Tables, Table, Fit
<1>3. ifnet[h] = {m \in Nets : <<h, m>> \in Links}
  BY DEF Calm, Interfaces
<1>4. routes[h][n].rt # NoRoute =>
         /\ routes[h][n].rt \in Entry /\ routes[h][n].rt.metric \in 0..Infinity
         /\ routes[h][n].rt.timer \in Nat /\ routes[h][n].rt.router \in Links
  BY <1>1, SlotIs, Numbers DEF Entry
<1>5. <<h, n>> \in Links =>
         /\ routes[h][n].rt # NoRoute /\ routes[h][n].rt.iface /\ routes[h][n].rt.metric = 0
         /\ routes[h][n].rt.timer <= 1
  BY DEF Calm, Own
<1>6. <<h, n>> \in Links => routes[h][n].rt.router = <<h, n>>
  BY <1>2, <1>5 DEF OwnEntry
<1>7. <<h, n>> \notin Links /\ routes[h][n].rt # NoRoute =>
         Learned(routes[h][n]) /\ routes[h][n].rt.router[1] # h
  BY <1>2, <1>3 DEF OwnEntry, Learned
<1>8. Learned(routes[h][n]) => routes[h][n].rt.metric < Infinity
  BY DEF Calm, Routed
<1> QED
  BY <1>1, <1>4, <1>5, <1>6, <1>7, <1>8

LEMMA FurtherMore ==
    ASSUME NEW m \in 0..Infinity, NEW k \in 1..Infinity, Further(m) <= k
    PROVE  m < Infinity => k > m
  BY Numbers DEF Further

\* rip_input() of a response, network by network.
LEMMA ResponseIs ==
    ASSUME IInv, Calm, NEW h \in alive, queue[h] # <<>>, NEW p, p = Head(queue[h]),
           p.cmd = "response", NEW u, u = Response(h, routes[h], p), NEW n \in Nets
    PROVE  /\ <<h, n>> \in Links => /\ OwnStays(routes[h][n], u[n])
                                    /\ p.from = <<h, n>> => u[n].rt.timer = 0
           /\ <<h, n>> \notin Links => \/ u[n] = routes[h][n] /\ Ignored(p, n, routes[h][n])
                                       \/ p.from[1] # h /\ Taken(p, n, routes[h][n], u[n])
<1> DEFINE t == routes[h]
           r == p.from[1]
           m == p.from[2]
           w == Heard(t, m)
<1>0. First(h, p)
  BY FirstIs
<1>1. /\ h \in Hosts /\ t \in [Nets -> Slot] /\ m \in Nets /\ <<h, m>> \in Links
      /\ p.from = <<r, m>> /\ p.from \in Links /\ (r = h => m \in ifnet[h])
  <2>1. h \in Hosts /\ t \in [Nets -> Slot]
    BY TableIs
  <2> QED
    BY <1>0, <2>1, Zenon DEF First
<1>2. /\ t[m].rt # NoRoute /\ t[m].rt.iface /\ t[m].rt.metric = 0
      /\ t[m].rt.timer \in Nat /\ t[m].rt.router = <<h, m>>
  BY <1>1, TableIs
<1>3. /\ w \in [Nets -> Slot] /\ w[m].rt # NoRoute /\ w[m].rt.iface /\ w[m].rt.metric = 0
      /\ w[m].rt.timer = 0 /\ w[m].rt.router = <<h, m>>
      /\ \A k \in Nets : k # m => w[k] = t[k]
  <2> HIDE DEF t, m, w
  <2> QED
    BY <1>1, <1>2, HeardIs DEF w
<1> HIDE DEF w
<1>4. <<h, n>> \in Links => /\ OwnStays(t[n], w[n]) /\ w[n].rt.router = <<h, n>>
                            /\ n = m => w[n].rt.timer = 0
  <2>1. CASE n = m
    <3> HIDE DEF t, m
    <3> QED
      BY <1>2, <1>3, <2>1 DEF OwnStays
  <2>2. CASE n # m
    <3>1. w[n] = t[n]
      BY <1>3, <2>2
    <3>2. <<h, n>> \in Links => /\ t[n].rt # NoRoute /\ t[n].rt.iface /\ t[n].rt.metric = 0
                                /\ t[n].rt.timer \in Nat /\ t[n].rt.router = <<h, n>>
      BY TableIs
    <3> HIDE DEF t, m
    <3> QED
      BY <2>2, <3>1, <3>2 DEF OwnStays
  <2> QED
    BY <2>1, <2>2
<1>5. <<h, n>> \notin Links => w[n] = t[n]
  BY <1>1, <1>3
<1>6. CASE r = h
  <2>1. u = w
    BY <1>1, <1>2, <1>6 DEF Response, HeardSelf, w
  <2>2. Ignored(p, n, t[n])
    <3> SUFFICES ASSUME NEW k \in 1..Infinity, Tell(p, n, k), t[n].rt # NoRoute
                 PROVE  k > t[n].rt.metric
      BY DEF Ignored
    <3>1. Further(t[n].rt.metric) <= k
      BY <1>0, <1>6 DEF First
    <3>2. t[n].rt.metric \in 0..Infinity /\ (t[n].rt.metric = 0 \/ t[n].rt.metric < Infinity)
      BY TableIs
    <3> HIDE DEF t
    <3> QED
      BY <3>1, <3>2, FurtherMore, Numbers
  <2> QED
    BY <1>1, <1>4, <1>5, <2>1, <2>2
<1>7. CASE r # h
  <2>1. u = Learnt(w, p.from, p.nets)
    BY <1>7 DEF Response, w
  <2>2. /\ Len(p.nets) \in Nat
        /\ \A i \in 1..Len(p.nets) : p.nets[i].net \in Nets /\ p.nets[i].metric \in 1..Infinity
        /\ \A a \in Nets, k, l \in 1..Infinity : Tell(p, a, k) /\ Tell(p, a, l) => k = l
    BY <1>0 DEF First
  <2>3. \A i \in 1..Len(p.nets) : Tell(p, p.nets[i].net, p.nets[i].metric)
    BY DEF Tell
  <2>4. \A i, j \in 1..Len(p.nets) : p.nets[i].net = p.nets[j].net =>
                                        p.nets[i].metric = p.nets[j].metric
    BY <2>2, <2>3
  <2>5. /\ \A i \in 1..Len(p.nets) :
              u[p.nets[i].net] = Once(w[p.nets[i].net], p.from, p.nets[i].metric)
        /\ \A a \in Nets : (\A i \in 1..Len(p.nets) : p.nets[i].net # a) => u[a] = w[a]
    <3> DEFINE v == p.nets
               f == p.from
    <3>1. /\ Len(v) \in Nat /\ f \in Links
          /\ \A i \in 1..Len(v) : v[i].net \in Nets /\ v[i].metric \in 1..Infinity
          /\ \A i, j \in 1..Len(v) : v[i].net = v[j].net => v[i].metric = v[j].metric
      BY <1>1, <2>2, <2>4
    <3>2. u = Learnt(w, f, v)
      BY <2>1
    <3> HIDE DEF v, f
    <3>3. Learns(w, u, f, v)
      BY <1>3, <3>1, <3>2, LearntIs
    <3> QED
      BY <3>3, Zenon DEF Learns, v, f
  <2>6. CASE \A k \in 1..Infinity : ~Tell(p, n, k)
    <3>1. u[n] = w[n]
      BY <2>2, <2>3, <2>5, <2>6
    <3>2. Ignored(p, n, t[n])
      BY <2>6 DEF Ignored
    <3> QED
      BY <1>1, <1>4, <1>5, <1>7, <3>1, <3>2
  <2>7. ASSUME NEW k \in 1..Infinity, Tell(p, n, k)
        PROVE  /\ <<h, n>> \in Links => OwnStays(t[n], u[n])
               /\ <<h, n>> \notin Links => \/ u[n] = t[n] /\ Ignored(p, n, t[n])
                                           \/ Taken(p, n, t[n], u[n])
    <3>1. u[n] = Once(w[n], p.from, k)
      BY <2>5, <2>7 DEF Tell
    <3>2. w[n] \in Slot /\ k \in Nat /\ Infinity \in Nat
      <4>1. w[n] \in Slot
        BY <1>3
      <4>2. k \in Nat /\ Infinity \in Nat
        BY Numbers
      <4> QED
        BY <4>1, <4>2
    <3>3. CASE <<h, n>> \in Links
      <4>1. /\ w[n].rt # NoRoute /\ w[n].rt.metric = 0 /\ w[n].rt.router = <<h, n>>
            /\ OwnStays(t[n], w[n])
        BY <1>4, <3>3 DEF OwnStays
      <4>2. w[n].rt.router # p.from
        BY <1>1, <1>7, <4>1
      <4>3. ~Updates(w[n].rt, p.from, k)
        BY <3>2, <4>1, <4>2 DEF Updates
      <4>4. u[n] = w[n]
        BY <3>1, <4>1, <4>3, Zenon DEF Once
      <4> QED
        BY <3>3, <4>1, <4>4, Zenon
    <3>4. CASE <<h, n>> \notin Links
      <4>1. w[n] = t[n]
        BY <1>5, <3>4
      <4>2. t[n].rt # NoRoute => /\ Learned(t[n]) /\ t[n].rt.metric \in 0..Infinity
                                 /\ t[n].rt.metric < Infinity /\ t[n].rt.timer \in Nat
        BY <3>4, TableIs
      <4>3. t[n].rt # NoRoute /\ t[n].rt.router = p.from => k <= t[n].rt.metric
        <5>1. queue[h][1] = p /\ 1 \in 1..Len(queue[h])
          BY <1>0 DEF First
        <5> QED
          BY <2>7, <4>2, <5>1 DEF Calm, Routed
      <4>4. \A l \in 1..Infinity : Tell(p, n, l) => l = k
        BY <2>2, <2>7
      <4> HIDE DEF t
      <4>5. CASE /\ u[n] = t[n]
                 /\ k >= Infinity \/ (t[n].rt # NoRoute /\ ~Updates(t[n].rt, p.from, k))
        <5>1. t[n].rt # NoRoute => k > t[n].rt.metric \/ t[n].rt.timer <= Middle
          BY <3>2, <4>2, <4>5, Numbers DEF Updates, Middle
        <5>2. Ignored(p, n, t[n])
          BY <4>4, <5>1 DEF Ignored
        <5> QED
          BY <3>4, <4>5, <5>2
      <4>6. CASE /\ k < Infinity /\ (t[n].rt = NoRoute \/ Updates(t[n].rt, p.from, k))
                 /\ u[n].rt # NoRoute /\ u[n].rt.router = p.from /\ u[n].rt.metric = k
                 /\ u[n].rt.timer = 0 /\ ~u[n].rt.iface
        <5>1. t[n].rt # NoRoute => k <= t[n].rt.metric
          BY <3>2, <4>2, <4>3, <4>6, Numbers DEF Updates
        <5>2. Taken(p, n, t[n], u[n])
          BY <2>7, <4>6, <5>1 DEF Taken
        <5> QED
          BY <3>4, <5>2
      <4> QED
        BY <1>1, <3>1, <3>2, <4>1, <4>5, <4>6, OnceIs
    <3> QED
      BY <3>3, <3>4
  <2>8. p.from # <<h, n>>
    BY <1>1, <1>7
  <2> QED
    BY <1>7, <2>6, <2>7, <2>8
<1> QED
  BY <1>6, <1>7

LEMMA FurtherLess ==
    ASSUME NEW m \in 0..Infinity, NEW j \in 0..Infinity, NEW k \in 1..Infinity, Further(m) <= k
    PROVE  /\ j <= m => Further(j) <= k
           /\ k < Infinity => m < k
  BY Numbers DEF Further

\* In r host h has read the first packet.
Shifts(q, r, h) ==
    /\ \A x \in Hosts : x # h => r[x] = q[x]
    /\ \A i \in 1..Len(r[h]) : i + 1 \in 1..Len(q[h]) /\ r[h][i] = q[h][i + 1]
    /\ \A i \in 1..Len(q[h]) : i # 1 => i - 1 \in 1..Len(r[h]) /\ r[h][i - 1] = q[h][i]

LEMMA RestShifts ==
    ASSUME IInv, NEW h \in Hosts, queue[h] # <<>>
    PROVE  Shifts(queue, Rest(h), h)
<1>1. queue \in [Hosts -> Seq(Packets)]
  BY DEF IInv, Sockets, Boxes
<1> DEFINE s == queue[h]
           r == Rest(h)
<1>2. s \in Seq(Packets) /\ s # <<>> /\ r[h] = Tail(s) /\ \A x \in Hosts : x # h => r[x] = queue[x]
  BY <1>1 DEF Rest
<1> HIDE DEF s, r
<1>3. /\ Len(s) \in Nat /\ Len(Tail(s)) = Len(s) - 1
      /\ \A i \in 1..(Len(s) - 1) : Tail(s)[i] = s[i + 1]
  BY <1>2
<1>4. /\ \A i \in 1..Len(Tail(s)) : i + 1 \in 1..Len(s) /\ Tail(s)[i] = s[i + 1]
      /\ \A i \in 1..Len(s) : i # 1 => i - 1 \in 1..Len(Tail(s)) /\ Tail(s)[i - 1] = s[i]
  BY <1>3
<1> QED
  BY <1>2, <1>4 DEF Shifts, s, r

\* Host h reads the response p: its socket and table, and those of others.
Reads(h, p) ==
    /\ up' = up /\ alive' = alive /\ supplier' = supplier /\ ifnet' = ifnet /\ ticked' = ticked
    /\ Shifts(queue, queue', h)
    /\ \A x \in Hosts : x # h => routes'[x] = routes[x]
    /\ routes'[h] = Response(h, routes[h], p)

LEMMA ProcessReads ==
    ASSUME IInv, NEW h \in Hosts, process(h), NEW p, p = Head(queue[h]), p.cmd = "response"
    PROVE  h \in alive /\ queue[h] # <<>> /\ Reads(h, p)
<1>1. /\ h \in alive /\ queue[h] # <<>> /\ queue' = Rest(h)
      /\ routes' = [routes EXCEPT ![h] = Response(h, routes[h], p)]
      /\ UNCHANGED <<alive, up, supplier, ifnet, timeval, ticked, faults>>
  BY DEF process, Rest
<1>2. Shifts(queue, queue', h)
  BY <1>1, RestShifts
<1>3. /\ \A x \in Hosts : x # h => routes'[x] = routes[x]
      /\ routes'[h] = Response(h, routes[h], p)
  BY <1>1 DEF IInv, Tables
<1> QED
  BY <1>1, <1>2, <1>3 DEF Reads

LEMMA ReadKeeps ==
    ASSUME IInv, IInv', Calm, NEW h \in alive, queue[h] # <<>>, NEW p, p = Head(queue[h]),
           p.cmd = "response", Reads(h, p)
    PROVE  Calm'
<1> DEFINE r == p.from[1]
           m == p.from[2]
<1>0. First(h, p)
  BY FirstIs
<1>1. /\ h \in Hosts /\ 1 \in 1..Len(queue[h]) /\ queue[h][1] = p /\ p.from = <<r, m>>
      /\ r \in alive /\ r \in Hosts /\ m \in Nets /\ <<h, m>> \in Links /\ <<r, m>> \in Links
  BY <1>0, Zenon DEF First
<1>2. \A n \in Nets, k \in 1..Infinity : Tell(p, n, k) =>
         routes[r][n].rt # NoRoute /\ Further(routes[r][n].rt.metric) <= k
  BY <1>0 DEF First
<1> HIDE DEF r, m
<1>3. \A n \in Nets :
         /\ <<h, n>> \in Links => /\ OwnStays(routes[h][n], routes'[h][n])
                                  /\ p.from = <<h, n>> => routes'[h][n].rt.timer = 0
         /\ <<h, n>> \notin Links =>
               \/ routes'[h][n] = routes[h][n] /\ Ignored(p, n, routes[h][n])
               \/ r # h /\ Taken(p, n, routes[h][n], routes'[h][n])
  BY ResponseIs DEF Reads, r
<1>4. /\ up' = up /\ alive' = alive /\ supplier' = supplier /\ ifnet' = ifnet /\ ticked' = ticked
      /\ \A x \in Hosts : x # h => queue'[x] = queue[x] /\ routes'[x] = routes[x]
  BY DEF Reads, Shifts
<1>5. \A x \in alive, n \in Nets : routes[x][n].rt # NoRoute =>
         routes[x][n].rt.metric \in 0..Infinity /\ routes[x][n].rt.timer \in Nat
  BY TableIs
<1>6. \A x \in Hosts, n \in Nets : routes'[x][n].rt # NoRoute =>
         routes'[x][n].rt.metric \in 0..Infinity /\ routes'[x][n].rt.timer \in Nat
  <2>1. \A x \in Hosts, n \in Nets : routes'[x][n] \in Slot
    BY DEF IInv, Tables
  <2> QED
    BY <2>1, SlotIs, Numbers DEF Entry
<1>7. alive \subseteq Hosts
  BY DEF IInv, Simple
<1>8. \A x \in alive, n \in Nets : routes[x][n].rt # NoRoute =>
         routes'[x][n].rt # NoRoute /\ routes'[x][n].rt.metric <= routes[x][n].rt.metric
  <2> SUFFICES ASSUME NEW x \in alive, NEW n \in Nets, routes[x][n].rt # NoRoute
               PROVE  /\ routes'[x][n].rt # NoRoute
                      /\ routes'[x][n].rt.metric <= routes[x][n].rt.metric
    OBVIOUS
  <2>1. CASE x # h
    BY <1>4, <1>5, <1>7, <2>1
  <2>2. CASE x = h /\ <<h, n>> \in Links
    BY <1>3, <1>5, <2>2 DEF OwnStays
  <2>3. CASE x = h /\ <<h, n>> \notin Links
    BY <1>3, <1>5, <2>3 DEF Taken
  <2> QED
    BY <2>1, <2>2, <2>3
<1>9. \A x \in Hosts : \A i \in 1..Len(queue'[x]) :
         \E j \in 1..Len(queue[x]) : queue'[x][i] = queue[x][j]
  <2> SUFFICES ASSUME NEW x \in Hosts, NEW i \in 1..Len(queue'[x])
               PROVE  \E j \in 1..Len(queue[x]) : queue'[x][i] = queue[x][j]
    OBVIOUS
  <2>1. CASE x # h
    BY <1>4, <2>1
  <2>2. CASE x = h
    <3>1. i + 1 \in 1..Len(queue[x]) /\ queue'[x][i] = queue[x][i + 1]
      BY <2>2 DEF Reads, Shifts
    <3> QED
      BY <3>1
  <2> QED
    BY <2>1, <2>2
<1>10. (up = Links /\ Interfaces)'
  BY <1>4 DEF Calm, Interfaces
<1>11. Honest(queue', routes', alive')
  <2> SUFFICES ASSUME NEW x \in Hosts, NEW i \in 1..Len(queue'[x]), queue'[x][i].cmd = "response"
               PROVE  /\ queue'[x][i].from[1] \in alive
                      /\ \A n \in Nets, k \in 1..Infinity : Tell(queue'[x][i], n, k) =>
                            /\ routes'[queue'[x][i].from[1]][n].rt # NoRoute
                            /\ Further(routes'[queue'[x][i].from[1]][n].rt.metric) <= k
    BY <1>4 DEF Honest
  <2>1. PICK j \in 1..Len(queue[x]) : queue'[x][i] = queue[x][j]
    BY <1>9
  <2> DEFINE g == queue[x][j].from[1]
  <2>2. /\ g \in alive
        /\ \A n \in Nets, k \in 1..Infinity : Tell(queue[x][j], n, k) =>
              routes[g][n].rt # NoRoute /\ Further(routes[g][n].rt.metric) <= k
    BY <2>1 DEF Calm, Honest
  <2> HIDE DEF g
  <2>3. ASSUME NEW n \in Nets, NEW k \in 1..Infinity, Tell(queue[x][j], n, k)
        PROVE  routes'[g][n].rt # NoRoute /\ Further(routes'[g][n].rt.metric) <= k
    <3>1. routes[g][n].rt # NoRoute /\ Further(routes[g][n].rt.metric) <= k
      BY <2>2, <2>3
    <3>2. routes'[g][n].rt # NoRoute /\ routes'[g][n].rt.metric <= routes[g][n].rt.metric
      BY <1>8, <2>2, <3>1
    <3>3. routes[g][n].rt.metric \in 0..Infinity /\ routes'[g][n].rt.metric \in 0..Infinity
      BY <1>5, <1>6, <1>7, <2>2, <3>1, <3>2
    <3> QED
      BY <3>1, <3>2, <3>3, FurtherLess
  <2> QED
    BY <2>1, <2>2, <2>3 DEF g
<1>12. NoWorse(queue')
  <2> SUFFICES ASSUME NEW x \in Hosts, NEW i \in 1..Len(queue'[x]), NEW j \in 1..Len(queue'[x]),
                      i <= j, queue'[x][i].from = queue'[x][j].from, NEW n \in Nets,
                      NEW k \in 1..Infinity, NEW l \in 1..Infinity,
                      Tell(queue'[x][i], n, k), Tell(queue'[x][j], n, l)
               PROVE  l <= k
    BY DEF NoWorse
  <2>1. CASE x # h
    BY <1>4, <2>1 DEF Calm, NoWorse
  <2>2. CASE x = h
    <3>1. /\ i + 1 \in 1..Len(queue[h]) /\ queue'[h][i] = queue[h][i + 1]
          /\ j + 1 \in 1..Len(queue[h]) /\ queue'[h][j] = queue[h][j + 1]
      BY <2>2 DEF Reads, Shifts
    <3>2. i + 1 <= j + 1
      OBVIOUS
    <3> QED
      BY <1>1, <2>2, <3>1, <3>2 DEF Calm, NoWorse
  <2> QED
    BY <2>1, <2>2
\* An entry that h has just got from the sender.
<1>13. ASSUME NEW n \in Nets, NEW k \in 1..Infinity, Tell(p, n, k), k < Infinity
       PROVE  /\ routes[r][n].rt # NoRoute /\ routes[r][n].rt.metric < k
              /\ \A i \in 1..Len(queue'[h]), l \in 1..Infinity :
                    queue'[h][i].from = p.from /\ Tell(queue'[h][i], n, l) => l <= k
  <2>1. routes[r][n].rt # NoRoute /\ Further(routes[r][n].rt.metric) <= k
    BY <1>2, <1>13
  <2>2. routes[r][n].rt.metric < k
    BY <1>1, <1>5, <1>13, <2>1, FurtherLess
  <2>3. ASSUME NEW i \in 1..Len(queue'[h]), NEW l \in 1..Infinity,
               queue'[h][i].from = p.from, Tell(queue'[h][i], n, l)
        PROVE  l <= k
    <3>1. i + 1 \in 1..Len(queue[h]) /\ queue'[h][i] = queue[h][i + 1] /\ 1 <= i + 1
      BY DEF Reads, Shifts
    <3> QED
      BY <1>1, <1>13, <2>3, <3>1 DEF Calm, NoWorse
  <2> QED
    BY <2>1, <2>2, <2>3
<1>14. ASSUME NEW g \in alive, NEW n \in Nets, NEW c \in 0..Infinity, Shorter(routes, g, n, c)
       PROVE  Shorter(routes', g, n, c)
  <2>1. routes[g][n].rt # NoRoute /\ routes[g][n].rt.metric < c
    BY <1>14 DEF Shorter
  <2>2. routes'[g][n].rt # NoRoute /\ routes'[g][n].rt.metric <= routes[g][n].rt.metric
    BY <1>8, <2>1
  <2>3. routes[g][n].rt.metric \in 0..Infinity /\ routes'[g][n].rt.metric \in 0..Infinity
    BY <1>5, <1>6, <1>7, <2>1, <2>2
  <2>4. routes'[g][n].rt.metric < c
    <3>1. \A a, b \in 0..Infinity : b <= a /\ a < c => b < c
      OBVIOUS
    <3> QED
      BY <2>1, <2>2, <2>3, <3>1
  <2> QED
    BY <2>2, <2>4 DEF Shorter
<1>15. Routed(queue', routes', alive')
  <2> SUFFICES ASSUME NEW x \in alive, NEW n \in Nets, Learned(routes'[x][n])
               PROVE  /\ routes'[x][n].rt.metric < Infinity
                      /\ routes'[x][n].rt.router[1] \in alive
                      /\ Shorter(routes', routes'[x][n].rt.router[1], n, routes'[x][n].rt.metric)
                      /\ \A i \in 1..Len(queue'[x]), k \in 1..Infinity :
                            queue'[x][i].from = routes'[x][n].rt.router /\ Tell(queue'[x][i], n, k)
                               => k <= routes'[x][n].rt.metric
    BY <1>4 DEF Routed
  <2>1. CASE routes'[x][n] = routes[x][n]
    <3> DEFINE g == routes[x][n].rt.router[1]
               c == routes[x][n].rt.metric
    <3>1. /\ c < Infinity /\ g \in alive /\ Shorter(routes, g, n, c)
          /\ \A i \in 1..Len(queue[x]), k \in 1..Infinity :
                queue[x][i].from = routes[x][n].rt.router /\ Tell(queue[x][i], n, k) => k <= c
      BY <2>1 DEF Calm, Routed
    <3>2. c \in 0..Infinity /\ Infinity \in Nat
      BY <1>5, <2>1, Numbers DEF Learned
    <3>3. Shorter(routes', g, n, c)
      <4> HIDE DEF g, c
      <4> QED BY <1>14, <3>1, <3>2
    <3>4. \A i \in 1..Len(queue'[x]), k \in 1..Infinity :
             queue'[x][i].from = routes[x][n].rt.router /\ Tell(queue'[x][i], n, k) => k <= c
      <4> SUFFICES ASSUME NEW i \in 1..Len(queue'[x]), NEW k \in 1..Infinity,
                          queue'[x][i].from = routes[x][n].rt.router, Tell(queue'[x][i], n, k)
                   PROVE  k <= c
        OBVIOUS
      <4>1. PICK j \in 1..Len(queue[x]) : queue'[x][i] = queue[x][j]
        BY <1>7, <1>9
      <4> QED
        BY <3>1, <4>1
    <3> QED
      BY <2>1, <3>1, <3>3, <3>4
  <2>2. CASE routes'[x][n] # routes[x][n]
    <3>1. x = h /\ <<h, n>> \notin Links
      BY <1>3, <1>4, <1>7, <2>2 DEF Learned, OwnStays
    <3>2. r # h /\ Taken(p, n, routes[h][n], routes'[h][n])
      BY <1>3, <2>2, <3>1
    <3>3. PICK k \in 1..Infinity :
             /\ Tell(p, n, k) /\ k < Infinity
             /\ routes'[h][n].rt.router = p.from /\ routes'[h][n].rt.metric = k
      BY <3>2 DEF Taken
    <3>4. routes'[r] = routes[r]
      BY <1>1, <1>4, <3>2
    <3>5. Shorter(routes', r, n, k)
      BY <1>13, <3>3, <3>4 DEF Shorter
    <3>6. \A i \in 1..Len(queue'[h]), l \in 1..Infinity :
             queue'[h][i].from = p.from /\ Tell(queue'[h][i], n, l) => l <= k
      BY <1>13, <3>3
    <3> QED
      BY <1>1, <3>1, <3>3, <3>5, <3>6
  <2> QED
    BY <2>1, <2>2
<1>16. Backed(queue', routes', alive', supplier', ticked')
  <2> SUFFICES ASSUME NEW x \in alive, NEW n \in Nets, Learned(routes'[x][n])
               PROVE  \E g \in alive \cap supplier, b \in Nets :
                         Backs(queue', routes', ticked, x, n, g, b)
    BY <1>4 DEF Backed
  <2>0. Middle \in Nat /\ Infinity \in Nat
    BY Numbers DEF Middle
  <2>1. CASE routes'[x][n] = routes[x][n] /\ (x = h => Ignored(p, n, routes[h][n]))
    <3>1. PICK g \in alive \cap supplier, b \in Nets : Backs(queue, routes, ticked, x, n, g, b)
      BY <2>1 DEF Calm, Backed
    <3> DEFINE c == routes[x][n].rt.metric
               t == routes[x][n].rt.timer
               U(q) == Underway(q, x, <<g, b>>, n, c)
    <3>2. c \in 0..Infinity /\ t \in Nat /\ routes[x][n].rt # NoRoute
      BY <1>5, <2>1 DEF Learned
    <3>3. /\ {<<x, b>>, <<g, b>>} \subseteq Links /\ Shorter(routes, g, n, c)
          /\ t <= Middle + Round(x \in ticked) + Round(g \notin ticked \/ U(queue))
      BY <3>1 DEF Backs
    <3>4. ASSUME U(queue), ~U(queue')
          PROVE  t <= Middle
      <4>1. PICK i \in 1..Len(queue[x]), j \in 1..Infinity :
               j <= c /\ queue[x][i].from = <<g, b>> /\ Tell(queue[x][i], n, j)
        BY <3>4 DEF Underway
      <4>2. x = h
        BY <1>4, <1>7, <3>4, <4>1 DEF Underway
      <4>3. CASE i # 1
        <5>1. i - 1 \in 1..Len(queue'[h]) /\ queue'[h][i - 1] = queue[h][i]
          BY <4>2, <4>3 DEF Reads, Shifts
        <5> QED
          BY <3>4, <4>1, <4>2, <5>1 DEF Underway
      <4>4. CASE i = 1
        <5>1. Tell(p, n, j) /\ Ignored(p, n, routes[h][n])
          BY <1>1, <2>1, <4>1, <4>2, <4>4
        <5> QED
          BY <3>2, <4>1, <4>2, <5>1 DEF Ignored
      <4> QED
        BY <4>3, <4>4
    <3> HIDE DEF U
    <3>5. t <= Middle + Round(x \in ticked) + Round(g \notin ticked \/ U(queue'))
      BY <2>0, <3>2, <3>3, <3>4 DEF Round
    <3>6. Shorter(routes', g, n, c)
      <4> HIDE DEF c
      <4> QED BY <1>14, <3>1, <3>2, <3>3
    <3>7. Backs(queue', routes', ticked, x, n, g, b)
      BY <2>1, <3>3, <3>5, <3>6 DEF Backs, U
    <3> QED
      BY <3>1, <3>7
  <2>2. CASE ~(routes'[x][n] = routes[x][n] /\ (x = h => Ignored(p, n, routes[h][n])))
    <3>1. x = h /\ <<h, n>> \notin Links
      BY <1>3, <1>4, <1>7, <2>2 DEF Learned, OwnStays
    <3>2. r # h /\ Taken(p, n, routes[h][n], routes'[h][n])
      BY <1>3, <2>2, <3>1
    <3>3. PICK k \in 1..Infinity :
             /\ Tell(p, n, k) /\ k < Infinity
             /\ routes'[h][n].rt.metric = k /\ routes'[h][n].rt.timer = 0
             /\ routes[h][n].rt # NoRoute => k <= routes[h][n].rt.metric
      BY <3>2 DEF Taken
    <3>4. Shorter(routes, r, n, k)
      BY <1>13, <3>3 DEF Shorter
    <3>5. ASSUME NEW g \in alive \cap supplier, g # h, <<g, m>> \in Links, Shorter(routes, g, n, k)
          PROVE  Backs(queue', routes', ticked, h, n, g, m)
      <4>1. Shorter(routes', g, n, k)
        BY <1>4, <1>7, <3>5 DEF Shorter
      <4>2. routes'[h][n].rt.timer <= Middle + Round(h \in ticked)
               + Round(g \notin ticked \/ Underway(queue', h, <<g, m>>, n, routes'[h][n].rt.metric))
        BY <2>0, <3>3 DEF Round
      <4> QED
        BY <1>1, <3>3, <3>5, <4>1, <4>2 DEF Backs
    <3>6. CASE r \in supplier
      BY <1>1, <3>1, <3>2, <3>4, <3>5, <3>6
    <3>7. CASE r \notin supplier
      <4>1. \A b \in Nets : <<r, b>> \in Links => b = m
        BY <1>1, <3>7 DEF Calm, Interfaces
      <4>2. <<r, n>> \notin Links /\ n # m
        BY <1>1, <3>1, <4>1
      <4>3. routes[r][n].rt # NoRoute /\ routes[r][n].rt.metric < k
        BY <3>4 DEF Shorter
      <4>4. Learned(routes[r][n]) /\ routes[r][n].rt.metric \in 0..Infinity
        BY <1>1, <4>2, <4>3, TableIs
      <4>5. PICK g \in alive \cap supplier, b \in Nets : Backs(queue, routes, ticked, r, n, g, b)
        BY <1>1, <4>4 DEF Calm, Backed
      <4>6. b = m /\ <<g, m>> \in Links /\ Shorter(routes, g, n, routes[r][n].rt.metric)
        BY <4>1, <4>5 DEF Backs
      <4>7. routes[g][n].rt # NoRoute /\ routes[g][n].rt.metric < routes[r][n].rt.metric
               /\ routes[g][n].rt.metric \in 0..Infinity
        BY <1>5, <4>5, <4>6 DEF Shorter
      <4>8. Shorter(routes, g, n, k)
        BY <2>0, <4>3, <4>4, <4>7 DEF Shorter
      <4>9. g # h
        BY <2>0, <3>3, <4>3, <4>4, <4>7
      <4> QED
        BY <1>1, <3>1, <3>5, <4>5, <4>6, <4>8, <4>9
    <3> QED
      BY <3>6, <3>7
  <2> QED
    BY <2>1, <2>2
<1>17. Own(queue', routes', alive', ticked')
  <2> SUFFICES ASSUME NEW x \in alive, NEW n \in Nets, <<x, n>> \in Links
               PROVE  /\ routes'[x][n].rt # NoRoute /\ routes'[x][n].rt.iface
                      /\ routes'[x][n].rt.metric = 0 /\ routes'[x][n].rt.timer <= 1
                      /\ routes'[x][n].rt.timer = 1 => x \in ticked /\ Echoed(queue', x, n)
    BY <1>4 DEF Own
  <2>1. /\ routes[x][n].rt # NoRoute /\ routes[x][n].rt.iface
        /\ routes[x][n].rt.metric = 0 /\ routes[x][n].rt.timer <= 1
        /\ routes[x][n].rt.timer \in Nat
        /\ routes[x][n].rt.timer = 1 => x \in ticked /\ Echoed(queue, x, n)
    BY <1>5 DEF Calm, Own
  <2>2. CASE x # h
    <3>1. routes'[x] = routes[x] /\ queue'[x] = queue[x]
      BY <1>4, <1>7, <2>2
    <3> QED
      BY <2>1, <3>1 DEF Echoed
  <2>3. CASE x = h
    <3>1. /\ OwnStays(routes[h][n], routes'[h][n])
          /\ p.from = <<h, n>> => routes'[h][n].rt.timer = 0
      BY <1>3, <2>3
    <3>2. routes'[h][n].rt.timer \in Nat
      BY <1>1, <1>6, <3>1 DEF OwnStays
    <3>3. ASSUME routes'[h][n].rt.timer = 1
          PROVE  h \in ticked /\ Echoed(queue', h, n)
      <4>1. routes[h][n].rt.timer = 1
        BY <2>1, <2>3, <3>1, <3>2, <3>3 DEF OwnStays
      <4>2. PICK i \in 1..Len(queue[h]) :
               queue[h][i].cmd = "response" /\ queue[h][i].from = <<h, n>>
        BY <2>1, <2>3, <4>1 DEF Echoed
      <4>3. i # 1
        BY <1>1, <3>1, <3>3, <4>2
      <4>4. i - 1 \in 1..Len(queue'[h]) /\ queue'[h][i - 1] = queue[h][i]
        BY <4>3 DEF Reads, Shifts
      <4> QED
        BY <2>1, <2>3, <4>1, <4>2, <4>4 DEF Echoed
    <3>4. routes'[h][n].rt.timer <= 1
      BY <2>1, <2>3, <3>1, <3>2 DEF OwnStays
    <3> QED
      BY <2>3, <3>1, <3>3, <3>4 DEF OwnStays
  <2> QED
    BY <2>2, <2>3
<1> QED
  BY <1>10, <1>11, <1>12, <1>15, <1>16, <1>17 DEF Calm

-----------------------------------------------------------------------------
(* A request is read.                                                      *)

Informed(q, R, S, P, T) ==
    /\ Honest(q, R, S) /\ NoWorse(q) /\ Routed(q, R, S)
    /\ Backed(q, R, S, P, T) /\ Own(q, R, S, T)

\* A host tells what it has.
LEMMA Delivered ==
    ASSUME NEW q \in [Hosts -> Seq(Packets)], NEW r \in [Hosts -> Seq(Packets)],
           NEW S \in SUBSET Hosts, NEW h \in S, NEW R \in [Hosts -> [Nets -> Slot]],
           NEW P, NEW T, Informed(q, R, S, P, T), Delivers(q, r, h, R[h])
    PROVE  Informed(r, R, S, P, T)
<1>1. Honest(r, R, S) /\ NoWorse(r) /\ Routed(r, R, S)
  BY DeliverKeeps DEF Informed
<1>2. Extends(q, r)
  BY DEF Delivers
<1>3. /\ \A x \in Hosts : \A n : Echoed(q, x, n) => Echoed(r, x, n)
      /\ \A x \in Hosts, n \in Nets : \A g, m :
            Learned(R[x][n]) /\ Backs(q, R, T, x, n, g, m) => Backs(r, R, T, x, n, g, m)
  BY <1>2, ExtendsKeeps
<1>4. Backed(r, R, S, P, T)
  BY <1>3 DEF Informed, Backed
<1>5. Own(r, R, S, T)
  BY <1>3 DEF Informed, Own
<1> QED
  BY <1>1, <1>4, <1>5 DEF Informed

\* A packet that tells nothing can be dropped.
LEMMA ShiftKeeps ==
    ASSUME IInv, Calm, NEW h \in alive, NEW r, Shifts(queue, r, h),
           queue[h][1].cmd # "response"
    PROVE  Informed(r, routes, alive, supplier, ticked)
<1>0. alive \subseteq Hosts /\ \A x \in Hosts : Len(queue[x]) \in Nat
  BY DEF IInv, Simple, Sockets, Boxes
<1>1. ASSUME NEW x \in Hosts, NEW i \in 1..Len(r[x])
      PROVE  \E j \in 1..Len(queue[x]) : r[x][i] = queue[x][j] /\ j = IF x = h THEN i + 1 ELSE i
  BY DEF Shifts
<1>2. ASSUME NEW x \in Hosts, NEW i \in 1..Len(queue[x]), queue[x][i].cmd = "response"
      PROVE  \E j \in 1..Len(r[x]) : r[x][j] = queue[x][i]
  <2>1. CASE x = h
    <3>1. i - 1 \in 1..Len(r[x]) /\ r[x][i - 1] = queue[x][i]
      BY <1>2, <2>1 DEF Shifts
    <3> QED
      BY <3>1
  <2>2. CASE x # h
    BY <2>2 DEF Shifts
  <2> QED
    BY <2>1, <2>2
<1>3. Honest(r, routes, alive)
  <2> SUFFICES ASSUME NEW x \in Hosts, NEW i \in 1..Len(r[x]), r[x][i].cmd = "response"
               PROVE  /\ r[x][i].from[1] \in alive
                      /\ \A n \in Nets, k \in 1..Infinity : Tell(r[x][i], n, k) =>
                            /\ routes[r[x][i].from[1]][n].rt # NoRoute
                            /\ Further(routes[r[x][i].from[1]][n].rt.metric) <= k
    BY DEF Honest
  <2>1. PICK j \in 1..Len(queue[x]) : r[x][i] = queue[x][j]
    BY <1>1
  <2> QED
    BY <2>1 DEF Calm, Honest
<1>4. NoWorse(r)
  <2> SUFFICES ASSUME NEW x \in Hosts, NEW i \in 1..Len(r[x]), NEW j \in 1..Len(r[x]),
                      i <= j, r[x][i].from = r[x][j].from, NEW n \in Nets,
                      NEW k \in 1..Infinity, NEW l \in 1..Infinity,
                      Tell(r[x][i], n, k), Tell(r[x][j], n, l)
               PROVE  l <= k
    BY DEF NoWorse
  <2>1. PICK a \in 1..Len(queue[x]) : r[x][i] = queue[x][a] /\ a = IF x = h THEN i + 1 ELSE i
    BY <1>1
  <2>2. PICK b \in 1..Len(queue[x]) : r[x][j] = queue[x][b] /\ b = IF x = h THEN j + 1 ELSE j
    BY <1>1
  <2>3. a <= b
    BY <2>1, <2>2
  <2> QED
    BY <2>1, <2>2, <2>3 DEF Calm, NoWorse
<1>5. Routed(r, routes, alive)
  <2> SUFFICES ASSUME NEW x \in alive, NEW n \in Nets, Learned(routes[x][n]),
                      NEW i \in 1..Len(r[x]), NEW k \in 1..Infinity,
                      r[x][i].from = routes[x][n].rt.router, Tell(r[x][i], n, k)
               PROVE  k <= routes[x][n].rt.metric
    BY DEF Calm, Routed
  <2>1. PICK j \in 1..Len(queue[x]) : r[x][i] = queue[x][j]
    BY <1>0, <1>1
  <2> QED
    BY <2>1 DEF Calm, Routed
<1>6. Backed(r, routes, alive, supplier, ticked)
  <2> SUFFICES ASSUME NEW x \in alive, NEW n \in Nets, Learned(routes[x][n]),
                      NEW g \in alive \cap supplier, NEW m \in Nets,
                      Backs(queue, routes, ticked, x, n, g, m)
               PROVE  Backs(r, routes, ticked, x, n, g, m)
    BY DEF Calm, Backed
  <2> DEFINE U(q) == Underway(q, x, <<g, m>>, n, routes[x][n].rt.metric)
             P(q) == g \notin ticked \/ U(q)
             t == routes[x][n].rt.timer
  <2>1. U(queue) => U(r)
    <3> SUFFICES ASSUME U(queue) PROVE U(r)
      OBVIOUS
    <3>1. PICK i \in 1..Len(queue[x]), k \in 1..Infinity :
             /\ k <= routes[x][n].rt.metric /\ queue[x][i].from = <<g, m>>
             /\ Tell(queue[x][i], n, k)
      BY DEF Underway
    <3>2. queue[x][i].cmd = "response" /\ x \in Hosts
      BY <1>0, <3>1 DEF Tell
    <3>3. PICK j \in 1..Len(r[x]) : r[x][j] = queue[x][i]
      BY <1>2, <3>2
    <3> QED
      BY <3>1, <3>3 DEF Underway
  <2>2. P(queue) => P(r)
    BY <2>1
  <2>3. Middle \in Nat /\ t \in Nat
    <3>1. t \in Nat
      BY TableIs DEF Learned
    <3>2. Middle \in Nat
      BY Numbers DEF Middle
    <3> QED
      BY <3>1, <3>2
  <2>4. t <= Middle + Round(x \in ticked) + Round(P(queue))
    BY DEF Backs
  <2> HIDE DEF P
  <2>5. t <= Middle + Round(x \in ticked) + Round(P(r))
    BY <2>2, <2>3, <2>4 DEF Round
  <2> QED
    BY <2>5 DEF Backs, P
<1>7. Own(r, routes, alive, ticked)
  <2> SUFFICES ASSUME NEW x \in alive, NEW n, Echoed(queue, x, n)
               PROVE  Echoed(r, x, n)
    BY DEF Calm, Own
  <2>1. PICK i \in 1..Len(queue[x]) : queue[x][i].cmd = "response" /\ queue[x][i].from = <<x, n>>
    BY DEF Echoed
  <2>2. PICK j \in 1..Len(r[x]) : r[x][j] = queue[x][i]
    BY <1>0, <1>2, <2>1
  <2> QED
    BY <2>1, <2>2 DEF Echoed
<1> QED
  BY <1>3, <1>4, <1>5, <1>6, <1>7 DEF Informed

LEMMA ReplyDelivers ==
    ASSUME NEW h \in Hosts, NEW q \in [Hosts -> Seq(Packets)], NEW p, NEW t,
           p.from[1] \in Hosts, NEW r, r = Reply(h, q, p, t)
    PROVE  Delivers(q, r, h, t)
<1> DEFINE n == p.from[2]
           g == p.from[1]
           a == Packet("response", <<h, n>>, Supplied(t))
<1>0. /\ \A x \in Hosts : Len(q[x]) \in Nat
      /\ q[g] \in Seq(Packets)
  OBVIOUS
<1>1. CASE r = q
  BY <1>0, <1>1 DEF Delivers, Extends
<1>2. CASE r # q
  <2>1. r = [q EXCEPT ![g] = Append(q[g], a)]
    BY <1>2 DEF Reply
  <2>2. a.from[1] = h /\ a.nets = Supplied(t)
    BY DEF Packet
  <2>3. r[g] = Append(q[g], a) /\ \A x \in Hosts : x # g => r[x] = q[x]
    BY <2>1
  <2> HIDE DEF a, g
  <2>4. /\ Len(r[g]) = Len(q[g]) + 1 /\ r[g][Len(q[g]) + 1] = a
        /\ \A i \in 1..Len(q[g]) : r[g][i] = q[g][i]
    BY <1>0, <2>3
  <2> SUFFICES ASSUME NEW x \in Hosts
               PROVE  /\ Len(q[x]) <= Len(r[x]) /\ \A i \in 1..Len(q[x]) : r[x][i] = q[x][i]
                      /\ \A i \in 1..Len(r[x]) : i > Len(q[x]) =>
                            r[x][i].from[1] = h /\ r[x][i].nets = Supplied(t)
    BY DEF Delivers, Extends
  <2>5. CASE x = g
    <3>1. \A i \in 1..Len(r[g]) : i > Len(q[g]) => i = Len(q[g]) + 1
      BY <1>0, <2>4, <2>5
    <3> QED
      BY <1>0, <2>2, <2>4, <2>5, <3>1
  <2>6. CASE x # g
    BY <1>0, <2>3, <2>6
  <2> QED
    BY <2>5, <2>6
<1> QED
  BY <1>1, <1>2

LEMMA RequestKeeps ==
    ASSUME IInv, IInv', Calm, NEW h \in Hosts, process(h), Head(queue[h]).cmd = "request"
    PROVE  Calm'
<1> DEFINE p == Head(queue[h])
           q == Rest(h)
<1>1. /\ h \in alive /\ queue[h] # <<>> /\ queue' = Reply(h, q, p, routes[h])
      /\ UNCHANGED <<alive, up, supplier, ifnet, ticked, routes>>
  BY DEF process, Rest
<1>2. /\ alive \subseteq Hosts /\ queue[h] \in Seq(Packets) /\ routes \in [Hosts -> [Nets -> Slot]]
      /\ queue' \in [Hosts -> Seq(Packets)]
  BY DEF IInv, Simple, Tables, Sockets, Boxes
<1>3. p = queue[h][1]
  BY <1>1, <1>2
<1>4. p \in Mail(h, ifnet[h]) /\ q \in [Hosts -> Seq(Packets)]
  BY <1>1, HeadRest DEF Boxes
<1>5. p.from[1] \in Hosts
  BY <1>4, Numbers DEF Mail, Packets
<1>6. Shifts(queue, q, h)
  BY <1>1, RestShifts
<1>7. Informed(q, routes, alive, supplier, ticked)
  BY <1>1, <1>3, <1>6, ShiftKeeps
<1> HIDE DEF p, q
<1>8. Delivers(q, queue', h, routes[h])
  BY <1>1, <1>4, <1>5, ReplyDelivers
<1>9. Informed(queue', routes, alive, supplier, ticked)
  BY <1>1, <1>2, <1>4, <1>7, <1>8, Delivered
<1>10. (up = Links /\ Interfaces)'
  BY <1>1 DEF Calm, Interfaces
<1> QED
  BY <1>1, <1>9, <1>10 DEF Calm, Informed

-----------------------------------------------------------------------------
(* The timer goes off.                                                     *)

LEMMA Older ==
    ASSUME NEW s \in Slot, s.rt # NoRoute, s.rt.timer + 1 < Expire, NEW supplies \in BOOLEAN,
           NEW u, u = Aged(s, supplies)
    PROVE  /\ u.rt # NoRoute /\ u.rt.metric = s.rt.metric /\ u.rt.router = s.rt.router
           /\ u.rt.iface = s.rt.iface
           /\ u.rt.timer = s.rt.timer + Round(supplies \/ ~s.rt.iface)
<1> DEFINE t == s.rt.timer + (IF GrowsOld(s.rt, supplies) THEN 1 ELSE 0)
           e == [s.rt EXCEPT !.timer = t]
           r == [s EXCEPT !.rt.timer = t, !.rt.metric = IF t >= Expire THEN Infinity ELSE @]
<1>1. s.rt \in Entry
  BY SlotIs
<1>2. t \in Nat /\ t < Expire /\ t < Garbage
  BY <1>1, XnsAssumption DEF Entry
<1>3. u = r
  BY <1>2, Numbers DEF Aged
<1>4. t = s.rt.timer + Round(supplies \/ ~s.rt.iface)
  BY DEF GrowsOld, Round
<1>5. r = [s EXCEPT !.rt = e]
  <2>0. ~(t >= Expire)
    BY <1>2, Numbers
  <2> HIDE DEF t
  <2> QED
    BY <1>1, <2>0 DEF Slot, Entry
<1> HIDE DEF t
<1>6. /\ e \in [router : Links, metric : 0..Infinity, timer : Nat, iface : BOOLEAN]
      /\ e.timer = t /\ e.metric = s.rt.metric /\ e.router = s.rt.router /\ e.iface = s.rt.iface
  BY <1>1, <1>2 DEF Entry
<1>7. e # NoRoute
  <2>1. e \in [router : Links, metric : Nat, timer : Nat, iface : BOOLEAN]
    BY <1>6, Numbers
  <2> QED
    BY <2>1, NoRouteAssumption
<1> HIDE DEF e
<1>8. r.rt = e
  BY <1>5 DEF Slot
<1> QED
  BY <1>3, <1>4, <1>6, <1>7, <1>8

\* The two tables differ only in timers and in the kernel's routes.
Alike(R, Q) ==
    \A x \in Hosts, n \in Nets :
        /\ Q[x][n].rt = NoRoute <=> R[x][n].rt = NoRoute
        /\ R[x][n].rt # NoRoute =>
              /\ Q[x][n].rt.metric = R[x][n].rt.metric /\ Q[x][n].rt.router = R[x][n].rt.router
              /\ Q[x][n].rt.iface = R[x][n].rt.iface

LEMMA AlikeKeeps ==
    ASSUME NEW q, NEW R, NEW Q, NEW S \in SUBSET Hosts, Alike(R, Q),
           Honest(q, R, S), Routed(q, R, S)
    PROVE  Honest(q, Q, S) /\ Routed(q, Q, S)
<1>1. Honest(q, Q, S)
  <2> SUFFICES ASSUME NEW h \in Hosts, NEW i \in 1..Len(q[h]), q[h][i].cmd = "response"
               PROVE  /\ q[h][i].from[1] \in S
                      /\ \A n \in Nets, k \in 1..Infinity : Tell(q[h][i], n, k) =>
                            /\ Q[q[h][i].from[1]][n].rt # NoRoute
                            /\ Further(Q[q[h][i].from[1]][n].rt.metric) <= k
    BY DEF Honest
  <2> DEFINE g == q[h][i].from[1]
  <2>1. /\ g \in S
        /\ \A n \in Nets, k \in 1..Infinity : Tell(q[h][i], n, k) =>
              R[g][n].rt # NoRoute /\ Further(R[g][n].rt.metric) <= k
    BY DEF Honest
  <2> HIDE DEF g
  <2>2. g \in Hosts
    BY <2>1
  <2>3. \A n \in Nets : R[g][n].rt # NoRoute =>
           Q[g][n].rt # NoRoute /\ Q[g][n].rt.metric = R[g][n].rt.metric
    BY <2>2 DEF Alike
  <2>4. \A n \in Nets, k \in 1..Infinity : Tell(q[h][i], n, k) =>
           Q[g][n].rt # NoRoute /\ Further(Q[g][n].rt.metric) <= k
    BY <2>1, <2>3
  <2> QED
    BY <2>1, <2>4 DEF g
<1>2. Routed(q, Q, S)
  <2> SUFFICES ASSUME NEW h \in S, NEW n \in Nets, Learned(Q[h][n])
               PROVE  /\ Q[h][n].rt.metric < Infinity
                      /\ Q[h][n].rt.router[1] \in S
                      /\ Shorter(Q, Q[h][n].rt.router[1], n, Q[h][n].rt.metric)
                      /\ \A i \in 1..Len(q[h]), k \in 1..Infinity :
                            q[h][i].from = Q[h][n].rt.router /\ Tell(q[h][i], n, k)
                               => k <= Q[h][n].rt.metric
    BY DEF Routed
  <2> DEFINE c == R[h][n].rt.metric
             g == R[h][n].rt.router[1]
  <2>1. /\ Learned(R[h][n]) /\ Q[h][n].rt.metric = c /\ Q[h][n].rt.router = R[h][n].rt.router
    BY DEF Alike, Learned
  <2>2. /\ c < Infinity /\ g \in S /\ Shorter(R, g, n, c)
        /\ \A i \in 1..Len(q[h]), k \in 1..Infinity :
              q[h][i].from = R[h][n].rt.router /\ Tell(q[h][i], n, k) => k <= c
    BY <2>1 DEF Routed
  <2>3. Shorter(Q, g, n, c)
    <3> HIDE DEF g, c
    <3> QED BY <2>2 DEF Shorter, Alike
  <2> QED
    BY <2>1, <2>2, <2>3
<1> QED
  BY <1>1, <1>2

LEMMA FurtherUpTo ==
    ASSUME NEW m \in 0..Infinity, NEW c \in 0..Infinity, m < c
    PROVE  Further(m) \in 1..Infinity /\ Further(m) <= c
<1>1. Infinity \in Nat
  BY Numbers
<1> QED
  BY <1>1 DEF Further

\* Who hears from a host that is nearer will be refreshed.
LEMMA HearsOf ==
    ASSUME NEW t \in [Nets -> Slot], NEW r, NEW x, NEW h, NEW m, Reached(r, x, h, m, t),
           NEW n \in Nets, t[n].rt # NoRoute, NEW c \in 0..Infinity, t[n].rt.metric < c
    PROVE  Underway(r, x, <<h, m>>, n, c)
<1>1. PICK i \in 1..Len(r[x]) : /\ r[x][i].cmd = "response" /\ r[x][i].from = <<h, m>>
                                /\ r[x][i].nets = Supplied(t)
  BY DEF Reached
<1> DEFINE k == Further(t[n].rt.metric)
<1>2. t[n].rt.metric \in 0..Infinity
  BY SlotIs DEF Entry
<1>3. k \in 1..Infinity /\ k <= c
  <2> DEFINE a == t[n].rt.metric
  <2>1. a \in 0..Infinity /\ a < c
    BY <1>2
  <2> HIDE DEF a
  <2>2. Further(a) \in 1..Infinity /\ Further(a) <= c
    BY <2>1, FurtherUpTo
  <2> QED
    BY <2>2 DEF a
<1>4. PICK j \in 1..Len(Supplied(t)) : Supplied(t)[j].net = n /\ Supplied(t)[j].metric = k
  BY SuppliedSays
<1> HIDE DEF k
<1>5. Tell(r[x][i], n, k)
  BY <1>1, <1>4 DEF Tell
<1> QED
  BY <1>1, <1>3, <1>5 DEF Underway

\* A supplier reaches all who run on its networks.
LEMMA SupplierReaches ==
    ASSUME NEW h \in Hosts, NEW q \in [Hosts -> Seq(Packets)], NEW t \in [Nets -> Slot],
           NEW known, known = {n \in Nets : <<h, n>> \in Links}, up = Links,
           NEW n \in Nets, t[n].rt # NoRoute,
           NEW x \in Hosts, x \in alive \cup {h},
           NEW m \in Nets, {<<h, m>>, <<x, m>>} \subseteq Links
    PROVE  Reached(SupplyAll(h, q, known, t, TRUE), x, h, m, t)
<1>1. PICK i \in 1..Len(Supplied(t)) : Supplied(t)[i].net = n
  BY SuppliedSays
<1>2. Supplied(t) # <<>>
  BY <1>1
<1>3. m \in Between(h, x, known)
  BY DEF Between
<1> QED
  BY <1>2, <1>3, SupplyDelivers

\* What timer() does to the table while no interface has failed.
LEMMA TimerTable ==
    ASSUME IInv, Calm, NEW h \in alive \ ticked, Expire >= 5
    PROVE  /\ Known(h) = ifnet[h] /\ AfterTimer(h) \in [Nets -> Slot]
           /\ \A n \in Nets : routes[h][n].rt = NoRoute => AfterTimer(h)[n].rt = NoRoute
           /\ \A n \in Nets : routes[h][n].rt # NoRoute =>
                 /\ AfterTimer(h)[n].rt # NoRoute
                 /\ AfterTimer(h)[n].rt.metric = routes[h][n].rt.metric
                 /\ AfterTimer(h)[n].rt.router = routes[h][n].rt.router
                 /\ AfterTimer(h)[n].rt.iface = routes[h][n].rt.iface
                 /\ AfterTimer(h)[n].rt.timer = routes[h][n].rt.timer
                       + Round(h \in supplier \/ ~routes[h][n].rt.iface)
<1>0. h \in Hosts /\ routes[h] \in [Nets -> Slot] /\ routes[h] \in Table(h, ifnet[h])
         /\ up \subseteq Links
  BY DEF IInv, Simple, Tables
<1>1. Found(h) = {}
  BY DEF Found, Calm, Interfaces
<1>2. Known(h) = ifnet[h]
  BY <1>1 DEF Known
<1>3. ifinit(h, routes[h]) = routes[h]
  BY <1>0, <1>1 DEF ifinit
<1>4. AfterTimer(h) = [n \in Nets |-> Aged(routes[h][n], h \in supplier)]
  BY <1>3 DEF AfterTimer
<1>5. AfterTimer(h) \in [Nets -> Slot]
  BY <1>0, TimerFits DEF After, Table
<1>6. \A n \in Nets : AfterTimer(h)[n] = Aged(routes[h][n], h \in supplier)
  BY <1>4
<1>7. ASSUME NEW n \in Nets, routes[h][n].rt # NoRoute
      PROVE  routes[h][n].rt.timer + 1 < Expire
  <2>1. routes[h][n].rt.timer \in Nat
    BY <1>7, TableIs
  <2>2. CASE <<h, n>> \in Links
    <3>1. routes[h][n].rt.timer <= 1 /\ routes[h][n].rt.timer # 1
      BY <2>2 DEF Calm, Own
    <3> QED
      BY <2>1, <3>1, Numbers
  <2>3. CASE <<h, n>> \notin Links
    <3>1. Learned(routes[h][n])
      BY <1>7, <2>3, TableIs
    <3>2. PICK g, m : Backs(queue, routes, ticked, h, n, g, m)
      BY <3>1 DEF Calm, Backed
    <3>3. routes[h][n].rt.timer <= Middle + 1
      <4>1. Middle \in Nat /\ Round(h \in ticked) = 0
        BY Numbers DEF Middle, Round
      <4>2. \A b : Round(b) \in {0, 1}
        BY DEF Round
      <4> QED
        BY <2>1, <3>2, <4>1, <4>2 DEF Backs
    <3>4. Middle + 2 < Expire
      BY Numbers DEF Middle
    <3>5. Middle \in Nat
      BY Numbers DEF Middle
    <3> QED
      BY <2>1, <3>3, <3>4, <3>5, Numbers
  <2> QED
    BY <2>2, <2>3
<1>8. ASSUME NEW n \in Nets, routes[h][n].rt = NoRoute
      PROVE  AfterTimer(h)[n].rt = NoRoute
  BY <1>6, <1>8 DEF Aged
<1>9. ASSUME NEW n \in Nets, routes[h][n].rt # NoRoute
      PROVE  /\ AfterTimer(h)[n].rt # NoRoute
             /\ AfterTimer(h)[n].rt.metric = routes[h][n].rt.metric
             /\ AfterTimer(h)[n].rt.router = routes[h][n].rt.router
             /\ AfterTimer(h)[n].rt.iface = routes[h][n].rt.iface
             /\ AfterTimer(h)[n].rt.timer = routes[h][n].rt.timer
                   + Round(h \in supplier \/ ~routes[h][n].rt.iface)
  <2> DEFINE b == h \in supplier
             s == routes[h][n]
             u == AfterTimer(h)[n]
  <2>1. s \in Slot /\ s.rt # NoRoute /\ s.rt.timer + 1 < Expire /\ b \in BOOLEAN /\ u = Aged(s, b)
    BY <1>0, <1>6, <1>7, <1>9
  <2> HIDE DEF b, s, u
  <2>2. /\ u.rt # NoRoute /\ u.rt.metric = s.rt.metric /\ u.rt.router = s.rt.router
        /\ u.rt.iface = s.rt.iface
        /\ u.rt.timer = s.rt.timer + Round(b \/ ~s.rt.iface)
    BY <2>1, Older
  <2> QED
    BY <2>2 DEF b, s, u
<1> QED
  BY <1>2, <1>5, <1>8, <1>9

LEMMA TimerKeeps ==
    ASSUME IInv, IInv', Calm, NEW h \in Hosts, timer(h), Expire >= 5
    PROVE  Calm'
<1> DEFINE t == AfterTimer(h)
<1>1. /\ h \in alive \ ticked /\ ifnet' = [ifnet EXCEPT ![h] = Known(h)]
      /\ routes' = [routes EXCEPT ![h] = t]
      /\ queue' = SupplyAll(h, queue, Known(h), t, h \in supplier)
      /\ ticked' = ticked \cup {h} /\ UNCHANGED <<alive, up, supplier>>
  BY DEF timer
<1>2. /\ Known(h) = ifnet[h] /\ t \in [Nets -> Slot]
      /\ \A n \in Nets : routes[h][n].rt = NoRoute => t[n].rt = NoRoute
      /\ \A n \in Nets : routes[h][n].rt # NoRoute =>
            /\ t[n].rt # NoRoute /\ t[n].rt.metric = routes[h][n].rt.metric
            /\ t[n].rt.router = routes[h][n].rt.router /\ t[n].rt.iface = routes[h][n].rt.iface
            /\ t[n].rt.timer = routes[h][n].rt.timer
                  + Round(h \in supplier \/ ~routes[h][n].rt.iface)
  BY <1>1, TimerTable
<1> HIDE DEF t
<1>3. /\ alive \subseteq Hosts /\ ifnet \in [Hosts -> SUBSET Nets]
      /\ routes \in [Hosts -> [Nets -> Slot]]
      /\ queue \in [Hosts -> Seq(Packets)] /\ queue' \in [Hosts -> Seq(Packets)]
      /\ routes' \in [Hosts -> [Nets -> Slot]]
  BY DEF IInv, Simple, Tables, Sockets, Boxes
<1>4. routes'[h] = t /\ (\A x \in Hosts : x # h => routes'[x] = routes[x]) /\ ifnet' = ifnet
  BY <1>1, <1>2, <1>3
<1>5. Alike(routes, routes')
  BY <1>2, <1>4 DEF Alike
<1>6. Honest(queue, routes', alive) /\ Routed(queue, routes', alive)
  BY <1>3, <1>5, AlikeKeeps DEF Calm
<1>7. Delivers(queue, queue', h, routes'[h])
  BY <1>1, <1>3, <1>4, SupplyDelivers
<1>8. Honest(queue', routes', alive) /\ NoWorse(queue') /\ Routed(queue', routes', alive)
  <2>1. NoWorse(queue) /\ h \in alive /\ alive \in SUBSET Hosts
    BY <1>1, <1>3 DEF Calm
  <2> QED
    BY <1>3, <1>6, <1>7, <2>1, DeliverKeeps
<1>9. (up = Links /\ Interfaces)'
  BY <1>1, <1>4 DEF Calm, Interfaces
<1>10. /\ \A x \in Hosts : \A n : Echoed(queue, x, n) => Echoed(queue', x, n)
       /\ \A x \in Hosts : \A from, n, k :
             Underway(queue, x, from, n, k) => Underway(queue', x, from, n, k)
  <2>1. \A x \in Hosts : \A i \in 1..Len(queue[x]) : i \in 1..Len(queue'[x])
                                                       /\ queue'[x][i] = queue[x][i]
    <3>1. \A x \in Hosts : Len(queue[x]) \in Nat /\ Len(queue'[x]) \in Nat
      BY <1>3
    <3> QED
      BY <1>7, <3>1 DEF Delivers, Extends
  <2> QED
    BY <2>1 DEF Echoed, Underway
<1>11. ASSUME h \in supplier, NEW n \in Nets, routes'[h][n].rt # NoRoute, NEW x \in alive,
              NEW m \in Nets, {<<h, m>>, <<x, m>>} \subseteq Links
       PROVE  Reached(queue', x, h, m, t)
  <2>1. queue' = SupplyAll(h, queue, ifnet[h], t, TRUE)
    BY <1>1, <1>2, <1>11 DEF SupplyAll
  <2>2. ifnet[h] = {a \in Nets : <<h, a>> \in Links} /\ up = Links /\ x \in Hosts
    BY <1>1, <1>3 DEF Calm, Interfaces
  <2> QED
    BY <1>2, <1>3, <1>4, <1>11, <2>1, <2>2, SupplierReaches
<1>12. Backed(queue', routes', alive, supplier, ticked')
  <2> SUFFICES ASSUME NEW x \in alive, NEW n \in Nets, Learned(routes'[x][n])
               PROVE  \E g \in alive \cap supplier, m \in Nets :
                         Backs(queue', routes', ticked', x, n, g, m)
    BY DEF Backed
  <2> DEFINE c == routes[x][n].rt.metric
             o == routes[x][n].rt.timer
  <2>1. Learned(routes[x][n]) /\ routes'[x][n].rt.metric = c
    BY <1>3, <1>5 DEF Alike, Learned
  <2>2. c \in 0..Infinity /\ o \in Nat
    BY <2>1, TableIs DEF Learned
  <2>3. PICK g \in alive \cap supplier, m \in Nets : Backs(queue, routes, ticked, x, n, g, m)
    BY <2>1 DEF Calm, Backed
  <2> DEFINE U(q) == Underway(q, x, <<g, m>>, n, c)
             P(q, T) == g \notin T \/ U(q)
  <2>4. /\ {<<x, m>>, <<g, m>>} \subseteq Links /\ Shorter(routes, g, n, c)
        /\ o <= Middle + Round(x \in ticked) + Round(P(queue, ticked))
    BY <2>3 DEF Backs
  <2>5. Shorter(routes', g, n, c)
    BY <1>3, <1>5, <2>4 DEF Shorter, Alike
  <2>6. U(queue) => U(queue')
    BY <1>3, <1>10
  <2>7. Middle \in Nat
    BY Numbers DEF Middle
  <2>8. routes'[x][n].rt.timer <= Middle + Round(x \in ticked') + Round(P(queue', ticked'))
    <3>1. CASE x = h
      <4>1. g # h
        BY <2>2, <2>4, <3>1 DEF Shorter
      <4>2. P(queue, ticked) => P(queue', ticked')
        BY <1>1, <2>6, <4>1
      <4>3. routes'[x][n].rt.timer = o + Round(h \in supplier \/ ~routes[h][n].rt.iface)
        BY <1>2, <1>4, <2>1, <3>1 DEF Learned
      <4>4. Round(x \in ticked) = 0 /\ Round(x \in ticked') = 1
               /\ Round(h \in supplier \/ ~routes[h][n].rt.iface) = 1
        BY <1>1, <2>1, <3>1 DEF Round, Learned
      <4> HIDE DEF P, c, o
      <4>5. Round(P(queue, ticked)) <= Round(P(queue', ticked'))
               /\ Round(P(queue, ticked)) \in Nat /\ Round(P(queue', ticked')) \in Nat
        BY <4>2 DEF Round
      <4> QED
        BY <2>2, <2>4, <2>7, <4>3, <4>4, <4>5
    <3>2. CASE x # h
      <4>1. routes'[x][n].rt.timer = o /\ Round(x \in ticked') = Round(x \in ticked)
        BY <1>1, <1>3, <1>4, <3>2 DEF Round
      <4>2. P(queue, ticked) => P(queue', ticked')
        <5>1. CASE g # h
          BY <1>1, <2>6, <5>1
        <5>2. CASE g = h
          <6>1. routes'[h][n].rt # NoRoute /\ t[n].rt.metric < c
            BY <1>4, <2>5, <5>2 DEF Shorter
          <6>2. Reached(queue', x, h, m, t)
            BY <1>11, <2>3, <2>4, <5>2, <6>1
          <6>3. t[n].rt # NoRoute
            BY <1>4, <6>1
          <6> HIDE DEF c
          <6>4. Underway(queue', x, <<h, m>>, n, c)
            BY <1>2, <2>2, <6>1, <6>2, <6>3, HearsOf
          <6> QED
            BY <5>2, <6>4
        <5> QED
          BY <5>1, <5>2
      <4> HIDE DEF P, o
      <4>3. Round(P(queue, ticked)) <= Round(P(queue', ticked'))
               /\ Round(P(queue, ticked)) \in Nat /\ Round(P(queue', ticked')) \in Nat
               /\ Round(x \in ticked) \in Nat
        BY <4>2 DEF Round
      <4> QED
        BY <2>2, <2>4, <2>7, <4>1, <4>3
    <3> QED
      BY <3>1, <3>2
  <2>9. Backs(queue', routes', ticked', x, n, g, m)
    BY <2>1, <2>4, <2>5, <2>8 DEF Backs
  <2> QED
    BY <2>3, <2>9
<1>13. Own(queue', routes', alive, ticked')
  <2> SUFFICES ASSUME NEW x \in alive, NEW n \in Nets, <<x, n>> \in Links
               PROVE  /\ routes'[x][n].rt # NoRoute /\ routes'[x][n].rt.iface
                      /\ routes'[x][n].rt.metric = 0 /\ routes'[x][n].rt.timer <= 1
                      /\ routes'[x][n].rt.timer = 1 => x \in ticked' /\ Echoed(queue', x, n)
    BY DEF Own
  <2>1. /\ routes[x][n].rt # NoRoute /\ routes[x][n].rt.iface
        /\ routes[x][n].rt.metric = 0 /\ routes[x][n].rt.timer <= 1
        /\ routes[x][n].rt.timer \in Nat
        /\ routes[x][n].rt.timer = 1 => x \in ticked /\ Echoed(queue, x, n)
    BY TableIs DEF Calm, Own
  <2>2. routes'[x][n].rt # NoRoute /\ routes'[x][n].rt.iface /\ routes'[x][n].rt.metric = 0
    BY <1>3, <1>5, <2>1 DEF Alike
  <2>3. CASE x # h
    <3>1. routes'[x] = routes[x]
      BY <1>3, <1>4, <2>3
    <3> QED
      BY <1>1, <1>3, <1>10, <2>1, <2>2, <3>1
  <2>4. CASE x = h
    <3>1. routes[h][n].rt.timer = 0
      BY <1>1, <2>1, <2>4
    <3>2. routes'[h][n].rt.timer = Round(h \in supplier \/ ~routes[h][n].rt.iface)
      <4>1. Round(h \in supplier \/ ~routes[h][n].rt.iface) \in Nat
        BY DEF Round
      <4>2. routes'[h][n].rt.timer
              = routes[h][n].rt.timer + Round(h \in supplier \/ ~routes[h][n].rt.iface)
        BY <1>2, <1>4, <2>1, <2>4
      <4> QED
        BY <3>1, <4>1, <4>2
    <3>3. routes'[h][n].rt.timer \in {0, 1} /\ (routes'[h][n].rt.timer = 1 => h \in supplier)
      BY <2>1, <2>4, <3>2 DEF Round
    <3>4. ASSUME h \in supplier
          PROVE  Echoed(queue', h, n)
      <4>1. Reached(queue', h, h, n, t)
        BY <1>11, <2>2, <2>4, <3>4
      <4> QED
        BY <4>1 DEF Reached, Echoed
    <3> QED
      BY <1>1, <2>2, <2>4, <3>3, <3>4
  <2> QED
    BY <2>3, <2>4
<1> QED
  BY <1>1, <1>8, <1>9, <1>12, <1>13 DEF Calm

-----------------------------------------------------------------------------
(* A daemon starts.                                                        *)

LEMMA OneOnly ==
    ASSUME NEW A \in SUBSET Nets, ~(Cardinality(A) > 1)
    PROVE  \A m, n \in A : m = n
<1> SUFFICES ASSUME NEW m \in A, NEW n \in A, m # n PROVE FALSE
  OBVIOUS
<1>1. IsFiniteSet(Nets)
  <2>1. 1 \in Int /\ NumNets \in Int
    BY Numbers
  <2>2. IsFiniteSet(1..NumNets)
    BY <2>1, FS_Interval
  <2> QED
    BY <2>2 DEF Nets
<1>2. IsFiniteSet(A) /\ Cardinality(A) \in Nat
  BY <1>1, FS_Subset, FS_CardinalityType
<1>3. IsFiniteSet({m}) /\ Cardinality({m}) = 1
  BY FS_Singleton
<1>4. Cardinality({m} \cup {n}) = 2
  <2>1. n \notin {m}
    OBVIOUS
  <2>2. Cardinality({m} \cup {n}) = Cardinality({m}) + 1
    BY <1>3, <2>1, FS_AddElement
  <2> QED
    BY <1>3, <2>2
<1>5. Cardinality({m} \cup {n}) <= Cardinality(A)
  BY <1>2, FS_Subset
<1> QED
  BY <1>2, <1>4, <1>5

\* The table of a host that starts.
Starting(h, found, supplies) ==
    [n \in Nets |-> IF n \in found
                    THEN Aged(addrouteforif(h, n, Cleared(routes[h])[n]), supplies)
                    ELSE Cleared(routes[h])[n]]

LEMMA StartTable ==
    ASSUME IInv, Calm, NEW h \in Hosts, NEW found, found = {n \in Nets : <<h, n>> \in Links},
           NEW supplies \in BOOLEAN, NEW slots, slots = Starting(h, found, supplies),
           Expire >= 5, NEW n \in Nets
    PROVE  /\ <<h, n>> \notin Links => slots[n].rt = NoRoute
           /\ <<h, n>> \in Links => /\ slots[n].rt # NoRoute /\ slots[n].rt.iface
                                    /\ slots[n].rt.metric = 0
                                    /\ slots[n].rt.timer = Round(supplies)
<1> DEFINE s == Cleared(routes[h])[n]
           a == rtadd(s, <<h, n>>, 0, TRUE)
<1>1. s \in Slot /\ s.rt = NoRoute
  <2>1. routes[h] \in [Nets -> Slot]
    BY DEF IInv, Tables
  <2>2. routes[h][n] \in Slot
    BY <2>1
  <2> QED
    BY <2>2 DEF Cleared, Slot
<1>2. CASE <<h, n>> \notin Links
  BY <1>1, <1>2 DEF Starting
<1>3. CASE <<h, n>> \in Links
  <2>1. slots[n] = Aged(addrouteforif(h, n, s), supplies)
    BY <1>3 DEF Starting
  <2> HIDE DEF s
  <2>2. addrouteforif(h, n, s) = a
    BY <1>1 DEF addrouteforif
  <2>3. /\ a \in Slot /\ a.rt # NoRoute /\ a.rt.metric = 0 /\ a.rt.iface = TRUE
        /\ a.rt.timer = 0
    <3>1. 0 \in 0..Infinity /\ TRUE \in BOOLEAN
      BY Numbers
    <3>2. \A b \in BOOLEAN : LET c == rtadd(s, <<h, n>>, 0, b)
                             IN  c \in Slot /\ c.rt # NoRoute /\ c.rt.metric = 0
                                 /\ c.rt.iface = b /\ c.rt.timer = 0
      BY <1>1, <1>3, <3>1, AddIs, AddTimer
    <3> QED
      BY <3>1, <3>2, Zenon
  <2> HIDE DEF a
  <2>4. a.rt.timer + 1 < Expire
    BY <2>3, Numbers
  <2>5. /\ slots[n].rt # NoRoute /\ slots[n].rt.metric = a.rt.metric
        /\ slots[n].rt.iface = a.rt.iface
        /\ slots[n].rt.timer = a.rt.timer + Round(supplies \/ ~a.rt.iface)
    BY <2>1, <2>2, <2>3, <2>4, Older
  <2>6. slots[n].rt.timer = Round(supplies)
    BY <2>3, <2>5 DEF Round
  <2> QED
    BY <1>3, <2>3, <2>5, <2>6
<1> QED
  BY <1>2, <1>3

\* The others do not depend on a host that is only starting.
LEMMA StartApart ==
    ASSUME IInv, Calm, NEW h \in Hosts, h \notin alive, NEW R,
           \A x \in Hosts : x # h => R[x] = routes[x],
           \A n \in Nets : ~Learned(R[h][n]),
           NEW P, supplier \ {h} \subseteq P
    PROVE  /\ Honest(queue, R, alive \cup {h}) /\ Routed(queue, R, alive \cup {h})
           /\ Backed(queue, R, alive \cup {h}, P, ticked \cup {h})
<1>0. alive \subseteq Hosts /\ \A x \in alive : x # h /\ R[x] = routes[x]
  BY DEF IInv, Simple
<1>1. Honest(queue, R, alive \cup {h})
  <2> SUFFICES ASSUME NEW x \in Hosts, NEW i \in 1..Len(queue[x]), queue[x][i].cmd = "response"
               PROVE  /\ queue[x][i].from[1] \in alive
                      /\ \A n \in Nets, k \in 1..Infinity : Tell(queue[x][i], n, k) =>
                            /\ R[queue[x][i].from[1]][n].rt # NoRoute
                            /\ Further(R[queue[x][i].from[1]][n].rt.metric) <= k
    BY DEF Honest
  <2> QED
    BY <1>0 DEF Calm, Honest
<1>2. Routed(queue, R, alive \cup {h})
  <2> SUFFICES ASSUME NEW x \in alive, NEW n \in Nets, Learned(R[x][n])
               PROVE  /\ R[x][n].rt.metric < Infinity
                      /\ R[x][n].rt.router[1] \in alive
                      /\ Shorter(R, R[x][n].rt.router[1], n, R[x][n].rt.metric)
                      /\ \A i \in 1..Len(queue[x]), k \in 1..Infinity :
                            queue[x][i].from = R[x][n].rt.router /\ Tell(queue[x][i], n, k)
                               => k <= R[x][n].rt.metric
    BY DEF Routed
  <2>1. R[x] = routes[x]
    BY <1>0
  <2> DEFINE g == routes[x][n].rt.router[1]
             c == routes[x][n].rt.metric
  <2>2. /\ c < Infinity /\ g \in alive /\ Shorter(routes, g, n, c)
        /\ \A i \in 1..Len(queue[x]), k \in 1..Infinity :
              queue[x][i].from = routes[x][n].rt.router /\ Tell(queue[x][i], n, k) => k <= c
    BY <2>1 DEF Calm, Routed
  <2>3. Shorter(R, g, n, c)
    <3> HIDE DEF g, c
    <3> QED BY <1>0, <2>2 DEF Shorter
  <2> QED
    BY <2>1, <2>2, <2>3
<1>3. Backed(queue, R, alive \cup {h}, P, ticked \cup {h})
  <2> SUFFICES ASSUME NEW x \in alive, NEW n \in Nets, Learned(R[x][n])
               PROVE  \E g \in (alive \cup {h}) \cap P, m \in Nets :
                         Backs(queue, R, ticked \cup {h}, x, n, g, m)
    BY DEF Backed
  <2>1. R[x] = routes[x] /\ x # h
    BY <1>0
  <2>2. PICK g \in alive \cap supplier, m \in Nets : Backs(queue, routes, ticked, x, n, g, m)
    BY <2>1 DEF Calm, Backed
  <2>3. g # h /\ R[g] = routes[g] /\ g \in P
    BY <1>0, <2>2
  <2>4. (x \in ticked \cup {h} <=> x \in ticked) /\ (g \notin ticked \cup {h} <=> g \notin ticked)
    BY <2>1, <2>3
  <2>5. Backs(queue, R, ticked \cup {h}, x, n, g, m)
    <3> DEFINE U == Underway(queue, x, <<g, m>>, n, R[x][n].rt.metric)
    <3>1. /\ {<<x, m>>, <<g, m>>} \subseteq Links /\ Shorter(R, g, n, R[x][n].rt.metric)
          /\ R[x][n].rt.timer <= Middle + Round(x \in ticked) + Round(g \notin ticked \/ U)
      BY <2>1, <2>2, <2>3 DEF Backs, Shorter
    <3> HIDE DEF U
    <3>2. R[x][n].rt.timer <= Middle + Round(x \in ticked \cup {h})
             + Round(g \notin ticked \cup {h} \/ U)
      BY <2>4, <3>1 DEF Round
    <3> QED
      BY <3>1, <3>2 DEF Backs, U
  <2> QED
    BY <2>2, <2>3, <2>5
<1> QED
  BY <1>1, <1>2, <1>3

LEMMA StartKeeps ==
    ASSUME IInv, IInv', Calm, NEW h \in Hosts, Start(h), Expire >= 5
    PROVE  Calm'
<1> DEFINE found == {n \in Nets : <<h, n>> \in Links}
           supplies == Cardinality(found) > 1
           slots == Starting(h, found, supplies)
           asked == Toall(h, queue, found, "request", Asked)
<1>0. up = Links /\ Interfaces
  BY DEF Calm
<1>1. /\ h \notin alive /\ alive' = alive \cup {h}
      /\ ifnet' = [ifnet EXCEPT ![h] = found] /\ routes' = [routes EXCEPT ![h] = slots]
      /\ queue' = SupplyAll(h, asked, found, slots, supplies)
      /\ supplier' = IF supplies THEN supplier \cup {h} ELSE supplier \ {h}
      /\ ticked' = ticked \cup {h} /\ up' = up
  BY <1>0 DEF Start, Asked, Cleared, Starting
<1>2. /\ alive \subseteq Hosts /\ ifnet \in [Hosts -> SUBSET Nets]
      /\ routes \in [Hosts -> [Nets -> Slot]]
      /\ queue \in [Hosts -> Seq(Packets)] /\ queue' \in [Hosts -> Seq(Packets)]
      /\ routes' \in [Hosts -> [Nets -> Slot]] /\ alive' \in SUBSET Hosts
  BY DEF IInv, Simple, Tables, Sockets, Boxes
<1>3. \A n \in Nets :
         /\ <<h, n>> \notin Links => slots[n].rt = NoRoute
         /\ <<h, n>> \in Links => /\ slots[n].rt # NoRoute /\ slots[n].rt.iface
                                  /\ slots[n].rt.metric = 0 /\ slots[n].rt.timer = Round(supplies)
  <2>1. PICK f : f = found
    OBVIOUS
  <2>2. supplies \in BOOLEAN
    OBVIOUS
  <2>3. f = {n \in Nets : <<h, n>> \in Links}
    BY <2>1
  <2> HIDE DEF found, supplies
  <2>4. slots = Starting(h, f, supplies)
    BY <2>1
  <2> HIDE DEF slots
  <2> QED
    BY <2>2, <2>3, <2>4, StartTable
<1>4. found \subseteq Nets /\ \A n \in Nets : n \in found <=> <<h, n>> \in Links
  OBVIOUS
<1> HIDE DEF slots, supplies, asked
<1>5. /\ routes'[h] = slots /\ (\A x \in Hosts : x # h => routes'[x] = routes[x])
      /\ ifnet'[h] = found /\ (\A x \in Hosts : x # h => ifnet'[x] = ifnet[x])
  <2> HIDE DEF found
  <2> QED BY <1>1, <1>2
<1>6. (up = Links /\ Interfaces)'
  <2>1. ~supplies => \A m, n \in found : m = n
    <3> HIDE DEF found
    <3> QED BY <1>4, OneOnly DEF supplies
  <2> SUFFICES ASSUME NEW x \in alive \cup {h}
               PROVE  /\ ifnet'[x] = {n \in Nets : <<x, n>> \in Links}
                      /\ x \notin supplier' => \A m, n \in ifnet'[x] : m = n
    BY <1>0, <1>1 DEF Interfaces
  <2>2. CASE x = h
    <3>1. x \notin supplier' => ~supplies
      BY <1>1, <2>2
    <3> QED
      BY <1>5, <2>1, <2>2, <3>1
  <2>3. CASE x # h
    <3>1. x \in alive /\ ifnet'[x] = ifnet[x] /\ (x \notin supplier' => x \notin supplier)
      BY <1>1, <1>2, <1>5, <2>3
    <3> QED
      BY <1>0, <3>1 DEF Interfaces
  <2> QED
    BY <2>2, <2>3
<1>7. \A n \in Nets : ~Learned(routes'[h][n])
  BY <1>3, <1>5 DEF Learned
<1>8. /\ Honest(queue, routes', alive') /\ Routed(queue, routes', alive')
      /\ Backed(queue, routes', alive', supplier', ticked')
  <2>1. supplier \ {h} \subseteq supplier'
    BY <1>1
  <2>2. h \notin alive /\ alive' = alive \cup {h} /\ ticked' = ticked \cup {h}
    BY <1>1
  <2>3. /\ Honest(queue, routes', alive \cup {h}) /\ Routed(queue, routes', alive \cup {h})
        /\ Backed(queue, routes', alive \cup {h}, supplier', ticked \cup {h})
    BY <1>5, <1>7, <2>1, <2>2, StartApart
  <2> QED
    BY <2>2, <2>3
\* The request tells nothing.
<1>9. asked \in [Hosts -> Seq(Packets)]
  <2> DEFINE K == ifnet'
  <2>1. K[h] = found /\ \A g \in Hosts : g # h => K[g] = ifnet[g]
    BY <1>5
  <2>2. \A g \in Hosts : queue[g] \in Seq(Mail(g, ifnet[g]))
    BY DEF IInv, Sockets, Boxes
  <2>3. queue[h] = <<>>
    BY <1>1 DEF IInv, Sockets
  <2> HIDE DEF K, found
  <2>4. \A g \in Hosts : queue[g] \in Seq(Mail(g, K[g]))
    BY <2>1, <2>2, <2>3, EmptySeq
  <2>5. queue \in Boxes(K)
    BY <1>2, <2>4 DEF Boxes
  <2>6. Text(h, "request", Asked) /\ up \subseteq Links
    BY <1>0 DEF Text
  <2>7. asked = Toall(h, queue, K[h], "request", Asked) /\ K[h] \subseteq Nets
    BY <1>4, <2>1 DEF asked
  <2>8. asked \in Boxes(K)
    BY <2>5, <2>6, <2>7, ToallIs
  <2> QED
    BY <2>8 DEF Boxes
<1> HIDE DEF found
<1>10. Delivers(queue, asked, h, slots)
  <2>1. Broadcast(queue, asked, h, found, "request", Asked)
    BY <1>2, ToallExtends DEF asked
  <2> QED
    BY <2>1 DEF Broadcast, Delivers
<1>11. Delivers(asked, queue', h, slots)
  BY <1>1, <1>9, SupplyDelivers
<1>12. /\ Honest(asked, routes', alive') /\ NoWorse(asked) /\ Routed(asked, routes', alive')
  <2>1. NoWorse(queue) /\ h \in alive' /\ Delivers(queue, asked, h, routes'[h])
    BY <1>1, <1>5, <1>10 DEF Calm
  <2> QED
    BY <1>2, <1>8, <1>9, <2>1, DeliverKeeps
<1>13. Honest(queue', routes', alive') /\ NoWorse(queue') /\ Routed(queue', routes', alive')
  <2>1. h \in alive' /\ Delivers(asked, queue', h, routes'[h])
    BY <1>1, <1>5, <1>11
  <2> QED
    BY <1>2, <1>9, <1>12, <2>1, DeliverKeeps
<1>14. Extends(queue, queue')
  <2>1. Extends(queue, asked) /\ Extends(asked, queue')
    BY <1>10, <1>11 DEF Delivers
  <2>2. \A x \in Hosts : Len(queue[x]) \in Nat /\ Len(asked[x]) \in Nat /\ Len(queue'[x]) \in Nat
    BY <1>2, <1>9
  <2> QED
    BY <2>1, <2>2 DEF Extends
<1>15. /\ \A x \in Hosts : \A n : Echoed(queue, x, n) => Echoed(queue', x, n)
       /\ \A x \in Hosts, n \in Nets : \A g, m :
             Learned(routes'[x][n]) /\ Backs(queue, routes', ticked', x, n, g, m)
                => Backs(queue', routes', ticked', x, n, g, m)
  BY <1>2, <1>14, ExtendsKeeps
<1>16. Backed(queue', routes', alive', supplier', ticked')
  BY <1>2, <1>8, <1>15 DEF Backed
<1>17. Own(queue', routes', alive', ticked')
  <2> SUFFICES ASSUME NEW x \in alive \cup {h}, NEW n \in Nets, <<x, n>> \in Links
               PROVE  /\ routes'[x][n].rt # NoRoute /\ routes'[x][n].rt.iface
                      /\ routes'[x][n].rt.metric = 0 /\ routes'[x][n].rt.timer <= 1
                      /\ routes'[x][n].rt.timer = 1 => x \in ticked' /\ Echoed(queue', x, n)
    BY <1>1 DEF Own
  <2>1. CASE x # h
    <3>1. x \in alive /\ x \in Hosts /\ routes'[x] = routes[x] /\ ticked \subseteq ticked'
      BY <1>1, <1>2, <1>5, <2>1
    <3> QED
      BY <1>15, <3>1 DEF Calm, Own
  <2>2. CASE x = h
    <3>1. /\ slots[n].rt # NoRoute /\ slots[n].rt.iface
          /\ slots[n].rt.metric = 0 /\ slots[n].rt.timer = Round(supplies)
      BY <1>3, <2>2
    <3>2. slots[n].rt.timer <= 1 /\ (slots[n].rt.timer = 1 => supplies)
      BY <3>1 DEF Round
    <3>3. ASSUME supplies
          PROVE  Echoed(queue', h, n)
      <4>1. queue' = SupplyAll(h, asked, found, slots, TRUE)
        BY <1>1, <3>3 DEF SupplyAll
      <4>2. found = {m \in Nets : <<h, m>> \in Links} /\ slots \in [Nets -> Slot]
               /\ {<<h, n>>, <<h, n>>} \subseteq Links /\ h \in alive \cup {h}
        BY <1>2, <1>5, <2>2 DEF found
      <4>3. Reached(queue', h, h, n, slots)
        BY <1>0, <1>9, <3>1, <4>1, <4>2, SupplierReaches
      <4> QED
        BY <4>3 DEF Reached, Echoed
    <3> QED
      BY <1>1, <1>5, <2>2, <3>1, <3>2, <3>3
  <2> QED
    BY <2>1, <2>2
<1> QED
  BY <1>6, <1>13, <1>16, <1>17 DEF Calm

-----------------------------------------------------------------------------
(* The theorem.                                                            *)

\* In the next round every supplier sends again.
LEMMA RoundKeeps ==
    ASSUME IInv, Calm, NextRound
    PROVE  Calm'
<1>1. /\ alive \subseteq ticked /\ (\A h \in Hosts : queue[h] = <<>>) /\ ticked' = {}
      /\ UNCHANGED <<alive, up, supplier, ifnet, routes, queue>>
  BY DEF NextRound
<1>2. alive \subseteq Hosts
  BY DEF IInv, Simple
<1>3. \A h \in Hosts : Len(queue[h]) = 0
  BY <1>1
<1>4. Backed(queue, routes, alive, supplier, {})
  <2> SUFFICES ASSUME NEW h \in alive, NEW n \in Nets, Learned(routes[h][n]),
                      NEW g \in alive \cap supplier, NEW m \in Nets,
                      Backs(queue, routes, ticked, h, n, g, m)
               PROVE  Backs(queue, routes, {}, h, n, g, m)
    BY DEF Calm, Backed
  <2> DEFINE U == Underway(queue, h, <<g, m>>, n, routes[h][n].rt.metric)
             t == routes[h][n].rt.timer
  <2>1. ~U
    BY <1>2, <1>3 DEF Underway
  <2>2. g \in ticked /\ h \in ticked
    BY <1>1
  <2>3. t <= Middle + Round(h \in ticked) + Round(g \notin ticked \/ U)
    BY DEF Backs
  <2>4. t <= Middle + Round(h \in {}) + Round(g \notin {} \/ U)
    <3> HIDE DEF t, U
    <3>1. /\ Round(h \in ticked) = 1 /\ Round(g \notin ticked \/ U) = 0
          /\ Round(h \in {}) = 0 /\ Round(g \notin {} \/ U) = 1
      BY <2>1, <2>2 DEF Round
    <3>2. Middle \in Nat
      BY Numbers DEF Middle
    <3> QED
      BY <2>3, <3>1, <3>2
  <2> QED
    BY <2>4 DEF Backs
<1>5. Own(queue, routes, alive, {})
  <2> SUFFICES ASSUME NEW h \in alive, NEW n \in Nets, <<h, n>> \in Links,
                      routes[h][n].rt.timer = 1
               PROVE  FALSE
    BY DEF Calm, Own
  <2>1. Echoed(queue, h, n)
    BY DEF Calm, Own
  <2> QED
    BY <1>2, <1>3, <2>1 DEF Echoed
<1>6. (up = Links /\ Interfaces)'
  BY <1>1 DEF Calm, Interfaces
<1> QED
  BY <1>1, <1>4, <1>5, <1>6 DEF Calm

LEMMA InitCalm == Init => Calm
<1> SUFFICES ASSUME Init PROVE Calm
  OBVIOUS
<1>1. alive = {} /\ up = Links /\ \A h \in Hosts : Len(queue[h]) = 0
  BY DEF Init
<1>2. Interfaces /\ Routed(queue, routes, alive) /\ Own(queue, routes, alive, ticked)
         /\ Backed(queue, routes, alive, supplier, ticked)
  BY <1>1 DEF Interfaces, Routed, Own, Backed
<1>3. Honest(queue, routes, alive) /\ NoWorse(queue)
  BY <1>1 DEF Honest, NoWorse
<1> QED
  BY <1>1, <1>2, <1>3 DEF Calm

LEMMA CalmStep ==
    ASSUME IInv, IInv', faults = 0 => Calm, [Next]_vars, Expire >= 5
    PROVE  (faults = 0 => Calm)'
<1>1. faults \in Nat
  BY XnsAssumption DEF IInv, Simple
<1> SUFFICES ASSUME faults' = 0 PROVE Calm'
  OBVIOUS
<1>2. ~Fault
  BY <1>1 DEF Fault
<1>3. ASSUME faults = 0, NEW h \in Hosts, process(h) PROVE Calm'
  <2>1. Calm
    BY <1>3
  <2> DEFINE p == Head(queue[h])
  <2>2. CASE p.cmd = "request"
    BY <1>3, <2>1, <2>2, RequestKeeps
  <2>3. CASE p.cmd = "response"
    BY <1>3, <2>1, <2>3, ProcessReads, ReadKeeps
  <2> QED
    BY <1>3, <2>2, <2>3 DEF process
<1>4. ASSUME faults = 0, NEW h \in Hosts, timer(h) PROVE Calm'
  BY <1>4, TimerKeeps
<1>5. ASSUME faults = 0, NEW h \in Hosts, Start(h) PROVE Calm'
  BY <1>5, StartKeeps
<1>6. ASSUME faults = 0, NextRound PROVE Calm'
  BY <1>6, RoundKeeps
<1>7. ASSUME faults = 0, NEW l \in Links, Up(l) PROVE Calm'
  BY <1>7 DEF Up, Calm
<1>8. ASSUME UNCHANGED vars PROVE Calm'
  <2>1. Calm /\ UNCHANGED <<alive, up, supplier, ifnet, routes, queue, ticked>>
    BY <1>8 DEF vars
  <2> QED
    BY <2>1 DEF Calm, Interfaces
<1>9. \A h \in Hosts : ~hup(h) /\ ~Crash(h) /\ ~Interrupted(h) /\ ~LosePacket(h)
  BY <1>2 DEF hup, Crash, Interrupted, LosePacket
<1>10. \A l \in Links : ~Down(l)
  BY <1>2 DEF Down
<1>11. CASE faults = 0
  BY <1>3, <1>4, <1>5, <1>6, <1>7, <1>8, <1>9, <1>10, <1>11 DEF Next, Run
<1>12. CASE faults # 0
  <2>1. \A h \in Hosts : ~process(h) /\ ~timer(h) /\ ~Start(h)
    BY <1>12 DEF process, timer, Start
  <2>2. ~NextRound /\ \A l \in Links : ~Up(l)
    BY <1>12 DEF NextRound, Up
  <2> QED
    BY <1>8, <1>9, <1>10, <2>1, <2>2 DEF Next, Run
<1> QED
  BY <1>11, <1>12

\* NoFalseExpiry of the run: as long as nothing fails and nothing is lost no
\* route expires, if an entry lives for at least five rounds of timer(); in the
\* code it lives for six.  With four a route does expire on a chain of hosts.
THEOREM NoneExpires ==
    ASSUME Expire >= 5
    PROVE  Spec => []NoFalseExpiry
<1>1. Init => IInv /\ (faults = 0 => Calm)
  BY InitInv, InitCalm
<1>2. IInv /\ (faults = 0 => Calm) /\ [Next]_vars => (IInv /\ (faults = 0 => Calm))'
  BY NextInv, CalmStep
<1>3. IInv /\ (faults = 0 => Calm) => NoFalseExpiry
  <2> SUFFICES ASSUME IInv, Calm, NEW h \in alive, NEW n \in Nets, routes[h][n].rt # NoRoute
               PROVE  routes[h][n].rt.timer < Expire
    BY DEF NoFalseExpiry
  <2>1. routes[h][n].rt.timer \in Nat
    BY TableIs
  <2>2. CASE <<h, n>> \in Links
    <3>1. routes[h][n].rt.timer <= 1
      BY <2>2, TableIs
    <3> QED
      BY <2>1, <3>1, Numbers
  <2>3. CASE <<h, n>> \notin Links
    <3>1. Learned(routes[h][n])
      BY <2>3, TableIs
    <3>2. PICK g, m : Backs(queue, routes, ticked, h, n, g, m)
      BY <3>1 DEF Calm, Backed
    <3>3. \A b : Round(b) \in {0, 1}
      BY DEF Round
    <3>4. Middle \in Nat /\ Middle + 2 < Expire
      BY Numbers DEF Middle
    <3>5. routes[h][n].rt.timer <= Middle + 2
      BY <2>1, <3>2, <3>3, <3>4 DEF Backs
    <3> QED
      BY <2>1, <3>4, <3>5, Numbers
  <2> QED
    BY <2>2, <2>3
<1> QED
  BY <1>1, <1>2, <1>3, PTL DEF Spec
=============================================================================
