---------------------------- MODULE FleetProofs -----------------------------
(***************************************************************************)
(* The proofs about Fleet and Provisioner. First the recursive functions   *)
(* `Resolved` and `Planned`, by an induction over sets of numbers; then    *)
(* one lemma for each conjunct of the invariant, where a step that covers  *)
(* several actions covers those that touch nothing the conjunct speaks of. *)
(***************************************************************************)
EXTENDS Fleet, FiniteSetTheorems, WellFoundedInduction, TLAPS

-----------------------------------------------------------------------------
(* Recursive functions                                                     *)

(* What SMT is slow to see when it stands in a record.                     *)
LEMMA SeqFacts ==
  ASSUME NEW S
  PROVE  <<>> \in Seq(S) /\ \A s, t \in Seq(S) : s \o t \in Seq(S)
OBVIOUS

(* Induction up to N, about a set: WFMin gives the least number outside it. *)
LEMMA UpTo ==
  ASSUME NEW N \in Nat, NEW S, 0 \in S, \A n \in 0 .. N - 1 : n \in S => n + 1 \in S
  PROVE  0 .. N \subseteq S
<1> SUFFICES ASSUME (0 .. N) \ S # {}
             PROVE  FALSE
  OBVIOUS
<1>1. PICK x \in (0 .. N) \ S : \A y \in (0 .. N) \ S : <<y, x>> \notin OpToRel(<, Nat)
  <2>1. (0 .. N) \ S \subseteq Nat
    OBVIOUS
  <2> QED
    BY <2>1, NatLessThanWellFounded, WFMin, Zenon
<1>2. \A y \in (0 .. N) \ S : <<y, x>> \in Nat \X Nat
  OBVIOUS
<1>3. \A y \in (0 .. N) \ S : ~(y < x)
  BY <1>1, <1>2, Zenon DEF OpToRel
<1>4. x - 1 \in 0 .. N - 1 /\ x - 1 < x
  OBVIOUS
<1>5. x - 1 \in S
  BY <1>3, <1>4
<1> QED
  BY <1>4, <1>5

(* A function on 0 .. N that begins with x0 and goes on with D.              *)
Goes(g, N, x0, D) == g[0] = x0 /\ \A k \in 1 .. N : g[k] = D[k][g[k - 1]]

LEMMA RecursionExists ==
  ASSUME NEW X, NEW N \in Nat, NEW x0 \in X, NEW D \in [1 .. N -> [X -> X]]
  PROVE  \E g \in [0 .. N -> X] : Goes(g, N, x0, D)
<1> DEFINE S == {n \in 0 .. N : \E g \in [0 .. n -> X] : Goes(g, n, x0, D)}
<1>1. 0 \in S
  <2>1. [k \in 0 .. 0 |-> x0] \in [0 .. 0 -> X] /\ Goes([k \in 0 .. 0 |-> x0], 0, x0, D)
    BY DEF Goes
  <2> QED
    BY <2>1
<1>2. ASSUME NEW n \in 0 .. N - 1, n \in S
      PROVE  n + 1 \in S
  <2>1. PICK g \in [0 .. n -> X] : Goes(g, n, x0, D)
    BY <1>2
  <2> DEFINE h == [k \in 0 .. n + 1 |-> IF k = n + 1 THEN D[n + 1][g[n]] ELSE g[k]]
  <2>2. D[n + 1] \in [X -> X] /\ g[n] \in X /\ D[n + 1][g[n]] \in X
    OBVIOUS
  <2>3. h \in [0 .. n + 1 -> X]
    BY <2>2
  <2>4. Goes(h, n + 1, x0, D)
    BY <2>1 DEF Goes
  <2> QED
    BY <2>3, <2>4
<1> HIDE DEF S
<1>3. 0 .. N \subseteq S
  BY <1>1, <1>2, UpTo
<1> QED
  BY <1>3 DEF S

(* Append, unless it is there.                                             *)
LEMMA AppendedNew ==
  ASSUME NEW x \in Seq(Component), NEW c \in Component
  PROVE  /\ AppendNew(x, c) \in Seq(Component)
         /\ ToSet(AppendNew(x, c)) = ToSet(x) \cup {c}
         /\ IsInjective(x) => IsInjective(AppendNew(x, c))
<1>1. CASE Contains(x, c)
  BY <1>1 DEF AppendNew, Contains, ToSet
<1>2. CASE ~Contains(x, c)
  <2>1. AppendNew(x, c) = Append(x, c) /\ \A k \in 1 .. Len(x) : x[k] # c
    BY <1>2 DEF AppendNew, Contains
  <2>2. /\ Append(x, c) \in Seq(Component) /\ Len(Append(x, c)) = Len(x) + 1
        /\ Append(x, c)[Len(x) + 1] = c
        /\ \A k \in 1 .. Len(x) : Append(x, c)[k] = x[k]
    OBVIOUS
  <2>3. ToSet(Append(x, c)) = ToSet(x) \cup {c}
    BY <2>2 DEF ToSet
  <2>4. IsInjective(x) => IsInjective(Append(x, c))
    BY <2>1, <2>2 DEF IsInjective
  <2> QED
    BY <2>1, <2>2, <2>3, <2>4
<1> QED
  BY <1>1, <1>2

(* The loop over a name's components: Extended(s, t) is s and what it      *)
(* lacked of t.                                                            *)
LEMMA ExtendedFacts ==
  ASSUME NEW s \in Seq(Component), NEW t \in Seq(Component), IsInjective(s)
  PROVE  /\ Extended(s, t) \in Seq(Component)
         /\ ToSet(Extended(s, t)) = ToSet(s) \cup ToSet(t)
         /\ IsInjective(Extended(s, t))
<1> DEFINE N == Len(t)
           X == Seq(Component)
           D == [k \in 1 .. N |-> [x \in X |-> AppendNew(x, t[k])]]
           F(g) == g = [k \in 0 .. N |-> IF k = 0 THEN s ELSE AppendNew(g[k - 1], t[k])]
           f == CHOOSE g : F(g)
           S == {n \in 0 .. N : /\ f[n] \in X /\ IsInjective(f[n])
                                /\ ToSet(f[n]) = ToSet(s) \cup {t[k] : k \in 1 .. n}}
<1>1. N \in Nat /\ s \in X /\ \A k \in 1 .. N : t[k] \in Component
  OBVIOUS
<1>2. D \in [1 .. N -> [X -> X]] /\ \A k \in 1 .. N, x \in X : D[k][x] = AppendNew(x, t[k])
  BY <1>1, AppendedNew
<1>3. PICK g \in [0 .. N -> X] : Goes(g, N, s, D)
  <2> HIDE DEF D, N, X
  <2> QED
    BY <1>1, <1>2, RecursionExists
<1>4. F(g)
  <2>1. \A k \in 1 .. N : k - 1 \in 0 .. N
    BY <1>1
  <2>2. g[0] = s /\ \A k \in 1 .. N : g[k] = AppendNew(g[k - 1], t[k])
    <3> HIDE DEF D, N, X
    <3> QED
      BY <1>2, <1>3, <2>1 DEF Goes
  <2> QED
    BY <2>2
<1>5. F(f)
  BY <1>4, Zenon
<1>6. Extended(s, t) = f[N]
  BY DEF Extended
<1> HIDE DEF f
<1>7. f[0] = s /\ \A k \in 1 .. N : f[k] = AppendNew(f[k - 1], t[k])
  <2> DEFINE r(k) == IF k = 0 THEN s ELSE AppendNew(f[k - 1], t[k])
  <2>1. \A k \in 0 .. N : f[k] = r(k)
    <3> HIDE DEF r
    <3> QED
      BY <1>5 DEF r
  <2> QED
    BY <1>1, <2>1
<1>8. 0 \in S
  BY <1>1, <1>7
<1>9. ASSUME NEW n \in 0 .. N - 1, n \in S
      PROVE  n + 1 \in S
  <2>1. n + 1 \in 1 .. N /\ n + 1 - 1 = n
    BY <1>1
  <2>2. f[n + 1] = AppendNew(f[n], t[n + 1]) /\ t[n + 1] \in Component
    BY <1>1, <1>7, <2>1
  <2>3. {t[k] : k \in 1 .. n + 1} = {t[k] : k \in 1 .. n} \cup {t[n + 1]}
    BY <1>1
  <2>4. /\ f[n + 1] \in X /\ IsInjective(f[n + 1])
        /\ ToSet(f[n + 1]) = ToSet(f[n]) \cup {t[n + 1]}
    <3>1. f[n] \in X /\ IsInjective(f[n])
      BY <1>9
    <3> DEFINE x == f[n]
               c == t[n + 1]
    <3>2. x \in Seq(Component) /\ c \in Component
      BY <2>2, <3>1
    <3> HIDE DEF x, c
    <3>3. /\ AppendNew(x, c) \in Seq(Component) /\ ToSet(AppendNew(x, c)) = ToSet(x) \cup {c}
          /\ IsInjective(x) => IsInjective(AppendNew(x, c))
      BY <3>2, AppendedNew
    <3> QED
      BY <2>2, <3>1, <3>3 DEF x, c
  <2> QED
    BY <1>9, <2>1, <2>3, <2>4
<1>10. N \in S
  <2> HIDE DEF S, N
  <2>1. 0 .. N \subseteq S
    BY <1>1, <1>8, <1>9, UpTo
  <2> QED
    BY <1>1, <2>1
<1>11. ToSet(t) = {t[k] : k \in 1 .. N}
  BY DEF ToSet
<1> QED
  BY <1>6, <1>10, <1>11

(* resolve_components: every component asked for, by its name or by a      *)
(* bundle, is resolved, nothing else is, and none of them twice, however   *)
(* the names overlap (component/mod.rs:61 and 66).                         *)
THEOREM ResolvedOnce ==
  ASSUME NEW names, names \in Seq(ToSet(names)),
         \A n \in DOMAIN names : Known(names[n])
  PROVE  /\ Resolved(names) \in Seq(Component)
         /\ ToSet(Resolved(names)) = UNION {ToSet(Expansion(names[n])) : n \in DOMAIN names}
         /\ IsInjective(Resolved(names))
<1> DEFINE N == Len(names)
           X == {s \in Seq(Component) : IsInjective(s)}
           e(k) == Expansion(names[k])
           D == [k \in 1 .. N |-> [x \in X |-> Extended(x, e(k))]]
           F(g) == g = [k \in 0 .. N |-> IF k = 0 THEN <<>>
                                         ELSE Extended(g[k - 1], Expansion(names[k]))]
           f == CHOOSE g : F(g)
           S == {n \in 0 .. N : f[n] \in X /\ ToSet(f[n]) = UNION {ToSet(e(k)) : k \in 1 .. n}}
<1>1. N \in Nat /\ DOMAIN names = 1 .. N
  OBVIOUS
<1>2. \A k \in 1 .. N : e(k) \in Seq(Component)
  BY <1>1, BundleAssumption DEF Known, Expansion
<1>3. <<>> \in X /\ ToSet(<<>>) = {}
  BY DEF IsInjective, ToSet
<1>4. \A k \in 1 .. N, x \in X : /\ Extended(x, e(k)) \in X
                                 /\ ToSet(Extended(x, e(k))) = ToSet(x) \cup ToSet(e(k))
  <2> HIDE DEF N, e
  <2> QED
    BY <1>2, ExtendedFacts
<1>5. D \in [1 .. N -> [X -> X]] /\ \A k \in 1 .. N, x \in X : D[k][x] = Extended(x, e(k))
  <2> HIDE DEF N, e, X
  <2> QED
    BY <1>4
<1>6. PICK g \in [0 .. N -> X] : Goes(g, N, <<>>, D)
  <2> HIDE DEF D, N, X
  <2> QED
    BY <1>1, <1>3, <1>5, RecursionExists
<1>7. F(g)
  <2>1. \A k \in 1 .. N : k - 1 \in 0 .. N
    BY <1>1
  <2>2. g[0] = <<>> /\ \A k \in 1 .. N : g[k] = Extended(g[k - 1], e(k))
    <3> HIDE DEF D, N, X
    <3> QED
      BY <1>5, <1>6, <2>1 DEF Goes
  <2> QED
    BY <2>2
<1>8. F(f)
  BY <1>7, Zenon
<1>9. Resolved(names) = f[N]
  BY DEF Resolved
<1> HIDE DEF f
<1>10. f[0] = <<>> /\ \A k \in 1 .. N : f[k] = Extended(f[k - 1], e(k))
  <2> DEFINE r(k) == IF k = 0 THEN <<>> ELSE Extended(f[k - 1], e(k))
  <2>1. \A k \in 0 .. N : f[k] = r(k)
    <3> HIDE DEF r
    <3> QED
      BY <1>8 DEF r
  <2> QED
    BY <1>1, <2>1
<1> HIDE DEF e, X
<1>11. 0 \in S
  BY <1>1, <1>3, <1>10
<1>12. ASSUME NEW n \in 0 .. N - 1, n \in S
       PROVE  n + 1 \in S
  <2>1. n + 1 \in 1 .. N /\ n + 1 - 1 = n
    BY <1>1
  <2>2. f[n + 1] \in X /\ ToSet(f[n + 1]) = ToSet(f[n]) \cup ToSet(e(n + 1))
    BY <1>4, <1>10, <1>12, <2>1
  <2>3. UNION {ToSet(e(k)) : k \in 1 .. n + 1}
          = ToSet(e(n + 1)) \cup UNION {ToSet(e(k)) : k \in 1 .. n}
    <3> DEFINE u(k) == ToSet(e(k))
    <3> HIDE DEF u
    <3>1. UNION {u(k) : k \in 1 .. n + 1} = u(n + 1) \cup UNION {u(k) : k \in 1 .. n}
      BY <1>1
    <3> QED
      BY <3>1 DEF u
  <2> QED
    BY <1>12, <2>1, <2>2, <2>3
<1>13. N \in S
  <2> HIDE DEF S, N
  <2>1. 0 .. N \subseteq S
    BY <1>1, <1>11, <1>12, UpTo
  <2> QED
    BY <1>1, <2>1
<1> QED
  BY <1>1, <1>9, <1>13 DEF X, e

(* The plan of fleet create: a sequence of the file's definitions.         *)
LEMMA PlannedFacts ==
  ASSUME NEW E, NEW file \in Seq(E), \A d \in E : d.count \in Nat
  PROVE  Planned(file) \in Seq(E)
<1> DEFINE N == Len(file)
           X == Seq(E)
           j(x, k) == x \o [i \in 1 .. file[k].count |-> file[k]]
           D == [k \in 1 .. N |-> [x \in X |-> j(x, k)]]
           F(g) == g = [d \in 0 .. N |-> IF d = 0 THEN <<>>
                                ELSE g[d - 1] \o [k \in 1 .. file[d].count |-> file[d]]]
           f == CHOOSE g : F(g)
<1>1. N \in Nat /\ <<>> \in X /\ \A k \in 1 .. N : [i \in 1 .. file[k].count |-> file[k]] \in X
  OBVIOUS
<1>2. \A k \in 1 .. N, x \in X : j(x, k) \in X
  <2> HIDE DEF N
  <2> QED
    BY <1>1, SeqFacts
<1>3. D \in [1 .. N -> [X -> X]] /\ \A k \in 1 .. N, x \in X : D[k][x] = j(x, k)
  <2> HIDE DEF N, j, X
  <2> QED
    BY <1>2
<1>4. PICK g \in [0 .. N -> X] : Goes(g, N, <<>>, D)
  <2> HIDE DEF D, N, X
  <2> QED
    BY <1>1, <1>3, RecursionExists
<1>5. F(g)
  <2>1. \A k \in 1 .. N : k - 1 \in 0 .. N
    BY <1>1
  <2>2. g[0] = <<>> /\ \A k \in 1 .. N : g[k] = j(g[k - 1], k)
    <3> HIDE DEF D, N, X, j
    <3> QED
      BY <1>3, <1>4, <2>1 DEF Goes
  <2> QED
    BY <2>2
<1>6. F(f)
  BY <1>5, Zenon
<1>7. Planned(file) = f[N]
  BY DEF Planned
<1> HIDE DEF f, j
<1>8. f[0] = <<>> /\ \A k \in 1 .. N : f[k] = j(f[k - 1], k)
  <2> DEFINE r(k) == IF k = 0 THEN <<>> ELSE j(f[k - 1], k)
  <2>1. \A k \in 0 .. N : f[k] = r(k)
    <3> HIDE DEF r
    <3> QED
      BY <1>6 DEF r, j
  <2> HIDE DEF N
  <2> QED
    BY <1>1, <2>1
<1> DEFINE S == {n \in 0 .. N : f[n] \in X}
<1>9. 0 \in S
  <2> HIDE DEF N, X
  <2> QED
    BY <1>1, <1>8
<1>10. ASSUME NEW n \in 0 .. N - 1, n \in S
       PROVE  n + 1 \in S
  <2>1. n + 1 \in 1 .. N /\ n + 1 - 1 = n
    BY <1>1
  <2> HIDE DEF X, N
  <2>2. f[n + 1] = j(f[n], n + 1)
    BY <1>8, <2>1
  <2> QED
    BY <1>2, <1>10, <2>1, <2>2
<1>11. 0 .. N \subseteq S
  <2> HIDE DEF S, N
  <2> QED
    BY <1>1, <1>9, <1>10, UpTo
<1> QED
  BY <1>1, <1>7, <1>11
-----------------------------------------------------------------------------
(* The invariant                                                           *)

(* What is recorded, and what a worker is about to record, was verified in *)
(* that machine.                                                           *)
GuestsFit ==
  /\ machines = [i \in Id |-> machines[i]] /\ verified = [i \in Id |-> verified[i]]
  /\ step \in [Worker -> Steps]
  /\ target \in [Worker -> Id \cup {Absent}]
  /\ ok = [w \in Worker |-> ok[w]]
  /\ \A i \in Recorded :
       /\ machines[i] = [group |-> machines[i].group, components |-> machines[i].components]
       /\ machines[i].components \in Seq(verified[i])
  /\ \A w \in Worker :
       IF step[w] \in Provisioning
         THEN target[w] \in Id /\ ok[w] \in Seq(verified[target[w]])
         ELSE ok[w] = <<>>

(* A worker that is to report has something to report.                     *)
OutcomesFit ==
  /\ outcome \in [Worker -> {"none", "ok", "partial", "error", "unopened"}]
  /\ \A w \in Worker : step[w] \in {"settle", "report"} => outcome[w] # "none"

(* The first pass goes through the plan.                                   *)
PlanFits ==
  /\ main \in {"create", "mark", "provision", "done", "dead"}
  /\ info \in Id \cup {Absent}
  /\ main = "mark" => info \in Id /\ info = Len(results) + 1
  /\ results \in Seq(Result)
  /\ created \in Nat /\ failed \in Nat /\ created + failed = Len(results)
  /\ main \in {"provision", "done"} => Len(results) = Len(plan)

(* The machines to provision are in the order of the results, so that no   *)
(* two threads report at one index, and there is a thread for each.        *)
PendingFits ==
  /\ pending \in Seq(ToSet(pending))
  /\ \A k \in 1 .. Len(pending) :
       /\ pending[k].index \in k .. Len(results) /\ pending[k].index \in Id
       /\ pending[k].id = pending[k].index
  /\ \A j, k \in 1 .. Len(pending) : j < k => pending[j].index < pending[k].index

Chunk == IF parallel = 0 THEN 1 ELSE parallel

(* The threads up to `joined` are through, those up to `spawned` begun.    *)
ThreadsFit ==
  /\ parallel \in Nat
  /\ joined \in Nat /\ spawned \in joined .. Len(pending)
  /\ spawned <= joined + Chunk
  /\ main \in {"create", "mark"} => spawned = 0
  /\ main = "done" => joined = Len(pending)
  /\ \A t \in Thread :
       /\ step[t] = "none" <=> t > spawned
       /\ t <= joined => step[t] \in {"ended", "panicked", "killed"}
       /\ step[t] = "killed" => main = "dead"
       /\ main = "dead" => step[t] \in {"none", "ended", "panicked", "killed"}

WithStatus(S) == {k \in 1 .. Len(pending) : results[pending[k].index].status \in S}
PanicsSeen == {t \in 1 .. joined : step[t] = "panicked"}

(* The counters count the statuses, and the panics seen so far.            *)
CountsFit ==
  /\ \A k \in 1 .. Len(pending) :
       results[pending[k].index].status = "none" <=> step[k] # "ended"
  /\ provisioned = Cardinality(WithStatus({"ok", "partial"}))
  /\ provFailed = Cardinality(WithStatus({"error"})) + Cardinality(PanicsSeen)

(* Machines come into being in the order of the plan and are marked when   *)
(* they are reported.                                                      *)
ReportsFit ==
  /\ \A k \in 1 .. Len(results) : results[k].id \in {k, Absent}
  /\ \A i \in Recorded :
       \/ i <= Len(results)
       \/ /\ i = Len(results) + 1 /\ main \in {"mark", "dead"}
          /\ machines[i].group = NoGroup
  /\ ReportedAreInTheirFleet

(* What fleet destroy found is reported, is of its group as long as it is  *)
(* there, and is to go, gone or failed.                                    *)
DestroyerFits ==
  /\ destroyer \in [left : SUBSET Id, found : SUBSET Id, group : Group \cup {NoGroup},
                    all : BOOLEAN, destroyed : SUBSET Id, failed : SUBSET Id, marked : SUBSET Id,
                    at : {"idle", "destroying", "done"}]
  /\ destroyer.found = destroyer.left \cup destroyer.destroyed \cup destroyer.failed
  /\ destroyer.left \cap (destroyer.destroyed \cup destroyer.failed) = {}
  /\ destroyer.destroyed \cap destroyer.failed = {}
  /\ destroyer.at = "idle" => destroyer.found = {}
  /\ destroyer.at = "done" => destroyer.left = {}
  /\ destroyer.destroyed \cap Recorded \subseteq destroyer.marked
  /\ \A i \in destroyer.found : i <= Len(results)
  /\ \A i \in destroyer.left \cap Recorded :
       destroyer.all \/ machines[i].group = destroyer.group

FleetInv ==
  /\ GuestsFit /\ OutcomesFit /\ PlanFits /\ PendingFits
  /\ ThreadsFit /\ CountsFit /\ ReportsFit /\ DestroyerFits
-----------------------------------------------------------------------------
(* Machines and workers                                                    *)

(* A step of a provision: only `save` records, and only what was verified. *)
LEMMA ProvisionStepFits ==
  ASSUME GuestsFit, NEW w \in Worker, ProvisionStep(w)
  PROVE  GuestsFit'
<1>1. CASE InstallSucceeds(w)
  BY <1>1 DEF GuestsFit, InstallSucceeds, Recorded, Provisioning, Steps
<1>2. CASE CommandFails(w)
  BY <1>2 DEF GuestsFit, CommandFails, NextComponent, Recorded, Provisioning, Steps
<1>3. CASE VerifySucceeds(w)
  <2> DEFINE i == target[w]
             more == verified[i] \cup {Head(todo[w])}
  <2>1. /\ i \in Id /\ verified' = [verified EXCEPT ![i] = more]
        /\ ok[w] \in Seq(verified[i]) /\ ok' = [ok EXCEPT ![w] = Append(ok[w], Head(todo[w]))]
        /\ UNCHANGED <<machines, target>>
        /\ step' \in [Worker -> Steps] /\ step'[w] \in Provisioning
        /\ \A v \in Worker \ {w} : step'[v] = step[v]
    BY <1>3 DEF GuestsFit, VerifySucceeds, NextComponent, Recorded, Provisioning, Steps
  <2>2. Append(ok[w], Head(todo[w])) \in Seq(more)
    BY <2>1
  <2>3. \A j \in Id : Seq(verified[j]) \subseteq Seq(verified'[j])
    BY <2>1 DEF GuestsFit
  <2> QED
    BY <2>1, <2>2, <2>3 DEF GuestsFit, Recorded
<1>4. CASE Save(w)
  <2> DEFINE i == target[w]
  <2>1. CASE i \in Recorded /\ ok[w] # <<>>
    <3>1. /\ machines' = [machines EXCEPT ![i].components = @ \o ok[w]]
          /\ i \in Id /\ ok[w] \in Seq(verified[i]) /\ machines[i].components \in Seq(verified[i])
          /\ machines[i] = [group |-> machines[i].group, components |-> machines[i].components]
          /\ i \in DOMAIN machines
      BY <1>4, <2>1 DEF GuestsFit, Save, Recorded, Provisioning
    <3>2. machines[i].components \o ok[w] \in Seq(verified[i])
      BY <3>1, SeqFacts
    <3>3. machines'[i] = [group |-> machines[i].group,
                          components |-> machines[i].components \o ok[w]]
      <4> DEFINE m == machines[i]
      <4>1. machines'[i] = [m EXCEPT !.components = m.components \o ok[w]]
        BY <3>1
      <4>2. m = [group |-> m.group, components |-> m.components]
        BY <3>1
      <4> HIDE DEF m
      <4>3. machines'[i] = [group |-> m.group, components |-> m.components \o ok[w]]
        BY <4>1, <4>2
      <4> QED
        BY <4>3 DEF m
    <3> QED
      BY <1>4, <2>1, <3>1, <3>2, <3>3
      DEF GuestsFit, Save, Settled, Recorded, Provisioning, Steps
  <2>2. CASE ~(i \in Recorded /\ ok[w] # <<>>)
    BY <1>4, <2>2 DEF GuestsFit, Save, Settled, Recorded, Provisioning, Steps
  <2> QED
    BY <2>1, <2>2
<1>5. CASE SaveFails(w) \/ ExecPanics(w)
  BY <1>5 DEF GuestsFit, SaveFails, ExecPanics, Recorded, Provisioning, Steps
<1> QED
  BY <1>1, <1>2, <1>3, <1>4, <1>5 DEF ProvisionStep

(* GuestsFit is kept.                                                      *)
LEMMA GuestsKept ==
  ASSUME FleetInv, FleetNext
  PROVE  GuestsFit'
<1> USE DEF FleetInv
<1>1. ASSUME NEW i \in Id, CreateNext(i)
      PROVE  GuestsFit'
  <2>1. /\ machines' = [machines EXCEPT ![i] = [group |-> NoGroup, components |-> <<>>]]
        /\ UNCHANGED <<verified, step, target, ok>>
    BY <1>1 DEF CreateNext
  <2>2. <<>> \in Seq(verified[i])
    BY SeqFacts
  <2> QED
    BY <2>1, <2>2 DEF GuestsFit, Recorded
<1>2. CASE MarkFleet
  <2>1. CASE machines' = SetFleetName(info) /\ info \in Recorded
    <3>1. /\ machines' = [machines EXCEPT ![info].group = Current.group] /\ info \in Id
          /\ UNCHANGED <<verified, step, target, ok>>
      BY <1>2, <2>1 DEF MarkFleet, SetFleetName, Recorded
    <3>2. machines'[info] = [group |-> Current.group,
                             components |-> machines[info].components]
      BY <2>1, <3>1 DEF GuestsFit
    <3> QED
      BY <2>1, <3>1, <3>2 DEF GuestsFit, Recorded
  <2>2. CASE machines' = machines
    BY <1>2, <2>2 DEF GuestsFit, MarkFleet, Recorded
  <2> QED
    BY <1>2, <2>1, <2>2 DEF MarkFleet, SetFleetName
<1>3. CASE SpawnChunk
  <2>1. /\ step' = [w \in Worker |-> IF w \in Thread /\ w \in spawned + 1 .. ChunkEnd
                                        THEN "start" ELSE step[w]]
        /\ UNCHANGED <<machines, verified, target, ok>>
    BY <1>3 DEF SpawnChunk
  <2>2. \A w \in Worker : step'[w] \in {"start", step[w]}
    BY <2>1, Zenon
  <2>3. \A w \in Worker : step'[w] # step[w] => step[w] \notin Provisioning
    BY <1>3, <2>1 DEF SpawnChunk, ThreadsFit, Provisioning, Thread
  <2> QED
    BY <2>1, <2>2, <2>3 DEF GuestsFit, Recorded, Provisioning, Steps
<1>4. ASSUME NEW w \in Worker, NEW i \in Id, NEW names,
             BeginProvision(w, i, names), step[w] \in {"none", "start"}
      PROVE  GuestsFit'
  <2>1. /\ step' \in [Worker -> Steps] /\ target' \in [Worker -> Id \cup {Absent}]
        /\ target'[w] = i /\ \A v \in Worker \ {w} : target'[v] = target[v] /\ step'[v] = step[v]
        /\ UNCHANGED <<machines, verified, ok>>
    BY <1>4, Zenon DEF GuestsFit, BeginProvision, Steps, Provisioning
  <2>2. ok[w] = <<>>
    BY <1>4 DEF GuestsFit, Provisioning
  <2>3. ok[w] \in Seq(verified[i])
    BY <2>2, SeqFacts
  <2> QED
    BY <2>1, <2>2, <2>3 DEF GuestsFit, Recorded
<1>5. ASSUME NEW t \in Thread, StartThread(t)
      PROVE  GuestsFit'
  <2>1. t \in Worker /\ t \in 1 .. Len(pending)
    BY <1>5, ThreadsAssumption DEF StartThread, ThreadsFit, Thread
  <2>2. pending[t].id \in Id
    BY <2>1 DEF PendingFits
  <2> QED
    BY <1>4, <1>5, <2>1, <2>2 DEF StartThread
<1>6. ASSUME NEW t \in Thread, CannotOpen(t) \/ LockResults(t) \/ Report(t) \/ PrintPanics(t)
      PROVE  GuestsFit'
  <2>1. t \in Worker
    BY ThreadsAssumption DEF Thread
  <2>2. CASE CannotOpen(t)
    BY <2>1, <2>2 DEF GuestsFit, CannotOpen, Recorded, Provisioning, Steps
  <2>3. CASE LockResults(t)
    <3>1. /\ step' \in {[step EXCEPT ![t] = "panicked"], [step EXCEPT ![t] = "report"]}
          /\ step[t] = "settle" /\ UNCHANGED <<machines, verified, target, ok>>
      BY <2>3, Zenon DEF LockResults
    <3>2. /\ step' \in [Worker -> Steps] /\ step'[t] \notin Provisioning
          /\ \A w \in Worker \ {t} : step'[w] = step[w]
      BY <2>1, <3>1 DEF GuestsFit, Provisioning, Steps
    <3>3. ok[t] = <<>>
      BY <2>1, <3>1 DEF GuestsFit, Provisioning
    <3> QED
      BY <3>1, <3>2, <3>3 DEF GuestsFit, Recorded
  <2>4. CASE Report(t)
    BY <2>1, <2>4 DEF GuestsFit, Report, Recorded, Provisioning, Steps
  <2>5. CASE PrintPanics(t)
    BY <2>1, <2>5 DEF GuestsFit, PrintPanics, Forgotten, Recorded, Provisioning, Steps
  <2> QED
    BY <1>6, <2>2, <2>3, <2>4, <2>5
<1>7. CASE Dies
  BY <1>7 DEF GuestsFit, Dies, Recorded, Provisioning, Steps
<1>8. ASSUME NEW w \in Worker, EndCommand(w)
      PROVE  GuestsFit'
  BY <1>8 DEF GuestsFit, EndCommand, Recorded, Provisioning, Steps
<1>9. ASSUME NEW i \in Id, Elsewhere(i) \/ DestroyTarget(i)
      PROVE  GuestsFit'
  BY <1>9 DEF GuestsFit, Elsewhere, DestroyElsewhere, DestroyTarget, Recorded
<1>10. CASE \/ CreateNextFails \/ EndFirstPass \/ JoinNext \/ Summarise \/ StderrCloses
            \/ \E i \in Id : DestroyTargetFails(i)
            \/ \E g \in Group : ReadTargets(FALSE, g)
            \/ ReadTargets(TRUE, NoGroup)
  BY <1>10
  DEF GuestsFit, CreateNextFails, EndFirstPass, JoinNext, Summarise, StderrCloses,
      DestroyTargetFails, ReadTargets, provisionVars, Recorded
<1>11. ASSUME NEW w \in Command, NEW i \in Id, NEW names \in Requests,
              ProvisionCommand(w, i, names)
       PROVE  GuestsFit'
  BY <1>4, <1>11 DEF ProvisionCommand, Command
<1> QED
  BY <1>1, <1>2, <1>3, <1>5, <1>6, <1>7, <1>8, <1>9, <1>10, <1>11, ProvisionStepFits,
     ThreadsAssumption
  DEF FleetNext, MainStep, ThreadStep, CommandStep, Killed, MainPanics, Thread, Command

(* A worker whose outcome is none does not come to a report.               *)
LEMMA OutcomesKept ==
  ASSUME FleetInv, FleetNext
  PROVE  OutcomesFit'
<1> USE DEF FleetInv
<1>1. ASSUME NEW w \in Worker, ProvisionStep(w)
      PROVE  OutcomesFit'
  BY <1>1
  DEF OutcomesFit, GuestsFit, ProvisionStep, InstallSucceeds, CommandFails, VerifySucceeds,
      NextComponent, Save, Settled, SaveFails, ExecPanics
<1>2. CASE SpawnChunk
  <2>1. /\ step' = [w \in Worker |-> IF w \in Thread /\ w \in spawned + 1 .. ChunkEnd
                                        THEN "start" ELSE step[w]]
        /\ UNCHANGED outcome
    BY <1>2 DEF SpawnChunk
  <2>2. \A w \in Worker : step'[w] \in {"start", step[w]}
    BY <2>1, Zenon
  <2> QED
    BY <2>1, <2>2 DEF OutcomesFit
<1>3. ASSUME NEW w \in Worker, NEW i, NEW names, BeginProvision(w, i, names)
      PROVE  OutcomesFit'
  BY <1>3, Zenon DEF OutcomesFit, GuestsFit, BeginProvision
<1>4. ASSUME NEW t \in Thread,
             \/ CannotOpen(t) \/ LockResults(t) \/ Report(t) \/ PrintPanics(t)
      PROVE  OutcomesFit'
  BY <1>4, ThreadsAssumption
  DEF OutcomesFit, GuestsFit, CannotOpen, LockResults, Report, PrintPanics, Forgotten, Thread
<1>5. CASE Dies
  BY <1>5, ThreadsAssumption DEF OutcomesFit, GuestsFit, Dies, ThreadsFit, Thread, Steps
<1>6. ASSUME NEW w \in Worker, EndCommand(w)
      PROVE  OutcomesFit'
  BY <1>6 DEF OutcomesFit, GuestsFit, EndCommand
<1>7. CASE \/ \E i \in Id : CreateNext(i) \/ Elsewhere(i) \/ DestroyTarget(i)
           \/ \E i \in Id : DestroyTargetFails(i)
           \/ CreateNextFails \/ MarkFleet \/ EndFirstPass
           \/ JoinNext \/ Summarise \/ StderrCloses
           \/ \E g \in Group : ReadTargets(FALSE, g)
           \/ ReadTargets(TRUE, NoGroup)
  BY <1>7
  DEF OutcomesFit, CreateNext, Elsewhere, DestroyElsewhere, DestroyTarget, DestroyTargetFails,
      CreateNextFails, MarkFleet, EndFirstPass, JoinNext, Summarise, StderrCloses, ReadTargets,
      provisionVars
<1> QED
  BY <1>1, <1>2, <1>3, <1>4, <1>5, <1>6, <1>7, ThreadsAssumption
  DEF FleetNext, MainStep, ThreadStep, CommandStep, StartThread, ProvisionCommand, Killed,
      MainPanics, Thread, Command
-----------------------------------------------------------------------------
(* The plan and the first pass                                             *)

(* What Append does to a sequence of anything.                             *)
LEMMA Appended ==
  ASSUME NEW s, s \in Seq(ToSet(s)), NEW e
  PROVE  LET t == Append(s, e)
         IN /\ t \in Seq(ToSet(t)) /\ Len(t) = Len(s) + 1 /\ t[Len(s) + 1] = e
            /\ \A k \in 1 .. Len(s) : t[k] = s[k]
<1> DEFINE S == ToSet(s) \cup {e}
           t == Append(s, e)
<1>1. s \in Seq(S)
  BY DEF S
<1> HIDE DEF S
<1>2. e \in S
  BY DEF S
<1>3. /\ t \in Seq(S) /\ Len(t) = Len(s) + 1 /\ t[Len(s) + 1] = e
      /\ \A k \in 1 .. Len(s) : t[k] = s[k]
  BY <1>1, <1>2
<1>4. t \in Seq(ToSet(t))
  <2> HIDE DEF t
  <2> QED
    BY <1>3 DEF ToSet
<1> QED
  BY <1>3, <1>4

(* The first pass goes on by a result at a time.                           *)
LEMMA PlanKept ==
  ASSUME FleetInv, FleetNext
  PROVE  PlanFits'
<1> USE DEF FleetInv
<1>1. ASSUME NEW i \in Id, CreateNext(i)
      PROVE  PlanFits'
  BY <1>1 DEF PlanFits, CreateNext, Result
<1>2. CASE CreateNextFails
  <2>1. [id |-> Absent, status |-> "none"] \in Result
    BY DEF Result
  <2> QED
    BY <1>2, <2>1 DEF PlanFits, CreateNextFails
<1>3. CASE MarkFleet
  <2>1. [id |-> info, status |-> "none"] \in Result
    BY <1>3 DEF Result, PlanFits
  <2> QED
    BY <1>3, <2>1 DEF PlanFits, MarkFleet
<1>4. CASE EndFirstPass
  BY <1>4 DEF PlanFits, EndFirstPass
<1>5. CASE Summarise
  BY <1>5 DEF PlanFits, Summarise
<1>6. ASSUME NEW t \in Thread, Report(t)
      PROVE  PlanFits'
  <2> DEFINE k == pending[t].index
             r == [results[k] EXCEPT !.status = Status(t)]
  <2>1. t \in Worker /\ t \in 1 .. Len(pending)
    BY <1>6, ThreadsAssumption DEF Report, ThreadsFit, Thread
  <2>2. k \in 1 .. Len(results)
    BY <2>1 DEF PendingFits, PlanFits
  <2>3. Status(t) \in {"none", "ok", "partial", "error"}
    BY <2>1 DEF Status, OutcomesFit
  <2>4. r \in Result
    <3>1. results[k] \in Result
      BY <2>2 DEF PlanFits
    <3> QED
      BY <2>3, <3>1, Zenon DEF Result
  <2>5. results' = [results EXCEPT ![k] = r]
    BY <1>6 DEF Report
  <2> HIDE DEF k, r
  <2>6. results' \in Seq(Result) /\ Len(results') = Len(results)
    BY <2>2, <2>4, <2>5 DEF PlanFits
  <2> QED
    BY <1>6, <2>6 DEF PlanFits, Report
<1>7. CASE Dies
  BY <1>7 DEF PlanFits, Dies
<1>8. CASE UNCHANGED <<plan, main, info, results, created, failed>>
  BY <1>8 DEF PlanFits
<1>9. CASE \/ SpawnChunk \/ JoinNext \/ StderrCloses
           \/ \E t \in Thread : \/ StartThread(t) \/ CannotOpen(t) \/ LockResults(t)
                                \/ PrintPanics(t)
           \/ UNCHANGED <<mainVars, mutexVars, stderr, destroyer>>
           \/ \E w \in Command, i \in Id, names \in Requests : ProvisionCommand(w, i, names)
           \/ \E i \in Id : Elsewhere(i) \/ DestroyTarget(i) \/ DestroyTargetFails(i)
           \/ \E g \in Group : ReadTargets(FALSE, g)
           \/ ReadTargets(TRUE, NoGroup)
  BY <1>8, <1>9
  DEF SpawnChunk, JoinNext, StderrCloses, StartThread, CannotOpen, LockResults, PrintPanics,
      ProvisionCommand, Elsewhere, DestroyTarget, DestroyTargetFails, ReadTargets, mainVars
<1> QED
  BY <1>1, <1>2, <1>3, <1>4, <1>5, <1>6, <1>7, <1>9
  DEF FleetNext, MainStep, ThreadStep, CommandStep, Killed, MainPanics

(* A machine to provision is entered with its place in the results.        *)
LEMMA PendingKept ==
  ASSUME FleetInv, FleetNext
  PROVE  PendingFits'
<1> USE DEF FleetInv
<1>1. CASE CreateNextFails
  <2>1. Len(results') = Len(results) + 1 /\ UNCHANGED pending
    BY <1>1 DEF CreateNextFails, PlanFits
  <2> QED
    BY <2>1 DEF PendingFits, PlanFits
<1>2. CASE MarkFleet
  <2> DEFINE n == Len(results) + 1
             e == [id |-> info, name |-> Current.provision, index |-> n]
  <2>1. /\ Len(results) \in Nat /\ Len(results') = n /\ info = n /\ info \in Id
    BY <1>2 DEF MarkFleet, PlanFits
  <2>2. CASE UNCHANGED pending
    BY <2>1, <2>2 DEF PendingFits
  <2>3. CASE pending' = Append(pending, e)
    <3> HIDE DEF e
    <3>1. /\ pending' \in Seq(ToSet(pending')) /\ Len(pending') = Len(pending) + 1
          /\ pending'[Len(pending) + 1] = e
          /\ \A k \in 1 .. Len(pending) : pending'[k] = pending[k]
      BY <2>3, Appended DEF PendingFits
    <3>2. Len(pending) \in Nat /\ Len(pending) <= Len(results)
      BY <2>1 DEF PendingFits
    <3>3. e.id = n /\ e.index = n
      BY <2>1 DEF e
    <3> DEFINE m == Len(pending) + 1
    <3>4. \A k \in 1 .. m : k \in 1 .. Len(pending) \/ k = m
      BY <3>2
    <3>5. \A k \in 1 .. Len(pending) :
            /\ pending[k].index \in k .. Len(results) /\ pending[k].index \in Id
            /\ pending[k].id = pending[k].index
            /\ k < m /\ pending[k].index < n /\ pending[k].index \in k .. n
      BY <2>1, <3>2 DEF PendingFits
    <3>6. m \in 1 .. n /\ n \in m .. n
      BY <2>1, <3>2
    <3>7. \A k \in 1 .. m :
            /\ pending'[k].index \in k .. n /\ pending'[k].index \in Id
            /\ pending'[k].id = pending'[k].index
      BY <2>1, <3>1, <3>3, <3>4, <3>5, <3>6
    <3>8. \A j, k \in 1 .. m : j < k => pending'[j].index < pending'[k].index
      <4> SUFFICES ASSUME NEW j \in 1 .. m, NEW k \in 1 .. m, j < k
                   PROVE  pending'[j].index < pending'[k].index
        OBVIOUS
      <4>1. j \in 1 .. Len(pending)
        BY <3>2
      <4>2. CASE k = m
        BY <3>1, <3>3, <3>5, <4>1, <4>2
      <4>3. CASE k \in 1 .. Len(pending)
        BY <3>1, <4>1, <4>3 DEF PendingFits
      <4> QED
        BY <3>4, <4>2, <4>3
    <3> QED
      BY <2>1, <3>1, <3>7, <3>8 DEF PendingFits
  <2> QED
    BY <1>2, <2>2, <2>3 DEF MarkFleet, Enqueue
<1>3. CASE UNCHANGED pending /\ Len(results') = Len(results)
  BY <1>3 DEF PendingFits
<1>4. ASSUME NEW t \in Thread, Report(t)
      PROVE  UNCHANGED pending /\ Len(results') = Len(results)
  BY <1>4 DEF Report, PlanFits
<1>5. CASE \/ SpawnChunk \/ JoinNext \/ StderrCloses \/ Dies \/ EndFirstPass \/ Summarise
           \/ \E t \in Thread : \/ StartThread(t) \/ CannotOpen(t) \/ LockResults(t)
                                \/ PrintPanics(t)
           \/ UNCHANGED <<mainVars, mutexVars, stderr, destroyer>>
           \/ \E w \in Command, i \in Id, names \in Requests : ProvisionCommand(w, i, names)
           \/ \E i \in Id : \/ CreateNext(i) \/ Elsewhere(i) \/ DestroyTarget(i)
                            \/ DestroyTargetFails(i)
           \/ \E g \in Group : ReadTargets(FALSE, g)
           \/ ReadTargets(TRUE, NoGroup)
  BY <1>3, <1>5
  DEF SpawnChunk, JoinNext, StderrCloses, Dies, EndFirstPass, Summarise, StartThread,
      CannotOpen, LockResults, PrintPanics, ProvisionCommand, CreateNext, Elsewhere,
      DestroyTarget, DestroyTargetFails, ReadTargets, mainVars
<1> QED
  BY <1>1, <1>2, <1>3, <1>4, <1>5
  DEF FleetNext, MainStep, ThreadStep, CommandStep, Killed, MainPanics
-----------------------------------------------------------------------------
(* The threads and the counters                                            *)

Live == Provisioning \cup {"start", "settle", "report"}

(* A step of one worker: of a thread under way, or of another command.     *)
Moves(w) ==
  /\ w \in Thread => step[w] \in Live
  /\ step' = [step EXCEPT ![w] = step'[w]] /\ step'[w] \notin {"none", "killed"}
  /\ UNCHANGED <<main, parallel, pending, spawned, joined>>

(* There is a thread for each machine to provision.                        *)
LEMMA ThreadForEach ==
  ASSUME PendingFits
  PROVE  Len(pending) \in Nat /\ \A k \in 1 .. Len(pending) : k \in Thread
<1>1. Len(pending) \in Nat
  BY DEF PendingFits
<1>2. ASSUME NEW k \in 1 .. Len(pending)
      PROVE  k \in Thread
  BY <1>1, <1>2, ThreadsAssumption, IdAssumption DEF PendingFits, Thread
<1> QED
  BY <1>1, <1>2

(* The next chunk is not empty, and has its size or what is left.          *)
LEMMA NextChunk ==
  ASSUME ThreadsFit, PendingFits, spawned < Len(pending)
  PROVE  /\ ChunkEnd \in spawned + 1 .. Len(pending)
         /\ ChunkEnd <= spawned + Chunk
<1> DEFINE a == spawned + Chunk
           b == Len(pending)
<1>1. Chunk = ChunkSize /\ Chunk \in Nat /\ Chunk > 0 /\ b \in Nat /\ spawned \in Nat
  BY ThreadForEach DEF Chunk, ChunkSize, ThreadsFit
<1>2. a \in Nat /\ spawned < a /\ spawned < b
  BY <1>1
<1>3. ChunkEnd = Min({a, b})
  BY <1>1 DEF ChunkEnd
<1> HIDE DEF a, b
<1>4. PICK m \in {a, b} : m <= a /\ m <= b
  BY <1>1, <1>2
<1>5. Min({a, b}) \in {a, b} /\ Min({a, b}) <= a /\ Min({a, b}) <= b
  BY <1>4 DEF Min
<1> QED
  BY <1>1, <1>2, <1>3, <1>5 DEF a, b

(* What a thread, a provision command or the end of one does is a move.    *)
LEMMA WorkersMove ==
  ASSUME FleetInv, NEW w \in Worker,
         \/ StartThread(w) /\ w \in Thread
         \/ (CannotOpen(w) \/ LockResults(w) \/ PrintPanics(w)) /\ w \in Thread
         \/ CommandStep(w) /\ w \in Command
         \/ ProvisionStep(w) /\ UNCHANGED mainVars
         \/ w \in Command /\ \E i \in Id, names \in Requests : ProvisionCommand(w, i, names)
  PROVE  Moves(w) /\ (w \in Thread => step'[w] # "ended")
<1> USE DEF FleetInv
<1>1. ASSUME NEW i, NEW names, BeginProvision(w, i, names)
      PROVE  /\ step' = [step EXCEPT ![w] = step'[w]]
             /\ step'[w] \notin {"none", "killed", "ended"}
  BY <1>1, Zenon DEF BeginProvision, GuestsFit
<1>2. ASSUME ProvisionStep(w)
      PROVE  /\ step[w] \in Live /\ step' = [step EXCEPT ![w] = step'[w]]
             /\ step'[w] \notin {"none", "killed", "ended"}
  BY <1>2
  DEF ProvisionStep, InstallSucceeds, CommandFails, VerifySucceeds, NextComponent, Save,
      Settled, SaveFails, ExecPanics, GuestsFit, Live, Provisioning
<1>3. CASE StartThread(w) /\ w \in Thread
  BY <1>1, <1>3 DEF StartThread, Moves, Live, mainVars
<1>4. CASE (CannotOpen(w) \/ LockResults(w) \/ PrintPanics(w)) /\ w \in Thread
  BY <1>4
  DEF CannotOpen, LockResults, PrintPanics, Moves, Live, Provisioning, mainVars, GuestsFit
<1>5. CASE ProvisionStep(w) /\ UNCHANGED mainVars
  BY <1>2, <1>5 DEF Moves, mainVars
<1>6. CASE EndCommand(w) /\ UNCHANGED mainVars /\ w \in Command
  <2>1. /\ step[w] \in Live /\ step' = [step EXCEPT ![w] = step'[w]] /\ step'[w] = "ended"
    BY <1>6 DEF EndCommand, GuestsFit, Live
  <2> QED
    BY <1>6, <2>1 DEF Moves, mainVars, Command
<1>7. CASE w \in Command /\ \E i \in Id, names \in Requests : ProvisionCommand(w, i, names)
  BY <1>1, <1>7 DEF ProvisionCommand, Moves, mainVars, Command
<1> QED
  BY <1>3, <1>4, <1>5, <1>6, <1>7 DEF CommandStep

(* The main thread starts and joins threads; they only go on.              *)
LEMMA ThreadsKept ==
  ASSUME FleetInv, FleetNext
  PROVE  ThreadsFit'
<1> USE DEF FleetInv
<1>0. \A t \in Thread : t \in Worker /\ t \in Nat
  BY ThreadsAssumption DEF Thread
<1>1. ASSUME NEW w \in Worker, Moves(w)
      PROVE  ThreadsFit'
  <2>1. \A t \in Thread : IF t = w THEN step[t] \in Live /\ step'[t] \notin {"none", "killed"}
                                   ELSE step'[t] = step[t]
    BY <1>0, <1>1 DEF Moves, GuestsFit
  <2> QED
    BY <1>0, <1>1, <2>1 DEF ThreadsFit, Moves, Live, Provisioning, Chunk
<1>2. CASE CreateNextFails \/ StderrCloses \/ \E i \in Id : CreateNext(i)
  BY <1>2
  DEF ThreadsFit, CreateNextFails, StderrCloses, CreateNext, Chunk, mainVars, provisionVars
<1>3. CASE MarkFleet
  <2>1. Len(pending') \in Len(pending) .. Len(pending) + 1
    BY <1>3, Appended, ThreadForEach DEF MarkFleet, Enqueue, PendingFits
  <2> QED
    BY <1>3, <2>1, ThreadForEach DEF ThreadsFit, MarkFleet, Chunk
<1>4. CASE EndFirstPass
  BY <1>4 DEF ThreadsFit, EndFirstPass, Chunk, provisionVars
<1>5. CASE SpawnChunk
  <2>1. /\ ChunkEnd \in spawned + 1 .. Len(pending) /\ ChunkEnd <= spawned + Chunk
        /\ main = "provision" /\ joined = spawned /\ spawned' = ChunkEnd
        /\ UNCHANGED <<main, parallel, pending, joined>>
    BY <1>5, NextChunk DEF SpawnChunk
  <2>2. \A t \in Thread : step'[t] = IF t \in spawned + 1 .. spawned' THEN "start" ELSE step[t]
    BY <1>0, <1>5, <2>1, Zenon DEF SpawnChunk
  <2>3. Chunk' = Chunk
    BY <2>1 DEF Chunk
  <2> HIDE DEF FleetInv
  <2> QED
    BY <1>0, <2>1, <2>2, <2>3 DEF ThreadsFit, FleetInv
<1>6. CASE JoinNext
  BY <1>0, <1>6 DEF ThreadsFit, JoinNext, Chunk, provisionVars
<1>7. CASE Summarise
  BY <1>7 DEF ThreadsFit, Summarise, Chunk, provisionVars
<1>8. ASSUME NEW t \in Thread, Report(t)
      PROVE  ThreadsFit'
  BY <1>0, <1>1, <1>8 DEF Report, Moves, GuestsFit, Live
<1>9. CASE Dies
  <2>1. \A t \in Thread : step'[t] = IF step[t] \notin {"none", "ended", "panicked"}
                                       THEN "killed" ELSE step[t]
    BY <1>0, <1>9 DEF Dies
  <2> QED
    BY <1>9, <2>1 DEF ThreadsFit, Dies, Chunk
<1>10. CASE \/ \E i \in Id : Elsewhere(i) \/ DestroyTarget(i) \/ DestroyTargetFails(i)
            \/ \E g \in Group : ReadTargets(FALSE, g)
            \/ ReadTargets(TRUE, NoGroup)
  <2>1. UNCHANGED <<step, main, parallel, pending, spawned, joined>>
    BY <1>10, Zenon
    DEF Elsewhere, DestroyElsewhere, DestroyTarget, DestroyTargetFails, ReadTargets, mainVars,
        provisionVars
  <2> QED
    BY <2>1 DEF ThreadsFit, Chunk
<1>11. CASE \/ \E t \in Thread : \/ StartThread(t) \/ CannotOpen(t) \/ LockResults(t)
                                 \/ PrintPanics(t)
                                 \/ ProvisionStep(t) /\ UNCHANGED mainVars
            \/ \E w \in Command : \/ CommandStep(w)
                                  \/ \E i \in Id, names \in Requests :
                                       ProvisionCommand(w, i, names)
  BY <1>0, <1>1, <1>11, WorkersMove DEF Command
<1> QED
  BY <1>2, <1>3, <1>4, <1>5, <1>6, <1>7, <1>8, <1>9, <1>10, <1>11
  DEF FleetNext, MainStep, ThreadStep, Killed, MainPanics

(* Only threads that have begun or ended a provision have sets to count.   *)
LEMMA FiniteCounts ==
  ASSUME FleetInv, NEW S
  PROVE  IsFiniteSet(WithStatus(S)) /\ IsFiniteSet(PanicsSeen)
<1>1. IsFiniteSet(1 .. Len(pending)) /\ IsFiniteSet(1 .. joined)
  BY ThreadForEach, FS_Interval DEF FleetInv, ThreadsFit
<1> QED
  BY <1>1, FS_Subset DEF WithStatus, PanicsSeen

(* What is counted is the same when no thread ends, none that is joined    *)
(* changes, and the statuses stay.                                         *)
LEMMA SameCounts ==
  ASSUME FleetInv,
         UNCHANGED <<pending, joined, provisioned, provFailed>>,
         \A k \in 1 .. Len(pending) :
           /\ results'[pending[k].index].status = results[pending[k].index].status
           /\ step'[k] = "ended" <=> step[k] = "ended"
           /\ k <= joined => step'[k] = step[k]
  PROVE  CountsFit'
<1> USE DEF FleetInv
<1>1. PanicsSeen' = PanicsSeen
  BY ThreadForEach DEF PanicsSeen, ThreadsFit
<1>2. /\ WithStatus({"ok", "partial"})' = WithStatus({"ok", "partial"})
      /\ WithStatus({"error"})' = WithStatus({"error"})
  BY DEF WithStatus
<1> QED
  BY <1>1, <1>2 DEF CountsFit

(* Each report and each panic that is joined is counted once.              *)
LEMMA CountsKept ==
  ASSUME FleetInv, FleetNext
  PROVE  CountsFit'
<1> USE DEF FleetInv
<1>0. \A k \in 1 .. Len(pending) : k \in Thread /\ k \in Worker /\ k \in Nat
  BY ThreadForEach, ThreadsAssumption DEF Thread
<1>1. ASSUME NEW w \in Worker, Moves(w), w \in Thread => step'[w] # "ended",
             UNCHANGED <<results, provisioned, provFailed>>
      PROVE  CountsFit'
  <2>1. \A k \in 1 .. Len(pending) :
          IF k = w THEN step[k] \in Live /\ step'[k] # "ended" ELSE step'[k] = step[k]
    BY <1>0, <1>1 DEF Moves, GuestsFit
  <2>2. \A k \in 1 .. Len(pending) : k <= joined => step[k] \notin Live
    BY <1>0 DEF ThreadsFit, Live, Provisioning
  <2>3. "ended" \notin Live
    BY DEF Live, Provisioning
  <2> QED
    BY <1>1, <2>1, <2>2, <2>3, SameCounts DEF Moves
<1>2. CASE CreateNextFails
  <2>1. \A k \in 1 .. Len(pending) : results'[pending[k].index] = results[pending[k].index]
    BY <1>2 DEF CreateNextFails, PlanFits, PendingFits
  <2>2. UNCHANGED <<pending, joined, provisioned, provFailed, step>>
    BY <1>2 DEF CreateNextFails, mutexVars, provisionVars
  <2> QED
    BY <2>1, <2>2, SameCounts
<1>3. CASE MarkFleet
  <2> DEFINE n == Len(results) + 1
             e == [id |-> info, name |-> Current.provision, index |-> n]
  <2>1. /\ results' = Append(results, [id |-> info, status |-> "none"])
        /\ UNCHANGED <<joined, provisioned, provFailed, step>>
        /\ pending' = pending \/ pending' = Append(pending, e)
        /\ info = n /\ n \in Id /\ spawned = 0
    BY <1>3 DEF MarkFleet, mutexVars, PlanFits, ThreadsFit, Enqueue
  <2>2. \A k \in 1 .. Len(pending) : results'[pending[k].index] = results[pending[k].index]
    BY <2>1 DEF PlanFits, PendingFits
  <2>3. results'[n].status = "none"
    BY <2>1 DEF PlanFits
  <2>4. CASE pending' = pending
    BY <2>1, <2>2, <2>4, SameCounts
  <2>5. CASE pending' = Append(pending, e)
    <3> DEFINE m == Len(pending) + 1
    <3> HIDE DEF e
    <3>1. /\ m \in Nat /\ Len(pending') = m /\ pending'[m] = e
          /\ \A k \in 1 .. Len(pending) : pending'[k] = pending[k]
      BY <2>5, Appended, ThreadForEach DEF PendingFits
    <3>2. Len(pending) <= Len(results) /\ Len(results) \in Nat
      BY ThreadForEach DEF PendingFits, PlanFits
    <3>3. step[m] # "ended"
      <4>1. m \in 1 .. n /\ n \in Thread
        BY <2>1, <3>1, <3>2, IdAssumption DEF Thread
      <4>2. m \in Thread /\ m > spawned
        BY <2>1, <3>1, <4>1, ThreadsAssumption DEF Thread
      <4> QED
        BY <4>2 DEF ThreadsFit
    <3>4. results'[pending'[m].index].status = "none"
      BY <2>3, <3>1 DEF e
    <3>5. ASSUME NEW S, "none" \notin S
          PROVE  WithStatus(S)' = WithStatus(S)
      BY <2>2, <3>1, <3>4, <3>5, ThreadForEach DEF WithStatus
    <3>6. PanicsSeen' = PanicsSeen
      BY <2>1 DEF PanicsSeen
    <3>7. \A k \in 1 .. Len(pending') :
            results'[pending'[k].index].status = "none" <=> step'[k] # "ended"
      <4>1. \A k \in 1 .. Len(pending) :
              results'[pending'[k].index].status = "none" <=> step'[k] # "ended"
        BY <2>1, <2>2, <3>1 DEF CountsFit
      <4>2. \A k \in 1 .. m : k \in 1 .. Len(pending) \/ k = m
        BY <3>1, ThreadForEach
      <4>3. step'[m] # "ended"
        BY <2>1, <3>3
      <4> HIDE DEF m
      <4> QED
        BY <3>1, <3>4, <4>1, <4>2, <4>3
    <3> QED
      BY <2>1, <3>5, <3>6, <3>7 DEF CountsFit
  <2> QED
    BY <2>1, <2>4, <2>5
<1>4. CASE SpawnChunk
  <2>1. /\ \A k \in 1 .. Len(pending) :
             step'[k] = IF k \in spawned + 1 .. ChunkEnd THEN "start" ELSE step[k]
        /\ UNCHANGED <<pending, joined, results, provisioned, provFailed>>
    BY <1>0, <1>4 DEF SpawnChunk, mutexVars
  <2>2. \A k \in 1 .. Len(pending) : k \in spawned + 1 .. ChunkEnd => step[k] = "none" /\ k > joined
    BY <1>0 DEF ThreadsFit
  <2>3. \A k \in 1 .. Len(pending) :
          \/ step'[k] = step[k]
          \/ step'[k] = "start" /\ step[k] = "none" /\ k \in Nat /\ ~(k <= joined)
    BY <1>0, <2>1, <2>2 DEF ThreadsFit
  <2>4. \A k \in 1 .. Len(pending) :
          /\ step'[k] = "ended" <=> step[k] = "ended"
          /\ k <= joined => step'[k] = step[k]
    BY <2>3
  <2> QED
    BY <2>1, <2>4, SameCounts
<1>5. CASE JoinNext
  <2> DEFINE j == joined + 1
  <2>1. /\ UNCHANGED <<step, results, pending, provisioned>> /\ joined' = j
        /\ j \in 1 .. spawned
    BY <1>5 DEF JoinNext, provisionVars, ThreadsFit
  <2>2. WithStatus({"ok", "partial"})' = WithStatus({"ok", "partial"})
        /\ WithStatus({"error"})' = WithStatus({"error"})
    BY <2>1 DEF WithStatus
  <2>3. CASE step[j] = "ended" /\ UNCHANGED provFailed
    <3>1. PanicsSeen' = PanicsSeen
      BY <2>1, <2>3 DEF PanicsSeen, ThreadsFit
    <3> QED
      BY <2>1, <2>2, <2>3, <3>1 DEF CountsFit
  <2>4. CASE step[j] = "panicked" /\ provFailed' = provFailed + 1
    <3>1. PanicsSeen' = PanicsSeen \cup {j} /\ j \notin PanicsSeen
      BY <2>1, <2>4 DEF PanicsSeen, ThreadsFit
    <3>2. Cardinality(PanicsSeen') = Cardinality(PanicsSeen) + 1
      BY <3>1, FiniteCounts, FS_AddElement
    <3>3. Cardinality(WithStatus({"error"})) \in Nat /\ Cardinality(PanicsSeen) \in Nat
      BY FiniteCounts, FS_CardinalityType
    <3> QED
      BY <2>1, <2>2, <2>4, <3>2, <3>3 DEF CountsFit
  <2> QED
    BY <1>5, <2>3, <2>4 DEF JoinNext
<1>6. ASSUME NEW t \in Thread, Report(t)
      PROVE  CountsFit'
  <2> DEFINE x == pending[t].index
             s == Status(t)
  <2>1. t \in 1 .. Len(pending) /\ t \in Worker /\ t > joined
    BY <1>6, ThreadForEach, ThreadsAssumption DEF Report, ThreadsFit, Thread
  <2>2. x \in 1 .. Len(results) /\ \A k \in 1 .. Len(pending) : k # t => pending[k].index # x
    BY <2>1 DEF PendingFits, PlanFits
  <2>3. s \in {"ok", "partial", "error"}
    BY <1>6, <2>1 DEF Status, OutcomesFit, Report
  <2>4. /\ results' = [results EXCEPT ![x].status = s] /\ UNCHANGED <<pending, joined>>
        /\ step' = [step EXCEPT ![t] = "ended"] /\ step[t] = "report"
    BY <1>6 DEF Report
  <2>5. /\ results'[x].status = s
        /\ \A k \in 1 .. Len(pending) :
             k # t => results'[pending[k].index] = results[pending[k].index]
    <3>1. results[x] \in Result
      BY <2>2 DEF PlanFits
    <3>2. x \in DOMAIN results /\ DOMAIN results = 1 .. Len(results)
      BY <2>2 DEF PlanFits
    <3>3. results'[x] = [results[x] EXCEPT !.status = s]
      BY <2>4, <3>2
    <3>4. results'[x].status = s
      BY <3>1, <3>3, Zenon DEF Result
    <3>5. \A k \in 1 .. Len(pending) : pending[k].index \in DOMAIN results
      BY <3>2 DEF PendingFits
    <3> HIDE DEF x, s
    <3> QED
      BY <2>2, <2>4, <3>4, <3>5
  <2>6. t \notin WithStatus({"error"}) /\ t \notin WithStatus({"ok", "partial"})
    BY <2>1, <2>4 DEF WithStatus, CountsFit
  <2> HIDE DEF x, s
  <2>7. /\ step'[t] = "ended" /\ \A k \in 1 .. Len(pending) : k # t => step'[k] = step[k]
    BY <1>0, <2>1, <2>4 DEF GuestsFit
  <2>8. ASSUME NEW S, s \in S, "none" \notin S
        PROVE  WithStatus(S)' = WithStatus(S) \cup {t}
    BY <2>1, <2>4, <2>5, <2>8 DEF WithStatus, x
  <2>9. ASSUME NEW S, s \notin S, t \notin WithStatus(S)
        PROVE  WithStatus(S)' = WithStatus(S)
    BY <2>1, <2>4, <2>5, <2>9 DEF WithStatus, x
  <2>10. PanicsSeen' = PanicsSeen
    <3>1. \A k \in 1 .. joined : k \in 1 .. Len(pending) /\ k # t
      BY <2>1, ThreadForEach DEF ThreadsFit
    <3> QED
      BY <2>4, <2>7, <3>1 DEF PanicsSeen
  <2>11. \A k \in 1 .. Len(pending') :
           results'[pending'[k].index].status = "none" <=> step'[k] # "ended"
    <3>1. s # "none" /\ UNCHANGED pending
      BY <2>3, <2>4
    <3>2. results'[pending[t].index].status = s
      BY <2>5 DEF x
    <3>3. \A k \in 1 .. Len(pending) : k # t =>
            (results'[pending[k].index].status = "none" <=> step'[k] # "ended")
      BY <2>5, <2>7 DEF CountsFit
    <3> QED
      BY <2>7, <3>1, <3>2, <3>3
  <2>12. \A S : Cardinality(WithStatus(S)) \in Nat /\ Cardinality(PanicsSeen) \in Nat
    BY FiniteCounts, FS_CardinalityType
  <2>13. CASE s = "error"
    <3>1. Cardinality(WithStatus({"error"})') = Cardinality(WithStatus({"error"})) + 1
      BY <2>6, <2>8, <2>13, FiniteCounts, FS_AddElement
    <3>2. WithStatus({"ok", "partial"})' = WithStatus({"ok", "partial"})
      BY <2>6, <2>9, <2>13
    <3>3. provFailed' = provFailed + 1 /\ UNCHANGED provisioned
      BY <1>6, <2>13 DEF Report, s
    <3> QED
      BY <2>10, <2>11, <2>12, <3>1, <3>2, <3>3 DEF CountsFit
  <2>14. CASE s \in {"ok", "partial"}
    <3>1. Cardinality(WithStatus({"ok", "partial"})') =
            Cardinality(WithStatus({"ok", "partial"})) + 1
      BY <2>6, <2>8, <2>14, FiniteCounts, FS_AddElement
    <3>2. WithStatus({"error"})' = WithStatus({"error"})
      BY <2>6, <2>9, <2>14
    <3>3. provisioned' = provisioned + 1 /\ UNCHANGED provFailed
      BY <1>6, <2>14 DEF Report, s
    <3> QED
      BY <2>10, <2>11, <2>12, <3>1, <3>2, <3>3 DEF CountsFit
  <2> QED
    BY <2>3, <2>13, <2>14
<1>7. CASE Dies
  <2>1. /\ \A k \in 1 .. Len(pending) :
             step'[k] = IF step[k] \notin {"none", "ended", "panicked"} THEN "killed" ELSE step[k]
        /\ UNCHANGED <<pending, joined, results, provisioned, provFailed>>
    BY <1>0, <1>7 DEF Dies
  <2>2. \A k \in 1 .. Len(pending) : k <= joined => step'[k] = step[k]
    BY <1>0, <2>1 DEF ThreadsFit
  <2> QED
    BY <2>1, <2>2, SameCounts
<1>8. CASE UNCHANGED <<step, results, pending, joined, provisioned, provFailed>>
  BY <1>8, SameCounts
<1>9. CASE \/ EndFirstPass \/ Summarise \/ StderrCloses
           \/ \E i \in Id : \/ CreateNext(i) \/ Elsewhere(i) \/ DestroyTarget(i)
                            \/ DestroyTargetFails(i)
           \/ \E g \in Group : ReadTargets(FALSE, g)
           \/ ReadTargets(TRUE, NoGroup)
  BY <1>8, <1>9, Zenon
  DEF EndFirstPass, Summarise, StderrCloses, CreateNext, Elsewhere, DestroyElsewhere,
      DestroyTarget, DestroyTargetFails, ReadTargets, mainVars, mutexVars, provisionVars
<1>10. ASSUME NEW w \in Worker,
              \/ /\ w \in Thread
                 /\ \/ StartThread(w) \/ CannotOpen(w) \/ LockResults(w) \/ PrintPanics(w)
                    \/ ProvisionStep(w) /\ UNCHANGED <<mainVars, mutexVars, stderr, destroyer>>
              \/ w \in Command /\ CommandStep(w)
              \/ w \in Command /\ \E i \in Id, names \in Requests : ProvisionCommand(w, i, names)
       PROVE  CountsFit'
  <2>1. UNCHANGED <<results, provisioned, provFailed>>
    BY <1>10
    DEF StartThread, CannotOpen, LockResults, PrintPanics, CommandStep, ProvisionCommand,
        mainVars, mutexVars
  <2> QED
    BY <1>1, <1>10, <2>1, WorkersMove DEF mainVars
<1> QED
  BY <1>2, <1>3, <1>4, <1>5, <1>6, <1>7, <1>9, <1>10, ThreadsAssumption
  DEF FleetNext, MainStep, ThreadStep, Killed, MainPanics, Thread, Command
-----------------------------------------------------------------------------
(* Reports and fleet destroy                                               *)

(* Who may add a record, change a group, or add a result.                  *)
Quiet ==
  /\ UNCHANGED <<main, info, results, plan>>
  /\ unmarked \subseteq unmarked'
  /\ \A i \in Id : i \in Recorded' =>
       i \in Recorded /\ machines'[i].group = machines[i].group

(* What provisioning does to the records leaves their groups alone.        *)
LEMMA ProvisionIsQuiet ==
  ASSUME FleetInv, NEW w \in Worker, ProvisionStep(w)
  PROVE  \A i \in Id : i \in Recorded' =>
           i \in Recorded /\ machines'[i].group = machines[i].group
<1> USE DEF FleetInv
<1>1. CASE Save(w) /\ target[w] \in Recorded /\ ok[w] # <<>>
  <2> DEFINE i == target[w]
             m == machines[i]
             s == m.components \o ok[w]
  <2>1. /\ i \in Id /\ i \in DOMAIN machines /\ DOMAIN machines = Id
        /\ machines' = [machines EXCEPT ![i] = [m EXCEPT !.components = s]]
        /\ m = [group |-> m.group, components |-> m.components]
    BY <1>1 DEF GuestsFit, Save, Recorded
  <2> HIDE DEF m, s
  <2>2. [m EXCEPT !.components = s].group = m.group
    BY <2>1
  <2>3. \A j \in Id \ {i} : machines'[j] = machines[j]
    BY <2>1
  <2>4. machines'[i].group = machines[i].group
    BY <2>1, <2>2 DEF m
  <2> QED
    BY <1>1, <2>3, <2>4 DEF Recorded
<1>2. CASE UNCHANGED machines
  BY <1>2 DEF Recorded
<1> QED
  BY <1>1, <1>2
  DEF ProvisionStep, InstallSucceeds, CommandFails, VerifySucceeds, Save, SaveFails, ExecPanics

(* All but the steps of the first pass, reports and the end are quiet.     *)
LEMMA MostStepsAreQuiet ==
  ASSUME FleetInv,
         \/ SpawnChunk \/ JoinNext \/ StderrCloses
         \/ \E t \in Thread : \/ StartThread(t) \/ CannotOpen(t) \/ LockResults(t)
                              \/ PrintPanics(t)
                              \/ ProvisionStep(t) /\ UNCHANGED mainVars
         \/ \E w \in Command : CommandStep(w)
         \/ \E w \in Command, i \in Id, names \in Requests : ProvisionCommand(w, i, names)
         \/ \E i \in Id : Elsewhere(i) \/ DestroyTarget(i) \/ DestroyTargetFails(i)
         \/ \E g \in Group : ReadTargets(FALSE, g)
         \/ ReadTargets(TRUE, NoGroup)
  PROVE  Quiet
<1> USE DEF FleetInv
<1>1. CASE UNCHANGED <<machines, mainVars>>
  BY <1>1 DEF Quiet, Recorded, mainVars
<1>2. CASE SpawnChunk \/ JoinNext
  BY <1>2 DEF SpawnChunk, JoinNext, Quiet, Recorded, provisionVars
<1>3. CASE \/ StderrCloses
           \/ \E t \in Thread : \/ StartThread(t) \/ CannotOpen(t) \/ LockResults(t)
                                \/ PrintPanics(t)
           \/ \E w \in Command : EndCommand(w) /\ UNCHANGED mainVars
           \/ \E w \in Command, i \in Id, names \in Requests : ProvisionCommand(w, i, names)
           \/ \E i \in Id : DestroyTargetFails(i)
           \/ \E g \in Group : ReadTargets(FALSE, g)
           \/ ReadTargets(TRUE, NoGroup)
  BY <1>1, <1>3, Zenon
  DEF StderrCloses, StartThread, BeginProvision, CannotOpen, LockResults, PrintPanics,
      EndCommand, ProvisionCommand, DestroyTargetFails, ReadTargets, provisionVars
<1>4. ASSUME NEW w \in Worker, ProvisionStep(w), UNCHANGED mainVars
      PROVE  Quiet
  BY <1>4, ProvisionIsQuiet DEF Quiet, mainVars
<1>5. ASSUME NEW i \in Id, Elsewhere(i) \/ DestroyTarget(i)
      PROVE  Quiet
  <2>1. UNCHANGED mainVars /\ (UNCHANGED machines \/ machines' = [machines EXCEPT ![i] = Absent])
    BY <1>5 DEF Elsewhere, DestroyElsewhere, DestroyTarget
  <2> QED
    BY <2>1 DEF Quiet, Recorded, GuestsFit, mainVars
<1> QED
  BY <1>2, <1>3, <1>4, <1>5, ThreadsAssumption DEF CommandStep, Thread, Command, mainVars

(* A machine is marked before it is reported.                              *)
LEMMA ReportsKept ==
  ASSUME FleetInv, FleetNext
  PROVE  ReportsFit'
<1> USE DEF FleetInv
<1>0. /\ Len(results) \in Nat /\ DOMAIN results = 1 .. Len(results)
      /\ \A k \in 1 .. Len(results) : results[k].id = k \/ results[k].id = Absent
      /\ Absent \notin Id /\ Id \subseteq Nat
  BY AbsentAssumption, IdAssumption DEF PlanFits, ReportsFit
<1>1. CASE Quiet
  BY <1>0, <1>1 DEF ReportsFit, ReportedAreInTheirFleet, Quiet, Recorded
<1>2. ASSUME NEW i \in Id, CreateNext(i)
      PROVE  ReportsFit'
  <2>1. /\ i = Len(results) + 1 /\ main' = "mark" /\ UNCHANGED <<results, plan, unmarked>>
        /\ machines' = [machines EXCEPT ![i] = [group |-> NoGroup, components |-> <<>>]]
    BY <1>2 DEF CreateNext
  <2>2. /\ machines'[i].group = NoGroup
        /\ \A j \in Id \ {i} : machines'[j] = machines[j]
    BY <2>1 DEF GuestsFit
  <2> HIDE DEF FleetInv
  <2>3. ReportedAreInTheirFleet'
    BY <1>0, <2>1, <2>2 DEF ReportsFit, ReportedAreInTheirFleet, Recorded, FleetInv
  <2>4. \A j \in Recorded' : (j \in Recorded /\ machines'[j] = machines[j]) \/ j = i
    BY <2>2 DEF Recorded
  <2>5. main = "create"
    BY <1>2 DEF CreateNext
  <2> QED
    BY <1>0, <2>1, <2>2, <2>3, <2>4, <2>5 DEF ReportsFit, FleetInv
<1>3. CASE CreateNextFails
  <2>1. /\ results' = Append(results, [id |-> Absent, status |-> "none"])
        /\ UNCHANGED <<machines, main, plan, unmarked>> /\ main = "create"
    BY <1>3 DEF CreateNextFails, provisionVars
  <2>2. /\ Len(results') = Len(results) + 1 /\ DOMAIN results' = 1 .. Len(results')
        /\ results'[Len(results) + 1].id = Absent
        /\ \A k \in 1 .. Len(results) : results'[k] = results[k]
    BY <2>1 DEF PlanFits
  <2>3. \A k \in 1 .. Len(results') : k \in 1 .. Len(results) \/ k = Len(results')
    BY <1>0, <2>2
  <2>4. ReportedAreInTheirFleet'
    BY <1>0, <2>1, <2>2, <2>3 DEF ReportsFit, ReportedAreInTheirFleet, Recorded
  <2> QED
    BY <1>0, <2>1, <2>2, <2>3, <2>4 DEF ReportsFit, Recorded
<1>4. CASE MarkFleet
  <2> DEFINE n == Len(results) + 1
  <2>1. /\ results' = Append(results, [id |-> n, status |-> "none"])
        /\ UNCHANGED plan /\ info = n /\ n \in Id /\ main = "mark" /\ main' = "create"
    BY <1>4 DEF MarkFleet, PlanFits
  <2>2. /\ Len(results') = n /\ DOMAIN results' = 1 .. n /\ results'[n].id = n
        /\ \A k \in 1 .. Len(results) : results'[k] = results[k]
    BY <2>1 DEF PlanFits
  <2>3. /\ unmarked \subseteq unmarked'
        /\ \A j \in Id \ {n} : machines'[j] = machines[j]
        /\ \/ n \in unmarked' \/ n \notin Recorded' \/ machines'[n].group = plan[n].group
    <3>1. CASE machines' = SetFleetName(n) /\ UNCHANGED unmarked /\ n \in Recorded
      <4> DEFINE m == machines[n]
      <4>1. /\ machines' = [machines EXCEPT ![n] = [m EXCEPT !.group = Current.group]]
            /\ m = [group |-> m.group, components |-> m.components]
            /\ n \in DOMAIN machines /\ DOMAIN machines = Id
        BY <3>1 DEF SetFleetName, Recorded, GuestsFit
      <4> HIDE DEF m
      <4>2. [m EXCEPT !.group = Current.group].group = Current.group
        BY <4>1
      <4> QED
        BY <3>1, <4>1, <4>2 DEF Current
    <3>2. CASE UNCHANGED machines /\ (n \notin Recorded \/ unmarked' = unmarked \cup {n})
               /\ unmarked \subseteq unmarked'
      BY <3>2 DEF Recorded
    <3> QED
      BY <1>4, <2>1, <3>1, <3>2 DEF MarkFleet, SetFleetName
  <2> HIDE DEF FleetInv
  <2>4. \A k \in 1 .. n : (k \in 1 .. Len(results) /\ k # n) \/ k = n
    BY <1>0
  <2>5. ReportedAreInTheirFleet'
    BY <1>0, <2>1, <2>2, <2>3, <2>4 DEF FleetInv, ReportsFit, ReportedAreInTheirFleet, Recorded
  <2>6. \A j \in Recorded' : j \in Recorded \/ j = n
    BY <2>3 DEF Recorded
  <2>7. \A j \in Recorded' : j <= n
    BY <1>0, <2>6 DEF FleetInv, ReportsFit, Recorded
  <2>8. \A k \in 1 .. n : results'[k].id \in {k, Absent}
    BY <2>2, <2>4 DEF FleetInv, ReportsFit
  <2> QED
    BY <2>2, <2>5, <2>7, <2>8 DEF ReportsFit
<1>5. ASSUME NEW t \in Thread, Report(t)
      PROVE  ReportsFit'
  <2> DEFINE x == pending[t].index
  <2>1. t \in 1 .. Len(pending)
    BY <1>5, ThreadForEach DEF Report, ThreadsFit, Thread
  <2>2. /\ x \in 1 .. Len(results) /\ results[x] \in Result
        /\ results' = [results EXCEPT ![x] = [results[x] EXCEPT !.status = Status(t)]]
        /\ UNCHANGED <<machines, main, plan, unmarked>>
    BY <1>5, <2>1 DEF PendingFits, PlanFits, Report
  <2>3. [results[x] EXCEPT !.status = Status(t)].id = results[x].id
    BY <2>2 DEF Result
  <2>4. /\ Len(results') = Len(results) /\ DOMAIN results' = DOMAIN results
        /\ \A k \in 1 .. Len(results) : results'[k].id = results[k].id
    <3> HIDE DEF x
    <3> QED
      BY <1>0, <2>2, <2>3 DEF PlanFits
  <2> HIDE DEF FleetInv
  <2> QED
    BY <1>0, <2>2, <2>4 DEF FleetInv, ReportsFit, ReportedAreInTheirFleet, Recorded
<1>6. CASE EndFirstPass \/ Summarise \/ Dies
  <2>1. /\ UNCHANGED <<machines, results, plan, unmarked>>
        /\ main \in {"create", "provision"} \/ main' = "dead"
    BY <1>6 DEF EndFirstPass, Summarise, Dies, provisionVars
  <2> QED
    BY <1>0, <2>1 DEF ReportsFit, ReportedAreInTheirFleet, Recorded
<1> QED
  BY <1>1, <1>2, <1>3, <1>4, <1>5, <1>6, MostStepsAreQuiet
  DEF FleetNext, MainStep, ThreadStep, Killed, MainPanics

(* fleet destroy takes reported machines, which change their group never   *)
(* again, and puts each where it belongs.                                  *)
LEMMA DestroyerKept ==
  ASSUME FleetInv, FleetNext
  PROVE  DestroyerFits'
<1> USE DEF FleetInv
<1>0. /\ Len(results) \in Nat /\ Id \subseteq Nat
      /\ destroyer.left \subseteq destroyer.found /\ destroyer.destroyed \subseteq destroyer.found
      /\ destroyer.failed \subseteq destroyer.found /\ destroyer.found \subseteq Id
      /\ \A i \in destroyer.found : i <= Len(results)
  BY IdAssumption DEF PlanFits, DestroyerFits
<1>1. ASSUME UNCHANGED destroyer, Len(results') \in Nat, Len(results') >= Len(results),
             \A i \in Id : i \in Recorded' /\ i \in destroyer.found =>
               i \in Recorded /\ machines'[i].group = machines[i].group
      PROVE  DestroyerFits'
  <2>1. destroyer.destroyed \cap Recorded' \subseteq destroyer.marked
    BY <1>0, <1>1 DEF DestroyerFits, Recorded
  <2>2. \A i \in destroyer.left \cap Recorded' :
          destroyer.all \/ machines'[i].group = destroyer.group
    BY <1>0, <1>1 DEF DestroyerFits, Recorded
  <2>3. \A i \in destroyer.found : i <= Len(results')
    <3>1. \A i \in destroyer.found : i \in Nat /\ i <= Len(results)
      BY <1>0
    <3> QED
      BY <1>0, <1>1, <3>1
  <2> QED
    BY <1>1, <2>1, <2>2, <2>3 DEF DestroyerFits
<1>2. CASE Quiet /\ UNCHANGED destroyer
  BY <1>0, <1>1, <1>2 DEF Quiet
<1>3. ASSUME NEW n \in Nat, n = Len(results) + 1, UNCHANGED destroyer,
             Len(results') \in {Len(results), n},
             \A i \in Id \ {n} : machines'[i] = machines[i]
      PROVE  DestroyerFits'
  <2>1. n \notin destroyer.found
    BY <1>0, <1>3
  <2> QED
    BY <1>0, <1>1, <1>3, <2>1 DEF Recorded
<1>4. ASSUME NEW i \in Id, CreateNext(i)
      PROVE  DestroyerFits'
  BY <1>0, <1>3, <1>4 DEF CreateNext, GuestsFit
<1>5. CASE CreateNextFails
  BY <1>0, <1>3, <1>5 DEF CreateNextFails, provisionVars, PlanFits
<1>6. CASE MarkFleet
  <2>1. /\ info = Len(results) + 1 /\ Len(results') = Len(results) + 1 /\ UNCHANGED destroyer
        /\ \A i \in Id \ {info} : machines'[i] = machines[i]
    BY <1>6 DEF MarkFleet, SetFleetName, PlanFits, GuestsFit
  <2> QED
    BY <1>0, <1>3, <2>1
<1>7. ASSUME NEW t \in Thread, Report(t)
      PROVE  DestroyerFits'
  BY <1>0, <1>1, <1>7 DEF Report, Recorded, PlanFits
<1>8. CASE EndFirstPass \/ Summarise \/ Dies
  BY <1>0, <1>1, <1>8 DEF EndFirstPass, Summarise, Dies, Recorded, provisionVars
<1>9. ASSUME NEW all \in BOOLEAN, NEW g \in Group \cup {NoGroup}, ReadTargets(all, g)
      PROVE  DestroyerFits'
  <2> DEFINE T == {i \in Recorded : InFleet(i, all, g)}
  <2>1. /\ destroyer' = [destroyer EXCEPT !.left = T, !.found = T, !.all = all, !.group = g,
                                          !.at = IF T = {} THEN "done" ELSE "destroying"]
        /\ UNCHANGED <<machines, results>> /\ destroyer.at = "idle"
    BY <1>9 DEF ReadTargets, provisionVars, mainVars
  <2>2. \A i \in T : i \in Id /\ i \in Recorded /\ i <= Len(results)
                     /\ (all \/ machines[i].group = g)
    BY DEF InFleet, Recorded, ReportsFit
  <2>3. destroyer.destroyed = {} /\ destroyer.failed = {}
    BY <2>1 DEF DestroyerFits
  <2> HIDE DEF T
  <2> QED
    BY <2>1, <2>2, <2>3 DEF DestroyerFits, Recorded
<1>10. ASSUME NEW i \in Id, DestroyTarget(i) \/ DestroyTargetFails(i)
       PROVE  DestroyerFits'
  <2>1. /\ destroyer.at = "destroying" /\ i \in destroyer.left /\ UNCHANGED results
        /\ \A j \in Id \ {i} : machines'[j] = machines[j]
    BY <1>10
    DEF DestroyTarget, DestroyTargetFails, mainVars, provisionVars, GuestsFit
  <2>2. \/ i \notin Recorded' /\ destroyer' = [Gone(i) EXCEPT !.destroyed = @ \cup {i}]
        \/ destroyer' = [Gone(i) EXCEPT !.destroyed = @ \cup {i}, !.marked = @ \cup {i}]
        \/ destroyer' = [Gone(i) EXCEPT !.failed = @ \cup {i}]
    BY <1>10 DEF DestroyTarget, DestroyTargetFails, GuestsFit, Recorded
  <2> DEFINE d == destroyer
             e == destroyer'
  <2>4. /\ d \in [left : SUBSET Id, found : SUBSET Id, group : Group \cup {NoGroup},
                  all : BOOLEAN, destroyed : SUBSET Id, failed : SUBSET Id,
                  marked : SUBSET Id, at : {"idle", "destroying", "done"}]
        /\ i \in Id
    BY DEF DestroyerFits
  <2>5. /\ e \in [left : SUBSET Id, found : SUBSET Id, group : Group \cup {NoGroup},
                  all : BOOLEAN, destroyed : SUBSET Id, failed : SUBSET Id,
                  marked : SUBSET Id, at : {"idle", "destroying", "done"}]
        /\ e.left = d.left \ {i} /\ e.found = d.found /\ e.group = d.group /\ e.all = d.all
        /\ d.marked \subseteq e.marked
        /\ e.at = IF d.left = {i} THEN "done" ELSE d.at
        /\ \/ /\ i \notin Recorded' \/ i \in e.marked
              /\ e.destroyed = d.destroyed \cup {i} /\ e.failed = d.failed
           \/ e.failed = d.failed \cup {i} /\ e.destroyed = d.destroyed
    <3> DEFINE o == IF d.left = {i} THEN "done" ELSE d.at
               g == [d EXCEPT !.left = d.left \ {i}, !.at = o]
    <3>1. Gone(i) = g
      BY DEF Gone
    <3> HIDE DEF FleetInv, d, e
    <3>2. CASE i \notin Recorded' /\ e = [g EXCEPT !.destroyed = d.destroyed \cup {i}]
      BY <2>4, <3>2
    <3>3. CASE e = [g EXCEPT !.destroyed = d.destroyed \cup {i},
                             !.marked = d.marked \cup {i}]
      BY <2>4, <3>3
    <3>4. CASE e = [g EXCEPT !.failed = d.failed \cup {i}]
      BY <2>4, <3>4
    <3>5. g.destroyed = d.destroyed /\ g.marked = d.marked /\ g.failed = d.failed
      BY <2>4
    <3> HIDE DEF g
    <3>6. \/ i \notin Recorded' /\ e = [g EXCEPT !.destroyed = g.destroyed \cup {i}]
          \/ e = [g EXCEPT !.destroyed = g.destroyed \cup {i}, !.marked = g.marked \cup {i}]
          \/ e = [g EXCEPT !.failed = g.failed \cup {i}]
      BY <2>2, <3>1 DEF e
    <3> QED
      BY <3>2, <3>3, <3>4, <3>5, <3>6
  <2>3. \A j \in Recorded' : (j \in Recorded /\ machines'[j] = machines[j]) \/ j = i
    BY <2>1 DEF Recorded
  <2>6. /\ \A j \in e.found : j <= Len(results')
        /\ e.destroyed \cap Recorded' \subseteq e.marked
        /\ \A j \in e.left \cap Recorded' : e.all \/ machines'[j].group = e.group
    BY <1>0, <2>1, <2>3, <2>5 DEF DestroyerFits
  <2>7. /\ e.found = e.left \cup e.destroyed \cup e.failed
        /\ e.left \cap (e.destroyed \cup e.failed) = {} /\ e.destroyed \cap e.failed = {}
        /\ e.at # "idle" /\ (e.at = "done" => e.left = {})
    BY <2>1, <2>5 DEF DestroyerFits
  <2> QED
    BY <2>5, <2>6, <2>7 DEF DestroyerFits
<1>11. ASSUME \/ SpawnChunk \/ JoinNext \/ StderrCloses
              \/ \E t \in Thread : \/ StartThread(t) \/ CannotOpen(t) \/ LockResults(t)
                                   \/ PrintPanics(t)
                                   \/ /\ ProvisionStep(t)
                                      /\ UNCHANGED <<mainVars, mutexVars, stderr, destroyer>>
              \/ \E w \in Command : CommandStep(w)
              \/ \E w \in Command, i \in Id, names \in Requests : ProvisionCommand(w, i, names)
              \/ \E i \in Id : Elsewhere(i)
       PROVE  DestroyerFits'
  <2>1. UNCHANGED destroyer
    BY <1>11
    DEF SpawnChunk, JoinNext, StderrCloses, StartThread, CannotOpen, LockResults, PrintPanics,
        CommandStep, ProvisionCommand, Elsewhere
  <2> QED
    BY <1>2, <1>11, <2>1, MostStepsAreQuiet
<1> QED
  BY <1>4, <1>5, <1>6, <1>7, <1>8, <1>9, <1>10, <1>11
  DEF FleetNext, MainStep, ThreadStep, Killed, MainPanics
-----------------------------------------------------------------------------
(* The invariant and what follows from it                                  *)

(* The command begins on a host without machines.                          *)
LEMMA FleetInitInv == FleetInit => FleetInv
<1> SUFFICES ASSUME FleetInit PROVE FleetInv
  OBVIOUS
<1>1. Recorded = {}
  BY DEF FleetInit, ProvisionerInit, Recorded
<1>2. GuestsFit
  BY <1>1 DEF FleetInit, ProvisionerInit, GuestsFit, Steps, Provisioning
<1>3. OutcomesFit
  BY DEF FleetInit, ProvisionerInit, OutcomesFit
<1>4. PlanFits /\ PendingFits
  BY DEF FleetInit, PlanFits, PendingFits, ToSet
<1>5. ThreadsFit
  BY ScenesAssumption, ThreadsAssumption
  DEF FleetInit, ProvisionerInit, ThreadsFit, Thread, Chunk
<1>6. CountsFit
  <2>1. WithStatus({"ok", "partial"}) = {} /\ WithStatus({"error"}) = {}
    BY DEF FleetInit, WithStatus
  <2>2. PanicsSeen = {}
    BY DEF FleetInit, PanicsSeen
  <2>3. Cardinality({}) = 0
    BY FS_EmptySet
  <2> QED
    <3>1. 1 .. Len(pending) = {} /\ provisioned = 0 /\ provFailed = 0
      BY DEF FleetInit
    <3>2. /\ Cardinality(WithStatus({"ok", "partial"})) = 0
          /\ Cardinality(WithStatus({"error"})) = 0 /\ Cardinality(PanicsSeen) = 0
      BY <2>1, <2>2, <2>3
    <3> QED
      BY <3>1, <3>2 DEF CountsFit
<1>7. ReportsFit
  BY <1>1 DEF FleetInit, ReportsFit, ReportedAreInTheirFleet
<1>8. DestroyerFits
  BY <1>1 DEF FleetInit, DestroyerFits
<1> QED
  BY <1>2, <1>3, <1>4, <1>5, <1>6, <1>7, <1>8 DEF FleetInv

(* Every step keeps the invariant.                                         *)
LEMMA FleetNextInv == FleetInv /\ [FleetNext]_fleetVars => FleetInv'
<1> SUFFICES ASSUME FleetInv, [FleetNext]_fleetVars PROVE FleetInv'
  OBVIOUS
<1>1. CASE FleetNext
  BY <1>1, GuestsKept, OutcomesKept, PlanKept, PendingKept, ThreadsKept, CountsKept, ReportsKept,
     DestroyerKept DEF FleetInv
<1>2. CASE UNCHANGED fleetVars
  <2>1. (GuestsFit /\ OutcomesFit)'
    BY <1>2
    DEF FleetInv, GuestsFit, OutcomesFit, Recorded, fleetVars, provisionVars
  <2>2. (PlanFits /\ PendingFits /\ ThreadsFit)'
    BY <1>2
    DEF FleetInv, PlanFits, PendingFits, ThreadsFit, Chunk, fleetVars, provisionVars, mainVars
  <2>3. CountsFit'
    BY <1>2, SameCounts DEF fleetVars, provisionVars, mainVars, mutexVars
  <2>4. (ReportsFit /\ DestroyerFits)'
    BY <1>2
    DEF FleetInv, ReportsFit, ReportedAreInTheirFleet, DestroyerFits, Recorded, fleetVars,
        provisionVars, mainVars
  <2> QED
    BY <2>1, <2>2, <2>3, <2>4 DEF FleetInv
<1> QED
  BY <1>1, <1>2

(* FleetInv is invariant, for any file, --parallel and number of threads,  *)
(* with machines destroyed and provisioned meanwhile, threads that panic   *)
(* and a command that is killed anywhere (fleet.rs, provisioner.rs).       *)
THEOREM FleetInvariance == FleetSpec => []FleetInv
BY FleetInitInv, FleetNextInv, PTL DEF FleetSpec

(* What a record lists was verified in that machine                        *)
(* (provisioner.rs:117-127).                                               *)
THEOREM ComponentsAreInstalled == FleetSpec => []RecordedAreInstalled
<1>1. ASSUME NEW S, NEW s \in Seq(S)
      PROVE  ToSet(s) \subseteq S
  BY <1>1 DEF ToSet
<1>2. FleetInv => RecordedAreInstalled
  BY <1>1 DEF FleetInv, GuestsFit, RecordedAreInstalled
<1> QED
  BY <1>2, FleetInvariance, PTL

(* When all is reported each thread that was joined has ended, and then it *)
(* has a status, or panicked, and then it has none.                        *)
LEMMA SummaryFollows == FleetInv => SummaryAddsUp
<1> SUFFICES ASSUME FleetInv, main = "done" PROVE
      /\ created + failed = Len(plan)
      /\ provisioned = StatusCount({"ok", "partial"})
      /\ provFailed = StatusCount({"error", "none"})
  BY DEF SummaryAddsUp
<1> USE DEF FleetInv
<1> DEFINE E == WithStatus({"error"})
<1>1. DOMAIN pending = 1 .. Len(pending)
  BY DEF PendingFits
<1>2. \A S : StatusCount(S) = Cardinality(WithStatus(S))
  BY <1>1 DEF StatusCount, WithStatus
<1>3. PanicsSeen = {k \in 1 .. Len(pending) : results[pending[k].index].status = "none"}
  <2>1. joined = Len(pending)
    BY DEF ThreadsFit
  <2>2. \A k \in 1 .. Len(pending) : step[k] \in {"ended", "panicked"}
    BY <2>1, ThreadForEach DEF ThreadsFit
  <2> QED
    BY <2>1, <2>2 DEF PanicsSeen, CountsFit
<1>4. WithStatus({"error", "none"}) = E \cup PanicsSeen /\ E \cap PanicsSeen = {}
  BY <1>3 DEF WithStatus
<1>5. Cardinality(WithStatus({"error", "none"})) = Cardinality(E) + Cardinality(PanicsSeen)
  <2>1. /\ IsFiniteSet(E) /\ IsFiniteSet(PanicsSeen)
        /\ Cardinality(E) \in Nat /\ Cardinality(PanicsSeen) \in Nat
    BY FiniteCounts, FS_CardinalityType
  <2>2. Cardinality(E \cup PanicsSeen) =
          Cardinality(E) + Cardinality(PanicsSeen) - Cardinality(E \cap PanicsSeen)
    BY <2>1, FS_Union
  <2>3. Cardinality(E \cap PanicsSeen) = 0
    BY <1>4, FS_EmptySet
  <2>4. Cardinality(WithStatus({"error", "none"})) = Cardinality(E \cup PanicsSeen)
    BY <1>4
  <2> HIDE DEF E
  <2> QED
    BY <2>1, <2>2, <2>3, <2>4
<1> QED
  BY <1>2, <1>5 DEF PlanFits, CountsFit

(* The summary adds up, whatever threads failed or panicked                *)
(* (fleet.rs:395-404).                                                     *)
THEOREM SummaryIsRight == FleetSpec => []SummaryAddsUp
BY FleetInvariance, SummaryFollows, PTL

(* Those running are of the chunk that is spawned and not joined.          *)
LEMMA ChunksFollow == FleetInv => ChunksInTurn
<1> SUFFICES ASSUME FleetInv PROVE ChunksInTurn
  OBVIOUS
<1> USE DEF FleetInv
<1> DEFINE running == {t \in Thread : step[t] \in Provisioning \cup {"start", "settle", "report"}}
<1>1. \A t \in running : t \in Nat /\ t > joined /\ t <= spawned /\ main # "dead"
  BY DEF ThreadsFit, Thread, Provisioning
<1>2. running # {} => Len(results) = Len(plan)
  BY <1>1 DEF ThreadsFit, PlanFits
<1>3. Cardinality(running) <= Chunk
  <2>1. /\ joined \in Nat /\ spawned \in Nat /\ joined <= spawned
        /\ Chunk \in Nat /\ spawned <= joined + Chunk
    BY ThreadForEach DEF ThreadsFit, Chunk
  <2>2. running \subseteq joined + 1 .. spawned
    BY <1>1, <2>1
  <2>3. /\ IsFiniteSet(joined + 1 .. spawned)
        /\ Cardinality(joined + 1 .. spawned) = spawned - joined
    <3> DEFINE a == joined + 1
    <3>1. a \in Int /\ spawned \in Int
      BY <2>1
    <3> HIDE DEF a
    <3>2. /\ IsFiniteSet(a .. spawned)
          /\ Cardinality(a .. spawned) = IF a > spawned THEN 0 ELSE spawned - a + 1
      BY <3>1, FS_Interval
    <3> QED
      BY <2>1, <3>2 DEF a
  <2>4. /\ Cardinality(running) <= Cardinality(joined + 1 .. spawned)
        /\ Cardinality(running) \in Nat
    BY <2>2, <2>3, FS_Subset, FS_CardinalityType
  <2> QED
    BY <2>1, <2>3, <2>4
<1> QED
  BY <1>1, <1>2, <1>3 DEF ChunksInTurn, Chunk

(* Provisioning begins after the last create, and at most --parallel       *)
(* threads run, all of one chunk (fleet.rs:231-255).                       *)
THEOREM OneChunkAtATime == FleetSpec => []ChunksInTurn
BY FleetInvariance, ChunksFollow, PTL

(* A reported machine is found by a fleet destroy of its group             *)
(* (fleet.rs:174-187).                                                     *)
THEOREM ReportedAreFound == FleetSpec => []ReportedAreInTheirFleet
<1>1. FleetInv => ReportedAreInTheirFleet
  BY DEF FleetInv, ReportsFit
<1> QED
  BY <1>1, FleetInvariance, PTL

(* fleet destroy accounts for every machine it found (fleet.rs:482-527).   *)
THEOREM DestroyerAccounts == FleetSpec => []FleetDestroyAccounts
<1>1. FleetInv => FleetDestroyAccounts
  BY DEF FleetInv, DestroyerFits, FleetDestroyAccounts
<1> QED
  BY <1>1, FleetInvariance, PTL

(* Only a create adds a record: nothing saved late brings a machine back   *)
(* (provisioner.rs:117-127, fleet.rs:174-187).                             *)
THEOREM DestroyedStaysAway == FleetSpec => NoFleetResurrection
<1> DEFINE A == \A i \in Id : i \in Recorded' \ Recorded => main = "create" /\ main' = "mark"
<1>1. FleetInv /\ [FleetNext]_fleetVars => [A]_fleetVars
  <2> SUFFICES ASSUME FleetInv, FleetNext PROVE A
    OBVIOUS
  <2>1. ASSUME NEW i \in Id, CreateNext(i)
        PROVE  A
    BY <2>1 DEF CreateNext
  <2>2. CASE Quiet
    BY <2>2 DEF Quiet
  <2>3. CASE MarkFleet
    <3>1. \A i \in Id : i \in Recorded' => i \in Recorded
      <4>1. machines' = SetFleetName(info) \/ UNCHANGED machines
        BY <2>3 DEF MarkFleet
      <4> QED
        BY <4>1 DEF SetFleetName, Recorded, FleetInv, GuestsFit
    <3> QED
      BY <3>1
  <2>4. CASE \/ CreateNextFails \/ EndFirstPass \/ Summarise \/ Dies
             \/ \E t \in Thread : Report(t)
    BY <2>4
    DEF CreateNextFails, EndFirstPass, Summarise, Dies, Report, provisionVars, Recorded
  <2> QED
    BY <2>1, <2>2, <2>3, <2>4, MostStepsAreQuiet
    DEF FleetNext, MainStep, ThreadStep, Killed, MainPanics
<1> QED
  BY <1>1, FleetInvariance, PTL DEF FleetSpec, NoFleetResurrection

(* fleet destroy --name destroys machines of that group only               *)
(* (fleet.rs:455-467).                                                     *)
THEOREM OthersAreSpared == FleetSpec => OnlyItsGroupIsDestroyed
<1> DEFINE A == \A i \in Id : i \in destroyer'.destroyed \ destroyer.destroyed =>
                  destroyer.all \/ machines[i].group = destroyer.group
<1>1. FleetInv /\ [FleetNext]_fleetVars => [A]_fleetVars
  <2> SUFFICES ASSUME FleetInv, FleetNext PROVE A
    OBVIOUS
  <2>1. ASSUME NEW i \in Id, DestroyTarget(i)
        PROVE  A
    <3>1. /\ i \in destroyer.left \cap Recorded
          /\ destroyer'.destroyed = destroyer.destroyed \cup {i}
      BY <2>1 DEF DestroyTarget, Gone, FleetInv, DestroyerFits
    <3> QED
      BY <3>1 DEF FleetInv, DestroyerFits
  <2>2. CASE destroyer'.destroyed = destroyer.destroyed
    BY <2>2
  <2>3. ASSUME \/ \E i \in Id : DestroyTargetFails(i)
               \/ \E all \in BOOLEAN, g \in Group \cup {NoGroup} : ReadTargets(all, g)
        PROVE  destroyer'.destroyed = destroyer.destroyed
    BY <2>3 DEF DestroyTargetFails, ReadTargets, Gone, FleetInv, DestroyerFits
  <2>4. ASSUME \/ MainStep \/ Killed \/ StderrCloses
               \/ \E t \in Thread : ThreadStep(t)
               \/ \E w \in Command : CommandStep(w)
               \/ \E w \in Command, i \in Id, names \in Requests : ProvisionCommand(w, i, names)
               \/ \E i \in Id : Elsewhere(i)
        PROVE  UNCHANGED destroyer
    BY <2>4, Zenon
    DEF MainStep, Killed, StderrCloses, ThreadStep, CommandStep, ProvisionCommand, Elsewhere,
        CreateNext, CreateNextFails, MarkFleet, EndFirstPass, SpawnChunk, JoinNext, Summarise,
        MainPanics, Dies, StartThread, CannotOpen, LockResults, Report, PrintPanics
  <2> QED
    BY <2>1, <2>2, <2>3, <2>4 DEF FleetNext
<1> QED
  BY <1>1, FleetInvariance, PTL DEF FleetSpec, OnlyItsGroupIsDestroyed
-----------------------------------------------------------------------------
(* What was asked                                                          *)

Wanted(t) == ToSet(Resolved(<<pending[t].name>>))

(* The loop over the components ends when none is left.                    *)
WorkerFits(w) ==
  /\ todo[w] \in Seq(Component)
  /\ step[w] \in {"install", "verify"} => todo[w] # <<>>
  /\ step[w] = "save" => todo[w] = <<>>
  /\ step[w] \in {"none", "start"} => outcome[w] = "none"
  /\ step[w] \in Provisioning => outcome[w] \in {"none", "partial"}

(* As long as nothing has failed, what a thread's machine is to get is     *)
(* installed or still to do, and after the save it is in the record.       *)
ThreadFits(t) ==
  /\ step[t] \in Provisioning =>
       /\ target[t] = pending[t].id
       /\ outcome[t] = "none" => Wanted(t) \subseteq ToSet(ok[t]) \cup ToSet(todo[t])
  /\ step[t] \in {"settle", "report"} /\ outcome[t] = "ok" /\ pending[t].id \in Recorded =>
       Wanted(t) \subseteq ToSet(machines[pending[t].id].components)

InstallsFit ==
  /\ todo = [w \in Worker |-> todo[w]]
  /\ \A w \in Worker : WorkerFits(w)
  /\ \A t \in Thread : ThreadFits(t)
  /\ OkMeansRecorded

(* A record that is still there has what it had.                           *)
Keeps ==
  \A i \in Id : i \in Recorded' =>
    i \in Recorded /\ ToSet(machines[i].components) \subseteq ToSet(machines'[i].components)

(* Only a create adds a record, and only a save changes its components.    *)
LEMMA MostStepsKeep ==
  ASSUME FleetInv, FleetNext, \A i \in Id : ~CreateNext(i)
  PROVE  Keeps
<1> USE DEF FleetInv
<1>1. CASE UNCHANGED machines
  BY <1>1 DEF Keeps, Recorded
<1>2. ASSUME NEW i \in Id, machines' = [machines EXCEPT ![i] = Absent]
      PROVE  Keeps
  BY <1>2 DEF Keeps, Recorded, GuestsFit
<1>3. CASE MarkFleet
  <2>1. CASE machines' = SetFleetName(info) /\ info \in Recorded
    <3>1. machines' = [machines EXCEPT ![info].group = Current.group] /\ info \in Id
      BY <1>3, <2>1 DEF SetFleetName, Recorded
    <3>2. machines'[info].components = machines[info].components
      BY <2>1, <3>1 DEF GuestsFit
    <3> QED
      BY <2>1, <3>1, <3>2 DEF Keeps, Recorded, GuestsFit
  <2> QED
    BY <1>1, <1>3, <2>1 DEF MarkFleet, SetFleetName
<1>4. ASSUME NEW w \in Worker, ProvisionStep(w)
      PROVE  Keeps
  <2>1. CASE Save(w) /\ target[w] \in Recorded /\ ok[w] # <<>>
    <3> DEFINE i == target[w]
               m == machines[i]
               s == m.components \o ok[w]
    <3>1. /\ i \in Id /\ i \in DOMAIN machines /\ DOMAIN machines = Id
          /\ machines' = [machines EXCEPT ![i] = [m EXCEPT !.components = s]]
          /\ m = [group |-> m.group, components |-> m.components]
      BY <2>1 DEF GuestsFit, Save, Recorded
    <3>2. ToSet(m.components) \subseteq ToSet(s)
      <4>1. m.components \in Seq(verified[i]) /\ ok[w] \in Seq(verified[i])
        BY <2>1 DEF GuestsFit, Save, Provisioning
      <4> DEFINE a == m.components
                 b == ok[w]
      <4> HIDE DEF a, b
      <4>2. ToSet(a) \subseteq ToSet(a \o b)
        <5>1. a \in Seq(verified[i]) /\ b \in Seq(verified[i])
          BY <4>1 DEF a, b
        <5> QED
          BY <5>1 DEF ToSet
      <4> QED
        BY <4>2 DEF a, b
    <3> HIDE DEF m, s
    <3>3. [m EXCEPT !.components = s].components = s
      BY <3>1
    <3>4. \A j \in Id \ {i} : machines'[j] = machines[j]
      BY <3>1
    <3>5. machines'[i].components = s
      BY <3>1, <3>3
    <3> QED
      BY <2>1, <3>2, <3>4, <3>5 DEF Keeps, Recorded, m
  <2>2. CASE UNCHANGED machines
    BY <1>1, <2>2
  <2> QED
    BY <1>4, <2>1, <2>2
    DEF ProvisionStep, InstallSucceeds, CommandFails, VerifySucceeds, Save, SaveFails, ExecPanics
<1>5. ASSUME NEW i \in Id, Elsewhere(i) \/ DestroyTarget(i)
      PROVE  Keeps
  BY <1>1, <1>2, <1>5 DEF Elsewhere, DestroyElsewhere, DestroyTarget
<1>6. ASSUME \/ CreateNextFails \/ EndFirstPass \/ SpawnChunk \/ JoinNext \/ Summarise \/ Dies
             \/ StderrCloses
             \/ \E t \in Thread : \/ StartThread(t) \/ CannotOpen(t) \/ LockResults(t)
                                  \/ Report(t) \/ PrintPanics(t)
             \/ \E w \in Command : EndCommand(w)
             \/ \E w \in Command, i \in Id, names \in Requests : ProvisionCommand(w, i, names)
             \/ \E i \in Id : DestroyTargetFails(i)
             \/ \E g \in Group : ReadTargets(FALSE, g)
             \/ ReadTargets(TRUE, NoGroup)
      PROVE  UNCHANGED machines
  BY <1>6, Zenon
  DEF CreateNextFails, EndFirstPass, SpawnChunk, JoinNext, Summarise, Dies, StderrCloses,
      StartThread, BeginProvision, CannotOpen, LockResults, Report, PrintPanics, EndCommand,
      ProvisionCommand, DestroyTargetFails, ReadTargets, provisionVars
<1> QED
  BY <1>1, <1>3, <1>4, <1>5, <1>6, ThreadsAssumption
  DEF FleetNext, MainStep, ThreadStep, CommandStep, Killed, MainPanics, Thread, Command

(* One worker's step leaves the others as they are.                        *)
LEMMA OthersStay ==
  ASSUME FleetInv, InstallsFit, Keeps, NEW w \in Worker,
         UNCHANGED <<pending, results>>,
         todo' = [todo EXCEPT ![w] = todo'[w]],
         \A v \in Worker \ {w} : /\ step'[v] = step[v] /\ target'[v] = target[v]
                                 /\ ok'[v] = ok[v] /\ outcome'[v] = outcome[v],
         WorkerFits(w)', w \in Thread => ThreadFits(w)'
  PROVE  InstallsFit'
<1>1. \A v \in Worker \ {w} : todo'[v] = todo[v]
  BY DEF InstallsFit
<1>2. \A v \in Worker : WorkerFits(v)'
  BY <1>1 DEF InstallsFit, WorkerFits
<1>3. ASSUME NEW t \in Thread
      PROVE  ThreadFits(t)'
  <2>1. CASE t = w
    BY <2>1
  <2>2. CASE t # w
    <3>1. t \in Worker \ {w}
      BY <2>2, ThreadsAssumption DEF Thread
    <3>2. Wanted(t)' = Wanted(t)
      BY DEF Wanted
    <3> QED
      BY <1>1, <3>1, <3>2 DEF InstallsFit, ThreadFits, Keeps, Recorded
  <2> QED
    BY <2>1, <2>2
<1>4. OkMeansRecorded'
  BY DEF OkMeansRecorded, InstallsFit, Keeps, Recorded
<1>5. todo' = [v \in Worker |-> todo'[v]]
  BY DEF InstallsFit
<1> QED
  BY <1>2, <1>3, <1>4, <1>5 DEF InstallsFit

(* A step of a provision.                                                  *)
LEMMA ProvisionInstalls ==
  ASSUME FleetInv, InstallsFit, Keeps, NEW w \in Worker, ProvisionStep(w),
         UNCHANGED <<pending, results>>
  PROVE  InstallsFit'
<1> USE DEF FleetInv
<1> DEFINE s == todo[w]
<1>0. /\ s \in Seq(Component) /\ todo = [v \in Worker |-> todo[v]]
      /\ step[w] \in {"install", "verify"} => s # <<>>
      /\ step[w] = "save" => s = <<>>
      /\ step[w] \in Provisioning => outcome[w] \in {"none", "partial"}
      /\ w \in Thread => ThreadFits(w)
  BY DEF InstallsFit, WorkerFits
<1>1. s # <<>> => /\ Tail(s) \in Seq(Component) /\ Head(s) \in Component
                  /\ (Len(s) = 1 <=> Tail(s) = <<>>)
                  /\ ToSet(s) = {Head(s)} \cup ToSet(Tail(s))
  <2> HIDE DEF s
  <2>1. ASSUME s # <<>>
        PROVE  /\ Tail(s) \in Seq(Component) /\ Head(s) \in Component
               /\ Len(Tail(s)) = Len(s) - 1 /\ Len(s) \in Nat \ {0}
               /\ s[1] = Head(s)
               /\ \A k \in 1 .. Len(s) - 1 : Tail(s)[k] = s[k + 1]
    BY <1>0, <2>1
  <2>2. ASSUME s # <<>>
        PROVE  ToSet(s) = {Head(s)} \cup ToSet(Tail(s))
    <3>1. \A k \in 1 .. Len(s) : k = 1 \/ k - 1 \in 1 .. Len(s) - 1
      BY <2>1, <2>2
    <3>2. \A k \in 1 .. Len(s) : s[k] \in {Head(s)} \cup ToSet(Tail(s))
      <4> DEFINE r == Tail(s)
      <4>0. r \in Seq(Component) /\ Len(r) = Len(s) - 1
        BY <2>1, <2>2
      <4>1. \A j \in 1 .. Len(s) - 1 : r[j] \in ToSet(r)
        <5> HIDE DEF r
        <5> QED
          BY <4>0 DEF ToSet
      <4>2. \A k \in 1 .. Len(s) : k = 1 \/ s[k] = r[k - 1]
        BY <2>1, <2>2, <3>1
      <4>3. s[1] = Head(s)
        BY <2>1, <2>2
      <4> HIDE DEF r
      <4>4. \A k \in 1 .. Len(s) : s[k] \in {Head(s)} \cup ToSet(r)
        BY <3>1, <4>1, <4>2, <4>3
      <4> QED
        BY <4>4 DEF r
    <3>3. {Head(s)} \cup ToSet(Tail(s)) \subseteq ToSet(s)
      BY <1>0, <2>1, <2>2 DEF ToSet
    <3> QED
      BY <1>0, <3>2, <3>3 DEF ToSet
  <2>3. \A t \in Seq(Component) : Len(t) = 0 <=> t = <<>>
    OBVIOUS
  <2>4. s # <<>> => (Len(s) = 1 <=> Tail(s) = <<>>)
    <3> DEFINE r == Tail(s)
    <3>1. s # <<>> => r \in Seq(Component) /\ Len(r) = Len(s) - 1 /\ Len(s) \in Nat
      BY <2>1
    <3> HIDE DEF r
    <3>2. ASSUME s # <<>>
          PROVE  Len(s) = 1 <=> r = <<>>
      <4>1. Len(s) = 1 <=> Len(r) = 0
        <5> DEFINE m == Len(s)
                   n == Len(r)
        <5>1. m \in Nat /\ n = m - 1
          BY <3>1, <3>2
        <5> HIDE DEF m, n
        <5>2. m = 1 <=> n = 0
          BY <5>1
        <5> QED
          BY <5>2 DEF m, n
      <4>2. Len(r) = 0 <=> r = <<>>
        BY <2>3, <3>1, <3>2
      <4> QED
        BY <4>1, <4>2
    <3> QED
      BY <3>2 DEF r
  <2> QED
    BY <2>1, <2>2, <2>4
<1>2. CASE InstallSucceeds(w)
  <2>1. /\ step' = [step EXCEPT ![w] = "verify"] /\ step[w] = "install"
        /\ UNCHANGED <<machines, target, todo, ok, outcome>>
    BY <1>2 DEF InstallSucceeds
  <2>2. WorkerFits(w)'
    BY <1>0, <2>1 DEF WorkerFits, GuestsFit, OutcomesFit, Provisioning
  <2>3. w \in Thread => ThreadFits(w)'
    BY <1>0, <2>1 DEF ThreadFits, GuestsFit, Provisioning, Wanted
  <2>4. \A v \in Worker \ {w} : /\ step'[v] = step[v] /\ target'[v] = target[v]
                                 /\ ok'[v] = ok[v] /\ outcome'[v] = outcome[v]
    BY <2>1 DEF GuestsFit, OutcomesFit
  <2>5. todo' = [todo EXCEPT ![w] = todo'[w]]
    BY <1>0, <2>1
  <2> QED
    BY <2>2, <2>3, <2>4, <2>5, OthersStay
<1>3. CASE CommandFails(w)
  <2>1. /\ step' = [step EXCEPT ![w] = IF Len(s) = 1 THEN "save" ELSE "install"]
        /\ step[w] \in {"install", "verify"}
        /\ todo' = [todo EXCEPT ![w] = Tail(s)] /\ outcome' = [outcome EXCEPT ![w] = "partial"]
        /\ UNCHANGED <<machines, target, ok>>
    BY <1>3 DEF CommandFails, NextComponent
  <2>2. WorkerFits(w)'
    BY <1>0, <1>1, <2>1 DEF WorkerFits, GuestsFit, OutcomesFit, Provisioning
  <2>3. w \in Thread => ThreadFits(w)'
    BY <1>0, <2>1 DEF ThreadFits, GuestsFit, OutcomesFit, Provisioning, Wanted
  <2>4. \A v \in Worker \ {w} : /\ step'[v] = step[v] /\ target'[v] = target[v]
                                 /\ ok'[v] = ok[v] /\ outcome'[v] = outcome[v]
    BY <2>1 DEF GuestsFit, OutcomesFit
  <2>5. todo' = [todo EXCEPT ![w] = todo'[w]]
    BY <1>0, <2>1
  <2> QED
    BY <2>2, <2>3, <2>4, <2>5, OthersStay
<1>4. CASE VerifySucceeds(w)
  <2>1. /\ step' = [step EXCEPT ![w] = IF Len(s) = 1 THEN "save" ELSE "install"]
        /\ step[w] = "verify"
        /\ todo' = [todo EXCEPT ![w] = Tail(s)] /\ ok' = [ok EXCEPT ![w] = Append(ok[w], Head(s))]
        /\ UNCHANGED <<machines, target, outcome>>
    BY <1>4 DEF VerifySucceeds, NextComponent
  <2>2. WorkerFits(w)'
    BY <1>0, <1>1, <2>1 DEF WorkerFits, GuestsFit, OutcomesFit, Provisioning
  <2>3. ToSet(ok'[w]) = ToSet(ok[w]) \cup {Head(s)}
    <3> DEFINE a == ok[w]
               V == verified[target[w]] \cup {Head(s)}
    <3>1. a \in Seq(V) /\ Head(s) \in V /\ ok'[w] = Append(a, Head(s))
      <4>1. ok[w] \in Seq(verified[target[w]]) /\ w \in DOMAIN ok
        BY <2>1 DEF GuestsFit, Provisioning
      <4> QED
        BY <2>1, <4>1
    <3> HIDE DEF a, V
    <3>2. ToSet(Append(a, Head(s))) = ToSet(a) \cup {Head(s)}
      BY <3>1 DEF ToSet
    <3> QED
      BY <3>1, <3>2 DEF a
  <2>4. /\ todo'[w] = Tail(s) /\ step'[w] \in {"save", "install"}
        /\ ToSet(s) = {Head(s)} \cup ToSet(Tail(s))
    BY <1>0, <1>1, <2>1 DEF GuestsFit
  <2>5. w \in Thread => ThreadFits(w)'
    BY <1>0, <2>1, <2>3, <2>4 DEF ThreadFits, Provisioning, Wanted
  <2>6. \A v \in Worker \ {w} : /\ step'[v] = step[v] /\ target'[v] = target[v]
                                 /\ ok'[v] = ok[v] /\ outcome'[v] = outcome[v]
    BY <2>1 DEF GuestsFit
  <2>7. todo' = [todo EXCEPT ![w] = todo'[w]]
    BY <1>0, <2>1
  <2> QED
    BY <2>2, <2>5, <2>6, <2>7, OthersStay
<1>5. CASE Save(w)
  <2>1. /\ step' = [step EXCEPT ![w] = "settle"] /\ step[w] = "save"
        /\ outcome' = [outcome EXCEPT ![w] = IF outcome[w] = "none" THEN "ok" ELSE outcome[w]]
        /\ ok' = [ok EXCEPT ![w] = <<>>]
        /\ UNCHANGED <<todo, target>>
    BY <1>5 DEF Save, Settled
  <2>2. WorkerFits(w)'
    BY <1>0, <2>1 DEF WorkerFits, GuestsFit, OutcomesFit, Provisioning
  <2>3. ASSUME w \in Thread
        PROVE  ThreadFits(w)'
    <3> DEFINE i == target[w]
    <3>1. /\ i = pending[w].id /\ i \in Id
          /\ outcome[w] = "none" => Wanted(w) \subseteq ToSet(ok[w])
      BY <1>0, <2>1, <2>3 DEF ThreadFits, GuestsFit, Provisioning, ToSet
    <3>2. ASSUME outcome'[w] = "ok", i \in Recorded'
          PROVE  ToSet(ok[w]) \subseteq ToSet(machines'[i].components)
      <4>1. CASE ok[w] = <<>>
        BY <4>1 DEF ToSet
      <4>2. CASE ok[w] # <<>>
        <5>1. i \in Recorded
          BY <3>1, <3>2 DEF Keeps
        <5> DEFINE a == machines[i].components
                   b == ok[w]
        <5>2. machines' = [machines EXCEPT ![i].components = a \o b]
          BY <1>5, <4>2, <5>1 DEF Save
        <5>3. a \in Seq(verified[i]) /\ b \in Seq(verified[i]) /\ i \in DOMAIN machines
              /\ machines[i] = [group |-> machines[i].group, components |-> a]
          BY <2>1, <3>1, <5>1 DEF GuestsFit, Provisioning
        <5>4. machines'[i].components = a \o b
          <6> HIDE DEF a, b
          <6> QED
            BY <5>2, <5>3
        <5>5. ToSet(b) \subseteq ToSet(a \o b)
          <6> HIDE DEF a, b
          <6>1. /\ Len(a) \in Nat /\ Len(b) \in Nat
                /\ DOMAIN b = 1 .. Len(b) /\ DOMAIN (a \o b) = 1 .. Len(a) + Len(b)
                /\ \A k \in 1 .. Len(b) : (a \o b)[Len(a) + k] = b[k]
            BY <5>3
          <6> QED
            BY <6>1 DEF ToSet
        <5> QED
          BY <5>4, <5>5
      <4> QED
        BY <4>1, <4>2
    <3>3. step'[w] = "settle" /\ (outcome'[w] = "ok" => outcome[w] \in {"none", "ok"})
      BY <2>1 DEF GuestsFit, OutcomesFit
    <3>4. outcome[w] # "ok"
      BY <1>0, <2>1 DEF Provisioning
    <3> QED
      BY <3>1, <3>2, <3>3, <3>4 DEF ThreadFits, Provisioning, Wanted
  <2>4. \A v \in Worker \ {w} : /\ step'[v] = step[v] /\ target'[v] = target[v]
                                 /\ ok'[v] = ok[v] /\ outcome'[v] = outcome[v]
    BY <2>1 DEF GuestsFit, OutcomesFit
  <2>5. todo' = [todo EXCEPT ![w] = todo'[w]]
    BY <1>0, <2>1
  <2> QED
    BY <2>2, <2>3, <2>4, <2>5, OthersStay
<1>6. CASE SaveFails(w)
  <2>1. /\ step' = [step EXCEPT ![w] = "settle"] /\ step[w] = "save"
        /\ outcome' = [outcome EXCEPT ![w] = "error"]
        /\ ok' = [ok EXCEPT ![w] = <<>>]
        /\ UNCHANGED <<machines, todo, target>>
    BY <1>6 DEF SaveFails
  <2>2. WorkerFits(w)'
    BY <1>0, <2>1 DEF WorkerFits, GuestsFit, OutcomesFit, Provisioning
  <2>3. w \in Thread => ThreadFits(w)'
    BY <1>0, <2>1 DEF ThreadFits, GuestsFit, OutcomesFit, Provisioning
  <2>4. \A v \in Worker \ {w} : /\ step'[v] = step[v] /\ target'[v] = target[v]
                                 /\ ok'[v] = ok[v] /\ outcome'[v] = outcome[v]
    BY <2>1 DEF GuestsFit, OutcomesFit
  <2>5. todo' = [todo EXCEPT ![w] = todo'[w]]
    BY <1>0, <2>1
  <2> QED
    BY <2>2, <2>3, <2>4, <2>5, OthersStay
<1>7. CASE ExecPanics(w)
  <2>1. /\ step' = [step EXCEPT ![w] = "panicked"]
        /\ todo' = [todo EXCEPT ![w] = <<>>] /\ ok' = [ok EXCEPT ![w] = <<>>]
        /\ outcome' = [outcome EXCEPT ![w] = "none"]
        /\ UNCHANGED <<machines, target>>
    BY <1>7 DEF ExecPanics
  <2>2. WorkerFits(w)'
    BY <1>0, <2>1, SeqFacts DEF WorkerFits, GuestsFit, OutcomesFit, Provisioning
  <2>3. w \in Thread => ThreadFits(w)'
    BY <1>0, <2>1 DEF ThreadFits, GuestsFit, Provisioning
  <2>4. \A v \in Worker \ {w} : /\ step'[v] = step[v] /\ target'[v] = target[v]
                                 /\ ok'[v] = ok[v] /\ outcome'[v] = outcome[v]
    BY <2>1 DEF GuestsFit, OutcomesFit
  <2>5. todo' = [todo EXCEPT ![w] = todo'[w]]
    BY <1>0, <2>1
  <2> QED
    BY <2>2, <2>3, <2>4, <2>5, OthersStay
<1> QED
  BY <1>2, <1>3, <1>4, <1>5, <1>6, <1>7 DEF ProvisionStep

(* What a worker begins with is all that was asked for.                    *)
LEMMA BeginInstalls ==
  ASSUME FleetInv, InstallsFit, NEW w \in Worker, NEW i \in Id,
         NEW names, names \in Seq(ToSet(names)), BeginProvision(w, i, names),
         step[w] \in {"none", "start"},
         w \in Thread => i = pending[w].id /\ names = <<pending[w].name>>,
         UNCHANGED <<pending, results>>
  PROVE  InstallsFit'
<1>0. /\ todo = [v \in Worker |-> todo[v]] /\ todo[w] \in Seq(Component)
      /\ outcome[w] = "none"
      /\ step \in [Worker -> Steps] /\ target = [v \in Worker |-> target[v]]
      /\ ok = [v \in Worker |-> ok[v]] /\ outcome = [v \in Worker |-> outcome[v]]
  BY DEF InstallsFit, WorkerFits, FleetInv, GuestsFit, OutcomesFit
<1>1. Keeps
  BY DEF BeginProvision, Keeps, Recorded
<1>2. target' = [target EXCEPT ![w] = i] /\ UNCHANGED <<machines, ok>>
  BY DEF BeginProvision
<1>3. CASE \A n \in DOMAIN names : Known(names[n])
  <2> DEFINE r == Resolved(names)
  <2>1. /\ todo' = [todo EXCEPT ![w] = r] /\ UNCHANGED outcome
        /\ step' = [step EXCEPT ![w] = IF r = <<>> THEN "save" ELSE "install"]
    BY <1>3, Zenon DEF BeginProvision
  <2>2. r \in Seq(Component)
    BY <1>3, ResolvedOnce
  <2>3. w \in Thread => ToSet(r) = Wanted(w)'
    BY DEF Wanted
  <2> HIDE DEF r
  <2>4. WorkerFits(w)'
    BY <1>0, <2>1, <2>2 DEF WorkerFits, Provisioning
  <2>5. w \in Thread => ThreadFits(w)'
    BY <1>0, <1>2, <2>1, <2>3 DEF ThreadFits, Provisioning
  <2>6. \A v \in Worker \ {w} : /\ step'[v] = step[v] /\ target'[v] = target[v]
                                /\ ok'[v] = ok[v] /\ outcome'[v] = outcome[v]
    BY <1>0, <1>2, <2>1
  <2>7. todo' = [todo EXCEPT ![w] = todo'[w]]
    BY <1>0, <2>1
  <2> QED
    BY <1>1, <2>4, <2>5, <2>6, <2>7, OthersStay
<1>4. CASE ~\A n \in DOMAIN names : Known(names[n])
  <2>1. /\ outcome' = [outcome EXCEPT ![w] = "error"] /\ UNCHANGED todo
        /\ step' = [step EXCEPT ![w] = "settle"]
    BY <1>4, Zenon DEF BeginProvision
  <2>2. WorkerFits(w)'
    BY <1>0, <2>1 DEF WorkerFits, Provisioning
  <2>3. w \in Thread => ThreadFits(w)'
    BY <1>0, <2>1 DEF ThreadFits, Provisioning
  <2>4. \A v \in Worker \ {w} : /\ step'[v] = step[v] /\ target'[v] = target[v]
                                /\ ok'[v] = ok[v] /\ outcome'[v] = outcome[v]
    BY <1>0, <1>2, <2>1
  <2>5. todo' = [todo EXCEPT ![w] = todo'[w]]
    BY <1>0, <2>1
  <2> QED
    BY <1>1, <2>2, <2>3, <2>4, <2>5, OthersStay
<1> QED
  BY <1>3, <1>4

(* The steps of a thread or a command that install nothing.                *)
LEMMA EndsInstall ==
  ASSUME FleetInv, InstallsFit, NEW w \in Worker,
         \/ w \in Thread /\ (CannotOpen(w) \/ LockResults(w) \/ PrintPanics(w))
         \/ w \in Command /\ EndCommand(w) /\ UNCHANGED mainVars
  PROVE  InstallsFit'
<1>0. /\ todo = [v \in Worker |-> todo[v]] /\ WorkerFits(w)
      /\ (w \in Thread => ThreadFits(w))
      /\ step \in [Worker -> Steps] /\ target = [v \in Worker |-> target[v]]
      /\ ok = [v \in Worker |-> ok[v]] /\ outcome = [v \in Worker |-> outcome[v]]
  BY DEF InstallsFit, FleetInv, GuestsFit, OutcomesFit
<1>1. UNCHANGED <<machines, pending, results>>
  BY Zenon DEF CannotOpen, LockResults, PrintPanics, EndCommand, mainVars
<1>2. Keeps
  BY <1>1 DEF Keeps, Recorded
<1>3. CASE CannotOpen(w)
  <2>1. /\ step' = [step EXCEPT ![w] = "settle"]
        /\ outcome' = [outcome EXCEPT ![w] = "unopened"] /\ UNCHANGED <<todo, ok, target>>
    BY <1>3 DEF CannotOpen
  <2>2. WorkerFits(w)' /\ ThreadFits(w)'
    BY <1>0, <2>1 DEF WorkerFits, ThreadFits, Provisioning
  <2> QED
    BY <1>0, <1>1, <1>2, <2>1, <2>2, OthersStay
<1>4. CASE LockResults(w)
  <2>1. CASE poisoned
    <3>1. /\ step' = [step EXCEPT ![w] = "panicked"]
          /\ outcome' = [outcome EXCEPT ![w] = "none"] /\ UNCHANGED <<todo, ok, target>>
      BY <1>4, <2>1 DEF LockResults
    <3>2. WorkerFits(w)' /\ ThreadFits(w)'
      BY <1>0, <3>1 DEF WorkerFits, ThreadFits, Provisioning
    <3> QED
      BY <1>0, <1>1, <1>2, <3>1, <3>2, OthersStay
  <2>2. CASE ~poisoned
    <3>1. /\ step' = [step EXCEPT ![w] = "report"] /\ step[w] = "settle"
          /\ UNCHANGED <<todo, ok, target, outcome>>
      BY <1>4, <2>2 DEF LockResults
    <3>2. WorkerFits(w)' /\ (w \in Thread => ThreadFits(w)')
      BY <1>0, <1>1, <3>1 DEF WorkerFits, ThreadFits, Provisioning, Wanted, Recorded
    <3> QED
      BY <1>0, <1>1, <1>2, <3>1, <3>2, OthersStay
  <2> QED
    BY <2>1, <2>2
<1>5. CASE PrintPanics(w)
  <2>1. /\ step' = [step EXCEPT ![w] = "panicked"]
        /\ todo' = [todo EXCEPT ![w] = <<>>] /\ ok' = [ok EXCEPT ![w] = <<>>]
        /\ outcome' = [outcome EXCEPT ![w] = "none"] /\ UNCHANGED target
    BY <1>5 DEF PrintPanics, Forgotten
  <2>2. WorkerFits(w)' /\ ThreadFits(w)'
    BY <1>0, <2>1, SeqFacts DEF WorkerFits, ThreadFits, Provisioning
  <2> QED
    BY <1>0, <1>1, <1>2, <2>1, <2>2, OthersStay
<1>6. CASE w \in Command /\ EndCommand(w)
  <2>1. /\ step' = [step EXCEPT ![w] = "ended"] /\ w \notin Thread
        /\ outcome' = [outcome EXCEPT ![w] = "none"] /\ UNCHANGED <<todo, ok, target>>
    BY <1>6 DEF EndCommand, Command
  <2>2. WorkerFits(w)'
    BY <1>0, <2>1 DEF WorkerFits, Provisioning
  <2> QED
    BY <1>0, <1>1, <1>2, <2>1, <2>2, OthersStay
<1> QED
  BY <1>3, <1>4, <1>5, <1>6

(* A status is only set by the thread whose index it has.                  *)
LEMMA ReportInstalls ==
  ASSUME FleetInv, InstallsFit, NEW t \in Thread, Report(t)
  PROVE  InstallsFit'
<1>0. /\ t \in Worker /\ t \in 1 .. Len(pending)
      /\ outcome \in [Worker -> {"none", "ok", "partial", "error", "unopened"}]
      /\ step \in [Worker -> Steps]
  BY ThreadsAssumption DEF Report, FleetInv, GuestsFit, OutcomesFit, ThreadsFit, Thread
<1>1. /\ step' = [step EXCEPT ![t] = "ended"] /\ step[t] = "report"
      /\ outcome' = [outcome EXCEPT ![t] = "none"]
      /\ UNCHANGED <<machines, target, todo, ok, pending>>
      /\ results' = [results EXCEPT ![pending[t].index].status = Status(t)]
  BY DEF Report
<1>2. \A w \in Worker : WorkerFits(w)'
  BY <1>0, <1>1 DEF InstallsFit, WorkerFits, Provisioning
<1>3. \A v \in Thread : ThreadFits(v)'
  BY <1>0, <1>1, ThreadsAssumption
  DEF InstallsFit, ThreadFits, Provisioning, Wanted, Recorded, Thread
<1>4. ASSUME NEW k \in DOMAIN pending', results'[pending'[k].index].status = "ok",
             pending'[k].id \in Recorded'
      PROVE  (ToSet(Resolved(<<pending[k].name>>)) \subseteq
                ToSet(machines[pending[k].id].components))'
  <2>1. k \in 1 .. Len(pending) /\ DOMAIN pending = 1 .. Len(pending)
    BY <1>1, <1>4 DEF FleetInv, PendingFits
  <2>2. CASE k = t
    <3>1. outcome[t] = "ok"
      <4>1. pending[t].index \in DOMAIN results
        BY <1>0 DEF FleetInv, PendingFits, PlanFits
      <4>2. results'[pending[t].index].status = Status(t)
        <5> DEFINE r == results[pending[t].index]
        <5>1. results'[pending[t].index] = [r EXCEPT !.status = Status(t)]
          BY <1>1, <4>1
        <5>2. r \in Result
          BY <4>1 DEF FleetInv, PlanFits
        <5> HIDE DEF r
        <5> QED
          BY <5>1, <5>2 DEF Result
      <4> QED
        BY <1>1, <1>4, <2>2, <4>2 DEF Status
    <3> QED
      BY <1>1, <1>4, <2>2, <3>1 DEF InstallsFit, ThreadFits, Recorded, Wanted
  <2>3. CASE k # t
    <3>1. pending[k].index # pending[t].index
      BY <1>0, <2>1, <2>3 DEF FleetInv, PendingFits
    <3>2. results'[pending[k].index] = results[pending[k].index]
      BY <1>1, <2>1, <3>1 DEF FleetInv, PendingFits, PlanFits
    <3> QED
      BY <1>1, <1>4, <2>1, <3>2 DEF InstallsFit, OkMeansRecorded, Recorded
  <2> QED
    BY <2>2, <2>3
<1>5. OkMeansRecorded'
  BY <1>4 DEF OkMeansRecorded
<1>6. todo' = [w \in Worker |-> todo'[w]]
  BY <1>1 DEF InstallsFit
<1> QED
  BY <1>2, <1>3, <1>5, <1>6 DEF InstallsFit

(* Before provisioning begins there is nothing to tell.                    *)
LEMMA FirstPassInstalls ==
  ASSUME FleetInv, FleetInv', InstallsFit, main' \in {"create", "mark"},
         UNCHANGED <<step, todo, outcome>>
  PROVE  InstallsFit'
<1>1. \A t \in Thread : step'[t] = "none"
  BY ThreadsAssumption DEF FleetInv, ThreadsFit, Thread
<1>2. \A w \in Worker : WorkerFits(w)'
  BY DEF InstallsFit, WorkerFits
<1>3. \A t \in Thread : ThreadFits(t)'
  BY <1>1 DEF ThreadFits, Provisioning
<1>4. \A k \in DOMAIN pending' : results'[pending'[k].index].status = "none"
  <2>1. PendingFits' /\ CountsFit'
    BY DEF FleetInv
  <2>2. \A k \in 1 .. Len(pending') : step'[k] # "ended"
    <3>1. \A k \in 1 .. Len(pending)' : k \in Thread
      BY <2>1, ThreadsAssumption, IdAssumption DEF PendingFits, Thread
    <3> QED
      BY <1>1, <3>1
  <2>3. DOMAIN pending' = 1 .. Len(pending')
    BY <2>1 DEF PendingFits
  <2> QED
    BY <2>1, <2>2, <2>3 DEF CountsFit
<1>5. OkMeansRecorded'
  BY <1>4 DEF OkMeansRecorded
<1>6. todo' = [w \in Worker |-> todo'[w]]
  BY DEF InstallsFit
<1> QED
  BY <1>2, <1>3, <1>5, <1>6 DEF InstallsFit

(* InstallsFit is kept.                                                    *)
LEMMA InstallsKept ==
  ASSUME FleetInv, FleetInv', InstallsFit, FleetNext
  PROVE  InstallsFit'
<1>0. \A t \in Thread : t \in Worker
  BY ThreadsAssumption DEF Thread
<1>1. CASE CreateNextFails \/ MarkFleet \/ \E i \in Id : CreateNext(i)
  BY <1>1, FirstPassInstalls DEF CreateNextFails, MarkFleet, CreateNext, provisionVars
<1>2. ASSUME \A i \in Id : ~CreateNext(i),
             UNCHANGED <<step, target, todo, ok, outcome, pending, results>>
      PROVE  InstallsFit'
  <2>1. Keeps
    BY <1>2, MostStepsKeep
  <2>2. \A w \in Worker : WorkerFits(w)'
    BY <1>2 DEF InstallsFit, WorkerFits
  <2>3. \A t \in Thread : ThreadFits(t)'
    BY <1>0, <1>2, <2>1 DEF InstallsFit, ThreadFits, Wanted, Keeps, Recorded
  <2>4. OkMeansRecorded'
    BY <1>2, <2>1 DEF InstallsFit, OkMeansRecorded, Keeps, Recorded
  <2> QED
    BY <1>2, <2>2, <2>3, <2>4 DEF InstallsFit
<1>3. CASE \/ EndFirstPass \/ JoinNext \/ Summarise \/ StderrCloses
           \/ \E i \in Id : Elsewhere(i) \/ DestroyTarget(i) \/ DestroyTargetFails(i)
           \/ \E g \in Group : ReadTargets(FALSE, g)
           \/ ReadTargets(TRUE, NoGroup)
  <2>1. UNCHANGED <<step, target, todo, ok, outcome, pending, results>>
    BY <1>3, Zenon
    DEF EndFirstPass, JoinNext, Summarise, StderrCloses, Elsewhere, DestroyElsewhere,
        DestroyTarget, DestroyTargetFails, ReadTargets, provisionVars, mainVars
  <2> QED
    BY <1>1, <1>2, <2>1
<1>4. CASE SpawnChunk
  <2>1. /\ step' = [w \in Worker |-> IF w \in Thread /\ w \in spawned + 1 .. ChunkEnd
                                        THEN "start" ELSE step[w]]
        /\ UNCHANGED <<machines, target, todo, ok, outcome, pending, results>>
    BY <1>4 DEF SpawnChunk
  <2>2. \A w \in Worker : step'[w] = step[w] \/ (step'[w] = "start" /\ step[w] = "none")
    <3>1. \A w \in Worker : step'[w] # step[w] => w \in Thread /\ w > spawned /\ step'[w] = "start"
      BY <1>4, <2>1 DEF FleetInv, ThreadsFit, Thread
    <3> QED
      BY <3>1 DEF FleetInv, ThreadsFit
  <2>3. \A w \in Worker : WorkerFits(w)'
    BY <2>1, <2>2 DEF InstallsFit, WorkerFits, Provisioning
  <2>4. \A t \in Thread : ThreadFits(t)'
    BY <1>0, <2>1, <2>2 DEF InstallsFit, ThreadFits, Wanted, Recorded, Provisioning
  <2>5. OkMeansRecorded'
    BY <2>1 DEF InstallsFit, OkMeansRecorded, Recorded
  <2> QED
    BY <2>1, <2>3, <2>4, <2>5 DEF InstallsFit
<1>5. CASE Dies
  <2>1. /\ step' = [w \in Worker |->
                      IF w \in Thread /\ step[w] \notin {"none", "ended", "panicked"}
                        THEN "killed" ELSE step[w]]
        /\ todo' = [w \in Worker |-> IF w \in Thread THEN <<>> ELSE todo[w]]
        /\ outcome' = [w \in Worker |-> IF w \in Thread THEN "none" ELSE outcome[w]]
        /\ UNCHANGED <<machines, pending, results>>
    BY <1>5 DEF Dies
  <2>2. \A t \in Thread : step'[t] \in {"none", "ended", "panicked", "killed"}
    BY <1>0, <2>1
  <2>3. \A w \in Worker : WorkerFits(w)'
    BY <2>1, <2>2, SeqFacts DEF InstallsFit, WorkerFits, Provisioning
  <2>4. \A t \in Thread : ThreadFits(t)'
    BY <2>2 DEF ThreadFits, Provisioning
  <2>5. OkMeansRecorded'
    BY <2>1 DEF InstallsFit, OkMeansRecorded, Recorded
  <2> QED
    BY <2>1, <2>3, <2>4, <2>5 DEF InstallsFit
<1>6. ASSUME NEW w \in Worker, ProvisionStep(w), UNCHANGED mainVars
      PROVE  InstallsFit'
  <2>1. \A i \in Id : ~CreateNext(i)
    BY <1>6 DEF CreateNext, mainVars, ProvisionStep, FleetInv
  <2> QED
    BY <1>6, <2>1, MostStepsKeep, ProvisionInstalls DEF mainVars
<1>7. ASSUME NEW t \in Thread, StartThread(t)
      PROVE  InstallsFit'
  <2> DEFINE names == <<pending[t].name>>
  <2>1. t \in Worker /\ t \in 1 .. Len(pending)
    BY <1>7, ThreadsAssumption DEF FleetInv, StartThread, ThreadsFit, Thread
  <2>2. pending[t].id \in Id
    BY <2>1 DEF FleetInv, PendingFits
  <2>3. names \in Seq(ToSet(names))
    BY DEF ToSet
  <2> HIDE DEF names
  <2>4. BeginProvision(t, pending[t].id, names) /\ step[t] = "start"
        /\ UNCHANGED <<pending, results>>
    BY <1>7 DEF StartThread, names, mainVars
  <2> QED
    BY <2>1, <2>2, <2>3, <2>4, BeginInstalls DEF names
<1>8. ASSUME NEW w \in Command, NEW i \in Id, NEW names \in Requests,
             ProvisionCommand(w, i, names)
      PROVE  InstallsFit'
  <2>1. w \in Worker /\ w \notin Thread /\ names \in Seq(ToSet(names))
    BY RequestsAssumption DEF Command
  <2> QED
    BY <1>8, <2>1, BeginInstalls DEF ProvisionCommand, mainVars
<1>9. ASSUME NEW w \in Command, EndCommand(w), UNCHANGED mainVars
      PROVE  InstallsFit'
  BY <1>9, EndsInstall DEF Command
<1>10. ASSUME NEW t \in Thread, CannotOpen(t) \/ LockResults(t) \/ PrintPanics(t)
       PROVE  InstallsFit'
  BY <1>0, <1>10, EndsInstall
<1> QED
  BY <1>0, <1>1, <1>3, <1>4, <1>5, <1>6, <1>7, <1>8, <1>9, <1>10, ReportInstalls
  DEF FleetNext, MainStep, ThreadStep, CommandStep, Killed, MainPanics, Command
-----------------------------------------------------------------------------
(* Types                                                                   *)

(* What the other conjuncts leave open of FleetTypeOK.                     *)
TypesFit ==
  /\ plan \in Seq(Definition)
  /\ main \in {"create", "mark"} => Len(results) <= Len(plan)
  /\ main = "mark" => Len(results) < Len(plan)
  /\ \A k \in 1 .. Len(pending) :
       pending[k] \in Pending /\ results[pending[k].index].id = pending[k].id
  /\ \A i \in Recorded : machines[i].group \in Group \cup {NoGroup}
  /\ verified \in [Id -> SUBSET Component]
  /\ owner \in Thread \cup {Nobody} /\ poisoned \in BOOLEAN /\ stderr \in BOOLEAN
  /\ unmarked \subseteq Id

(* The entry of the plan that is looked at.                                *)
LEMMA CurrentIsDefinition ==
  ASSUME FleetInv, TypesFit, main = "mark"
  PROVE  Current \in Definition
<1>1. Len(results) + 1 \in 1 .. Len(plan) /\ plan \in Seq(Definition)
  BY DEF TypesFit, FleetInv, PlanFits
<1> QED
  BY <1>1 DEF Current

(* The command begins with the plan of a file.                             *)
LEMMA TypesBegin ==
  ASSUME FleetInit
  PROVE  TypesFit
<1>1. PICK s \in Scenes : plan = Planned(s.file)
  BY DEF FleetInit
<1>2. s.file \in Seq(Definition)
  BY ScenesAssumption
<1>3. \A d \in Definition : d.count \in Nat
  BY DEF Definition
<1>4. plan \in Seq(Definition)
  BY <1>1, <1>2, <1>3, PlannedFacts
<1>5. Len(results) = 0 /\ Len(pending) = 0 /\ Len(plan) \in Nat
  BY <1>4 DEF FleetInit
<1>6. Recorded = {}
  BY DEF FleetInit, ProvisionerInit, Recorded
<1>7. verified \in [Id -> SUBSET Component]
  BY DEF FleetInit, ProvisionerInit
<1>8. owner = Nobody /\ poisoned = FALSE /\ stderr = TRUE /\ unmarked = {} /\ main = "create"
  BY DEF FleetInit
<1>9. Len(results) <= Len(plan) /\ 1 .. Len(pending) = {}
  BY <1>5
<1> QED
  BY <1>4, <1>6, <1>7, <1>8, <1>9, Zenon DEF TypesFit

(* TypesFit is kept.                                                       *)
LEMMA TypesKept ==
  ASSUME FleetInv, FleetInv', InstallsFit, TypesFit, FleetNext
  PROVE  TypesFit'
<1> DEFINE PlanOK == /\ plan \in Seq(Definition)
                     /\ main \in {"create", "mark"} => Len(results) <= Len(plan)
                     /\ main = "mark" => Len(results) < Len(plan)
           PendingOK == \A k \in 1 .. Len(pending) :
                          pending[k] \in Pending /\ results[pending[k].index].id = pending[k].id
           GroupsOK == \A i \in Recorded : machines[i].group \in Group \cup {NoGroup}
           MutexOK == /\ owner \in Thread \cup {Nobody} /\ poisoned \in BOOLEAN
                      /\ stderr \in BOOLEAN /\ unmarked \subseteq Id
<1>0. Len(results) \in Nat /\ Len(plan) \in Nat /\ \A t \in Thread : t \in Worker
  BY ThreadsAssumption DEF FleetInv, PlanFits, TypesFit, Thread
<1>1. PlanOK'
  <2>1. CASE CreateNextFails \/ MarkFleet \/ EndFirstPass \/ \E i \in Id : CreateNext(i)
    <3>1. CASE \E i \in Id : CreateNext(i)
      BY <1>0, <3>1 DEF CreateNext, TypesFit
    <3>2. CASE CreateNextFails \/ MarkFleet
      <4>1. Len(results') = Len(results) + 1 /\ UNCHANGED plan /\ main' = "create"
        BY <1>0, <3>2 DEF CreateNextFails, MarkFleet, FleetInv, PlanFits
      <4>2. Len(results) < Len(plan)
        BY <3>2 DEF CreateNextFails, MarkFleet, TypesFit
      <4> QED
        BY <1>0, <4>1, <4>2 DEF TypesFit
    <3>3. CASE EndFirstPass
      BY <3>3 DEF EndFirstPass, TypesFit
    <3> QED
      BY <2>1, <3>1, <3>2, <3>3
  <2>2. CASE Dies \/ Summarise
    BY <2>2 DEF Dies, Summarise, TypesFit
  <2>3. ASSUME NEW t \in Thread, Report(t)
        PROVE  PlanOK'
    <3>1. Len(results') = Len(results) /\ UNCHANGED <<plan, main>>
      BY <2>3 DEF Report, FleetInv, PlanFits
    <3> QED
      BY <3>1 DEF TypesFit
  <2>4. CASE Quiet
    BY <2>4 DEF Quiet, TypesFit
  <2> QED
    BY <2>1, <2>2, <2>3, <2>4, MostStepsAreQuiet
    DEF FleetNext, MainStep, ThreadStep, Killed, MainPanics
<1>2. PendingOK'
  <2>1. CASE CreateNextFails
    BY <2>1 DEF CreateNextFails, TypesFit, FleetInv, PlanFits, PendingFits
  <2>2. CASE MarkFleet
    <3> DEFINE n == Len(results) + 1
               e == [id |-> info, name |-> Current.provision, index |-> n]
               r == [id |-> info, status |-> "none"]
    <3>1. /\ results' = Append(results, r) /\ results \in Seq(Result) /\ r \in Result
          /\ info \in Id
      BY <2>2 DEF MarkFleet, FleetInv, PlanFits, Result
    <3>2. e \in Pending
      BY <1>0, <2>2, <3>1, CurrentIsDefinition DEF MarkFleet, Pending, Definition
    <3> HIDE DEF e, r
    <3>3. results'[n] = r /\ \A k \in 1 .. Len(results) : results'[k] = results[k]
      BY <3>1
    <3>4. \A k \in 1 .. Len(pending) :
            pending[k] \in Pending /\ results'[pending[k].index].id = pending[k].id
      <4>1. \A k \in 1 .. Len(pending) : pending[k].index \in 1 .. Len(results)
        BY DEF FleetInv, PendingFits
      <4> QED
        BY <3>3, <4>1 DEF TypesFit
    <3>5. e.index = n /\ e.id = r.id
      BY DEF e, r
    <3>6. CASE UNCHANGED pending
      BY <3>4, <3>6
    <3>7. CASE pending' = Append(pending, e)
      <4>1. /\ Len(pending') = Len(pending) + 1 /\ pending'[Len(pending) + 1] = e
            /\ \A k \in 1 .. Len(pending) : pending'[k] = pending[k]
        BY <3>7, Appended DEF FleetInv, PendingFits
      <4>2. Len(pending) \in Nat
        BY DEF FleetInv, PendingFits
      <4>3. \A k \in 1 .. Len(pending') : k \in 1 .. Len(pending) \/ k = Len(pending) + 1
        BY <4>1, <4>2
      <4> QED
        BY <3>2, <3>3, <3>4, <3>5, <4>1, <4>3
    <3> QED
      BY <2>2, <3>6, <3>7 DEF MarkFleet, Enqueue, e
  <2>3. ASSUME NEW t \in Thread, Report(t)
        PROVE  PendingOK'
    <3> DEFINE k == pending[t].index
               r == results[k]
    <3>1. /\ UNCHANGED pending /\ results' = [results EXCEPT ![k] = [r EXCEPT !.status = Status(t)]]
      BY <2>3 DEF Report
    <3>2. results \in Seq(Result)
      BY DEF FleetInv, PlanFits
    <3>3. k \in DOMAIN results => r \in Result
      BY <3>2
    <3> HIDE DEF r
    <3>4. k \in DOMAIN results => [r EXCEPT !.status = Status(t)].id = r.id
      BY <3>3 DEF Result
    <3>5. \A j \in DOMAIN results : results'[j].id = results[j].id
      BY <3>1, <3>4 DEF r
    <3>6. \A j \in 1 .. Len(pending) : pending[j].index \in DOMAIN results
      BY <3>2 DEF FleetInv, PendingFits
    <3> QED
      BY <3>1, <3>5, <3>6 DEF TypesFit
  <2>4. CASE UNCHANGED <<pending, results>>
    BY <2>4 DEF TypesFit
  <2>5. ASSUME \/ EndFirstPass \/ SpawnChunk \/ JoinNext \/ Summarise \/ Dies \/ StderrCloses
               \/ \E t \in Thread : \/ StartThread(t) \/ CannotOpen(t) \/ LockResults(t)
                                    \/ PrintPanics(t)
               \/ UNCHANGED <<mainVars, mutexVars, stderr, destroyer>>
               \/ \E w \in Command, i \in Id, names \in Requests : ProvisionCommand(w, i, names)
               \/ \E i \in Id : \/ CreateNext(i) \/ Elsewhere(i) \/ DestroyTarget(i)
                                \/ DestroyTargetFails(i)
               \/ \E g \in Group : ReadTargets(FALSE, g)
               \/ ReadTargets(TRUE, NoGroup)
        PROVE  UNCHANGED <<pending, results>>
    BY <2>5, Zenon
    DEF EndFirstPass, SpawnChunk, JoinNext, Summarise, Dies, StderrCloses, StartThread,
        CannotOpen, LockResults, PrintPanics, ProvisionCommand, CreateNext, Elsewhere,
        DestroyTarget, DestroyTargetFails, ReadTargets, mainVars
  <2> QED
    BY <2>1, <2>2, <2>3, <2>4, <2>5
    DEF FleetNext, MainStep, ThreadStep, CommandStep, Killed, MainPanics
<1>3. GroupsOK'
  <2>1. ASSUME NEW i \in Id, CreateNext(i)
        PROVE  GroupsOK'
    <3>1. machines' = [machines EXCEPT ![i] = [group |-> NoGroup, components |-> <<>>]]
      BY <2>1 DEF CreateNext
    <3> QED
      BY <3>1 DEF TypesFit, Recorded, FleetInv, GuestsFit
  <2>2. CASE MarkFleet
    <3>1. CASE machines' = SetFleetName(info) /\ info \in Recorded
      <4>1. machines' = [machines EXCEPT ![info].group = Current.group] /\ info \in Id
        BY <3>1 DEF SetFleetName, Recorded
      <4>2. machines'[info].group = Current.group
        BY <3>1, <4>1 DEF FleetInv, GuestsFit
      <4>3. Current.group \in Group
        BY <2>2, CurrentIsDefinition DEF MarkFleet, Definition
      <4> QED
        BY <3>1, <4>1, <4>2, <4>3 DEF TypesFit, Recorded, FleetInv, GuestsFit
    <3>2. CASE UNCHANGED machines
      BY <3>2 DEF TypesFit, Recorded
    <3> QED
      BY <2>2, <3>1, <3>2 DEF MarkFleet, SetFleetName
  <2>3. CASE Quiet
    BY <2>3 DEF Quiet, TypesFit, Recorded
  <2>4. CASE UNCHANGED machines
    BY <2>4 DEF TypesFit, Recorded
  <2>5. ASSUME \/ CreateNextFails \/ EndFirstPass \/ Summarise \/ Dies
               \/ \E t \in Thread : Report(t)
        PROVE  UNCHANGED machines
    BY <2>5 DEF CreateNextFails, EndFirstPass, Summarise, Dies, Report, provisionVars
  <2> QED
    BY <2>1, <2>2, <2>3, <2>4, <2>5, MostStepsAreQuiet
    DEF FleetNext, MainStep, ThreadStep, Killed, MainPanics
<1>4. (verified \in [Id -> SUBSET Component])'
  <2>1. ASSUME NEW w \in Worker, VerifySucceeds(w)
        PROVE  verified' \in [Id -> SUBSET Component]
    <3>1. todo[w] \in Seq(Component) /\ todo[w] # <<>>
      BY <2>1 DEF InstallsFit, WorkerFits, VerifySucceeds
    <3>2. Head(todo[w]) \in Component
      BY <3>1
    <3> QED
      BY <2>1, <3>2 DEF VerifySucceeds, TypesFit
  <2>2. ASSUME \A w \in Worker : ~VerifySucceeds(w)
        PROVE  UNCHANGED verified
    BY <1>0, <2>2, Zenon
    DEF FleetNext, MainStep, ThreadStep, CommandStep, Killed, MainPanics, Command,
        CreateNext, CreateNextFails, MarkFleet, EndFirstPass, SpawnChunk, JoinNext, Summarise,
        Dies, StderrCloses, StartThread, BeginProvision, CannotOpen, LockResults, Report,
        PrintPanics, ProvisionStep, InstallSucceeds, CommandFails, Save, Settled, SaveFails,
        ExecPanics, EndCommand, ProvisionCommand, Elsewhere, DestroyElsewhere, DestroyTarget,
        DestroyTargetFails, ReadTargets, provisionVars
  <2> QED
    BY <2>1, <2>2 DEF TypesFit
<1>5. MutexOK'
  <2>1. CASE Dies \/ StderrCloses \/ \E t \in Thread : LockResults(t) \/ Report(t) \/ PrintPanics(t)
    BY <2>1
    DEF Dies, StderrCloses, LockResults, Report, PrintPanics, TypesFit, mainVars, mutexVars
  <2>2. CASE MarkFleet
    BY <2>2 DEF MarkFleet, TypesFit, FleetInv, PlanFits, mutexVars
  <2>3. ASSUME \/ EndFirstPass \/ SpawnChunk \/ JoinNext \/ Summarise \/ CreateNextFails
               \/ \E t \in Thread : StartThread(t) \/ CannotOpen(t)
               \/ UNCHANGED <<mainVars, mutexVars, stderr, destroyer>>
               \/ \E w \in Command, i \in Id, names \in Requests : ProvisionCommand(w, i, names)
               \/ \E i \in Id : \/ CreateNext(i) \/ Elsewhere(i) \/ DestroyTarget(i)
                                \/ DestroyTargetFails(i)
               \/ \E g \in Group : ReadTargets(FALSE, g)
               \/ ReadTargets(TRUE, NoGroup)
        PROVE  UNCHANGED <<owner, poisoned, stderr, unmarked>>
    BY <2>3, Zenon
    DEF EndFirstPass, SpawnChunk, JoinNext, Summarise, CreateNextFails, StartThread,
        CannotOpen, ProvisionCommand, CreateNext, Elsewhere,
        DestroyTarget, DestroyTargetFails, ReadTargets, mainVars, mutexVars
  <2>4. CASE UNCHANGED <<owner, poisoned, stderr, unmarked>>
    BY <2>4 DEF TypesFit
  <2> QED
    BY <2>1, <2>2, <2>3, <2>4
    DEF FleetNext, MainStep, ThreadStep, CommandStep, Killed, MainPanics
<1> QED
  BY <1>1, <1>2, <1>3, <1>4, <1>5 DEF TypesFit

(* An empty host fits.                                                     *)
LEMMA InstallsBegin ==
  ASSUME FleetInit
  PROVE  InstallsFit
<1>1. DOMAIN pending = {}
  BY DEF FleetInit
<1>2. todo = [w \in Worker |-> <<>>] /\ step = [w \in Worker |-> "none"]
      /\ outcome = [w \in Worker |-> "none"]
  BY DEF FleetInit, ProvisionerInit
<1>3. \A w \in Worker : WorkerFits(w)
  BY <1>2, SeqFacts DEF WorkerFits, Provisioning
<1>4. \A t \in Thread : ThreadFits(t)
  BY <1>2, ThreadsAssumption DEF ThreadFits, Provisioning, Thread
<1> QED
  BY <1>1, <1>2, <1>3, <1>4 DEF InstallsFit, OkMeansRecorded

(* Both are invariant, relative to FleetInv.                               *)
LEMMA InstallsInvariance == FleetSpec => [](InstallsFit /\ TypesFit)
<1>1. FleetInit => InstallsFit /\ TypesFit
  BY InstallsBegin, TypesBegin
<1>2. FleetInv /\ FleetInv' /\ InstallsFit /\ TypesFit /\ [FleetNext]_fleetVars
        => (InstallsFit /\ TypesFit)'
  <2> SUFFICES ASSUME FleetInv, FleetInv', InstallsFit, TypesFit, [FleetNext]_fleetVars
               PROVE  (InstallsFit /\ TypesFit)'
    OBVIOUS
  <2>1. CASE FleetNext
    BY <2>1, InstallsKept, TypesKept
  <2>2. CASE UNCHANGED fleetVars
    <3>1. InstallsFit'
      BY <2>2
      DEF InstallsFit, WorkerFits, ThreadFits, Wanted, OkMeansRecorded, Recorded, fleetVars,
          provisionVars, mainVars
    <3>2. TypesFit'
      BY <2>2 DEF TypesFit, Recorded, fleetVars, provisionVars, mainVars, mutexVars
    <3> QED
      BY <3>1, <3>2
  <2> QED
    BY <2>1, <2>2
<1> QED
  BY <1>1, <1>2, FleetInvariance, PTL DEF FleetSpec

(* Status "ok" is only ever told of a machine that has, in its record,     *)
(* every component its definition asks for, if it is still there           *)
(* (fleet.rs:283-318, provisioner.rs:117-127).                             *)
THEOREM OkIsTrue == FleetSpec => []OkMeansRecorded
<1>1. InstallsFit => OkMeansRecorded
  BY DEF InstallsFit
<1> QED
  BY <1>1, InstallsInvariance, PTL

(* Every variable of fleet create keeps its type, for any fleet file.      *)
THEOREM FleetTypes == FleetSpec => []FleetTypeOK
<1>1. ASSUME FleetInv, InstallsFit, TypesFit
      PROVE  FleetTypeOK
  <2> USE <1>1
  <2>1. ASSUME NEW T, T \subseteq Component, NEW s \in Seq(T)
        PROVE  s \in Seq(Component)
    BY <2>1
  <2>2. machines \in [Id -> Machine \cup {Absent}]
    <3>1. ASSUME NEW i \in Recorded
          PROVE  machines[i] \in Machine
      <4>1. /\ machines[i] = [group |-> machines[i].group, components |-> machines[i].components]
            /\ machines[i].components \in Seq(verified[i]) /\ verified[i] \subseteq Component
            /\ machines[i].group \in Group \cup {NoGroup}
        BY DEF FleetInv, GuestsFit, TypesFit, Recorded
      <4>2. machines[i].components \in Seq(Component)
        BY <2>1, <4>1
      <4> QED
        BY <4>1, <4>2 DEF Machine
    <3> QED
      BY <3>1 DEF FleetInv, GuestsFit, Recorded
  <2>3. ok \in [Worker -> Seq(Component)]
    <3>1. ASSUME NEW w \in Worker
          PROVE  ok[w] \in Seq(Component)
      <4>1. CASE step[w] \in Provisioning
        <5>1. ok[w] \in Seq(verified[target[w]]) /\ verified[target[w]] \subseteq Component
          BY <4>1 DEF FleetInv, GuestsFit, TypesFit
        <5> QED
          BY <2>1, <5>1
      <4>2. CASE step[w] \notin Provisioning
        BY <4>2, SeqFacts DEF FleetInv, GuestsFit
      <4> QED
        BY <4>1, <4>2
    <3> QED
      BY <3>1 DEF FleetInv, GuestsFit
  <2>4. ProvisionerTypeOK
    <3>1. todo \in [Worker -> Seq(Component)]
      BY DEF InstallsFit, WorkerFits
    <3> QED
      BY <2>2, <2>3, <3>1 DEF ProvisionerTypeOK, FleetInv, GuestsFit, OutcomesFit, TypesFit
  <2>5. /\ pending \in Seq(Pending)
        /\ \A k \in DOMAIN pending : /\ pending[k].index \in DOMAIN results
                                     /\ pending[k].id = results[pending[k].index].id
    <3>1. /\ DOMAIN pending = 1 .. Len(pending) /\ DOMAIN results = 1 .. Len(results)
          /\ Len(pending) \in Nat /\ pending \in Seq(ToSet(pending))
      BY DEF FleetInv, PendingFits, PlanFits
    <3>2. ToSet(pending) \subseteq Pending
      BY <3>1 DEF ToSet, TypesFit
    <3>3. pending \in Seq(Pending)
      BY <3>1, <3>2
    <3> QED
      BY <3>1, <3>3 DEF TypesFit, FleetInv, PendingFits
  <2>6. /\ joined <= spawned /\ spawned <= Len(pending)
        /\ main \in {"create", "mark", "provision", "done", "dead"}
        /\ info \in Id \cup {Absent} /\ results \in Seq(Result)
        /\ created + failed = Len(results)
    BY ThreadForEach DEF FleetInv, ThreadsFit, PlanFits
  <2> QED
    BY <2>4, <2>5, <2>6 DEF FleetTypeOK, TypesFit, FleetInv, DestroyerFits
<1> QED
  BY <1>1, FleetInvariance, InstallsInvariance, PTL

-----------------------------------------------------------------------------
(* Lifetimes of machines.                                                  *)

(* Between two creates no machine waits to be marked, and every recorded   *)
(* one was reported or does.                                               *)
InfoFits ==
  /\ main \in {"create", "provision", "done"} => info = Absent
  /\ \A i \in Recorded : i <= Len(results) \/ i = info

LEMMA InfoKept ==
  ASSUME FleetInv, InfoFits, [FleetNext]_fleetVars
  PROVE  InfoFits'
<1>0. Len(results) \in Nat /\ \A i \in Id : i \in Nat \ {0}
  BY IdAssumption, ThreadsAssumption DEF FleetInv, PlanFits
<1>1. CASE /\ UNCHANGED <<main, info>> /\ Len(results') >= Len(results) /\ Len(results') \in Nat
           /\ \A i \in Recorded' : i \in Recorded
  BY <1>0, <1>1 DEF InfoFits, Recorded
<1>2. ASSUME NEW i \in Id, CreateNext(i)
      PROVE  InfoFits'
  <2>1. /\ main' = "mark" /\ info' = i /\ results' = results /\ main = "create"
        /\ i = Len(results) + 1 /\ \A j \in Recorded' : j \in Recorded \/ j = i
    BY <1>2 DEF CreateNext, Recorded, FleetInv, GuestsFit
  <2>2. \A j \in Recorded : j <= Len(results)
    BY <2>1 DEF FleetInv, ReportsFit
  <2> QED
    BY <2>1, <2>2 DEF InfoFits
<1>3. CASE MarkFleet
  <2>1. /\ main' = "create" /\ info' = Absent /\ info = Len(results) + 1
        /\ Len(results') = Len(results) + 1
    BY <1>3 DEF MarkFleet, FleetInv, PlanFits
  <2>2. \A i \in Recorded' : i \in Recorded
    <3>1. machines' = SetFleetName(info) \/ UNCHANGED machines
      BY <1>3 DEF MarkFleet
    <3> QED
      BY <3>1 DEF SetFleetName, Recorded, FleetInv, GuestsFit
  <2> QED
    BY <1>0, <2>1, <2>2 DEF InfoFits, Recorded
<1>4. CASE EndFirstPass \/ Summarise \/ Dies
  BY <1>4 DEF EndFirstPass, Summarise, Dies, provisionVars, InfoFits, Recorded
<1>5. CASE Quiet
  BY <1>0, <1>1, <1>5 DEF Quiet, Recorded
<1>6. CASE CreateNextFails
  <2>1. UNCHANGED <<machines, main, info>> /\ Len(results') = Len(results) + 1
    BY <1>6 DEF CreateNextFails, provisionVars, FleetInv, PlanFits
  <2> QED
    BY <1>0, <1>1, <2>1 DEF Recorded
<1>7. ASSUME NEW t \in Thread, Report(t)
      PROVE  InfoFits'
  <2>1. UNCHANGED <<machines, main, info>> /\ Len(results') = Len(results)
    BY <1>7 DEF Report, FleetInv, PlanFits
  <2> QED
    BY <1>0, <1>1, <2>1 DEF Recorded
<1>8. CASE UNCHANGED fleetVars
  BY <1>8 DEF fleetVars, mainVars, provisionVars, InfoFits, Recorded
<1> QED
  BY <1>2, <1>3, <1>4, <1>5, <1>6, <1>7, <1>8, MostStepsAreQuiet
  DEF FleetNext, MainStep, ThreadStep, Killed, MainPanics

lives == [i \in Id |-> LifetimeOf(i)]

LEMMA OneTurns ==
  ASSUME NEW i \in Id, \A j \in Id \ {i} : LifetimeOf(j)' = LifetimeOf(j),
         \/ LifetimeOf(i)' = LifetimeOf(i)
         \/ LifetimeOf(i) = "fresh" /\ LifetimeOf(i)' \in {"present", "past"}
         \/ LifetimeOf(i) = "present" /\ LifetimeOf(i)' = "past"
  PROVE  FleetLives!Next \/ UNCHANGED lives
<1>1. CASE LifetimeOf(i)' = LifetimeOf(i)
  BY <1>1 DEF lives
<1>2. CASE LifetimeOf(i)' # LifetimeOf(i)
  <2>1. lives' = [lives EXCEPT ![i] = LifetimeOf(i)'] /\ lives[i] = LifetimeOf(i)
    BY DEF lives
  <2>2. FleetLives!Appear(i) \/ FleetLives!Fail(i) \/ FleetLives!Vanish(i)
    BY <1>2, <2>1
    DEF lives, FleetLives!Appear, FleetLives!Fail, FleetLives!Vanish, FleetLives!Turns
  <2> QED
    BY <2>2 DEF FleetLives!Next
<1> QED
  BY <1>1, <1>2

LEMMA StepLives ==
  ASSUME FleetInv, TypesFit, FleetTypeOK, InfoFits, [FleetNext]_fleetVars
  PROVE  FleetLives!Next \/ UNCHANGED lives
<1> USE DEF FleetInv
<1>1. Len(results) \in Nat /\ \A i \in Id : i \in Nat \ {0}
  BY IdAssumption, ThreadsAssumption DEF PlanFits
<1>2. ASSUME UNCHANGED <<results, info>>, Recorded' = Recorded
      PROVE  UNCHANGED lives
  BY <1>2 DEF lives, LifetimeOf
<1>3. ASSUME UNCHANGED machines PROVE Recorded' = Recorded
  BY <1>3 DEF Recorded
<1>4. ASSUME NEW i \in Id, CreateNext(i)
      PROVE  FleetLives!Next \/ UNCHANGED lives
  <2>1. /\ main = "create" /\ i = Len(results) + 1 /\ info = Absent
        /\ results' = results /\ info' = i
    BY <1>4 DEF CreateNext, InfoFits
  <2>2. i \notin Recorded
    BY <1>1, <2>1 DEF ReportsFit
  <2>3. Recorded' = Recorded \cup {i}
    <3>1. [group |-> NoGroup, components |-> <<>>] \in [group : Group \cup {NoGroup},
                                                        components : Seq(Component)]
      OBVIOUS
    <3>2. [group |-> NoGroup, components |-> <<>>] # Absent
      BY <3>1, AbsentAssumption
    <3> QED
      BY <1>4, <3>2 DEF CreateNext, Recorded, GuestsFit
  <2>4. i # Absent
    BY AbsentAssumption
  <2>5. LifetimeOf(i) = "fresh" /\ LifetimeOf(i)' = "present"
    BY <1>1, <2>1, <2>2, <2>3, <2>4 DEF LifetimeOf
  <2>6. \A j \in Id \ {i} : LifetimeOf(j)' = LifetimeOf(j)
    BY <2>1, <2>3, AbsentAssumption DEF LifetimeOf
  <2> QED
    BY <2>5, <2>6, OneTurns
<1>5. CASE CreateNextFails
  <2>1. /\ Len(results') = Len(results) + 1 /\ info' = info /\ info = Absent
        /\ main = "create" /\ Recorded' = Recorded
    BY <1>3, <1>5 DEF CreateNextFails, InfoFits, PlanFits, provisionVars
  <2>2. \A j \in Id : j # Len(results) + 1 => LifetimeOf(j)' = LifetimeOf(j)
    BY <1>1, <2>1 DEF LifetimeOf
  <2>3. ASSUME NEW i \in Id, i = Len(results) + 1
        PROVE  FleetLives!Next \/ UNCHANGED lives
    <3>1. i \notin Recorded
      BY <1>1, <2>1, <2>3 DEF ReportsFit
    <3>2. LifetimeOf(i) = "fresh" /\ LifetimeOf(i)' = "past"
      BY <1>1, <2>1, <2>3, <3>1, AbsentAssumption DEF LifetimeOf
    <3> QED
      BY <2>2, <2>3, <3>2, OneTurns
  <2>4. CASE Len(results) + 1 \notin Id
    BY <2>2, <2>4 DEF lives
  <2> QED
    BY <2>3, <2>4
<1>6. CASE MarkFleet
  <2>1. /\ main = "mark" /\ info \in Id /\ info = Len(results) + 1
        /\ Len(results') = Len(results) + 1 /\ info' = Absent
    BY <1>6 DEF MarkFleet, PlanFits
  <2>2. Recorded' = Recorded
    <3>1. CASE info \in Recorded /\ machines' = [machines EXCEPT ![info].group = Current.group]
      <4> DEFINE r == machines[info]
                 r2 == [r EXCEPT !.group = Current.group]
      <4>1. machines' = [machines EXCEPT ![info] = r2]
        BY <3>1
      <4>2. r2 # Absent
        <5>1. r \in Machine
          BY <2>1, <3>1 DEF FleetTypeOK, ProvisionerTypeOK, Recorded
        <5>2. Current.group \in Group
          BY <2>1, CurrentIsDefinition DEF Definition
        <5>3. r2 \in Machine
          BY <5>1, <5>2 DEF Machine
        <5> QED
          BY <5>3, AbsentAssumption DEF Machine
      <4> HIDE DEF r2
      <4> QED
        BY <2>1, <3>1, <4>1, <4>2 DEF Recorded, GuestsFit
    <3>2. CASE UNCHANGED machines
      BY <1>3, <3>2
    <3> QED
      BY <1>6, <3>1, <3>2 DEF MarkFleet, SetFleetName
  <2>3. \A i \in Id : LifetimeOf(i)' = LifetimeOf(i)
    BY <1>1, <2>1, <2>2, AbsentAssumption DEF LifetimeOf
  <2> QED
    BY <2>3 DEF lives
<1>7. ASSUME NEW i \in Id, machines' = [machines EXCEPT ![i] = Absent],
             UNCHANGED <<results, info>>, i \in Recorded
      PROVE  FleetLives!Next \/ UNCHANGED lives
  <2>1. Recorded' = Recorded \ {i}
    BY <1>7 DEF Recorded, FleetTypeOK, ProvisionerTypeOK
  <2>2. i <= Len(results) \/ i = info
    BY <1>7 DEF InfoFits
  <2>3. LifetimeOf(i) = "present" /\ LifetimeOf(i)' = "past"
    BY <1>7, <2>1, <2>2 DEF LifetimeOf
  <2>4. \A j \in Id \ {i} : LifetimeOf(j)' = LifetimeOf(j)
    BY <1>7, <2>1 DEF LifetimeOf
  <2> QED
    BY <2>3, <2>4, OneTurns
<1>8. ASSUME NEW w \in Worker, ProvisionStep(w)
      PROVE  Recorded' = Recorded
  <2>1. CASE Save(w) /\ target[w] \in Recorded /\ ok[w] # <<>>
    <3> DEFINE i == target[w]
               r == machines[i]
               more == r.components \o ok[w]
               r2 == [r EXCEPT !.components = more]
    <3>1. i \in Id /\ machines' = [machines EXCEPT ![i] = r2]
      BY <2>1 DEF Save, Recorded
    <3>2. r \in Machine /\ ok[w] \in Seq(Component)
      BY <2>1, <3>1 DEF FleetTypeOK, ProvisionerTypeOK, Recorded
    <3>3. r.components \in Seq(Component) /\ r = [group |-> r.group, components |-> r.components]
      BY <3>2 DEF Machine
    <3>4. more \in Seq(Component)
      BY <3>2, <3>3, SeqFacts
    <3> HIDE DEF more
    <3>5. r2 \in Machine
      BY <3>2, <3>4 DEF Machine
    <3>6. r2 # Absent
      BY <3>5, AbsentAssumption DEF Machine
    <3> HIDE DEF r2
    <3> QED
      BY <2>1, <3>1, <3>6 DEF Recorded, FleetTypeOK, ProvisionerTypeOK
  <2>2. CASE UNCHANGED machines
    BY <1>3, <2>2
  <2> QED
    BY <1>8, <2>1, <2>2
    DEF ProvisionStep, InstallSucceeds, CommandFails, VerifySucceeds, Save, SaveFails, ExecPanics
<1>9. CASE \/ SpawnChunk \/ JoinNext \/ StderrCloses \/ EndFirstPass \/ Summarise \/ Dies
           \/ \E t \in Thread : \/ StartThread(t) \/ CannotOpen(t) \/ LockResults(t)
                                \/ PrintPanics(t)
           \/ \E w \in Command : EndCommand(w) /\ UNCHANGED mainVars
           \/ \E w \in Command, i \in Id, names \in Requests : ProvisionCommand(w, i, names)
           \/ \E i \in Id : DestroyTargetFails(i)
           \/ \E g \in Group : ReadTargets(FALSE, g)
           \/ ReadTargets(TRUE, NoGroup)
           \/ UNCHANGED fleetVars
  <2>1. UNCHANGED <<machines, results, info>>
    BY <1>9
    DEF SpawnChunk, JoinNext, StderrCloses, EndFirstPass, Summarise, Dies, StartThread,
        BeginProvision, CannotOpen, LockResults, PrintPanics, EndCommand, ProvisionCommand,
        DestroyTargetFails, ReadTargets, fleetVars, provisionVars, mainVars
  <2> QED
    BY <1>2, <1>3, <2>1
<1>10. ASSUME NEW t \in Thread, Report(t)
       PROVE  UNCHANGED lives
  <2>1. /\ UNCHANGED <<machines, info>>
        /\ results' = [results EXCEPT ![pending[t].index].status = Status(t)]
    BY <1>10 DEF Report
  <2>2. Len(results') = Len(results)
    BY <2>1 DEF PlanFits
  <2> QED
    BY <1>3, <2>1, <2>2 DEF lives, LifetimeOf
<1>11. ASSUME NEW i \in Id, Elsewhere(i) \/ DestroyTarget(i)
       PROVE  FleetLives!Next \/ UNCHANGED lives
  <2>1. UNCHANGED <<results, info>> /\ i \in Recorded
    BY <1>11 DEF Elsewhere, DestroyElsewhere, DestroyTarget, mainVars
  <2>2. machines' = [machines EXCEPT ![i] = Absent] \/ UNCHANGED machines
    BY <1>11 DEF Elsewhere, DestroyElsewhere, DestroyTarget
  <2> QED
    BY <1>2, <1>3, <1>7, <2>1, <2>2
<1>12. ASSUME NEW w \in Worker, ProvisionStep(w), UNCHANGED mainVars
       PROVE  UNCHANGED lives
  BY <1>2, <1>8, <1>12 DEF mainVars
<1>13. \A t \in Thread : t \in Worker
  BY ThreadsAssumption DEF Thread
<1> QED
  BY <1>4, <1>5, <1>6, <1>9, <1>10, <1>11, <1>12, <1>13
  DEF FleetNext, MainStep, ThreadStep, CommandStep, Command, Killed, MainPanics

(* A machine has a record for one stretch of time, whatever a worker saves *)
(* late and whoever destroys it: fleet create adds nothing to what the     *)
(* runtimes' creates and destroys do (Sandboxes' MachinesLiveOnce).        *)
THEOREM FleetMachinesAreRuntimes == FleetSpec => FleetMachinesLiveOnce
<1>1. FleetInit => FleetLives!Init /\ InfoFits
  <2> SUFFICES ASSUME FleetInit PROVE FleetLives!Init /\ InfoFits
    OBVIOUS
  <2>1. Recorded = {} /\ Len(results) = 0 /\ info = Absent
    BY DEF FleetInit, ProvisionerInit, Recorded
  <2>2. \A i \in Id : LifetimeOf(i) = "fresh"
    BY <2>1, IdAssumption, ThreadsAssumption, AbsentAssumption DEF LifetimeOf
  <2> QED
    BY <2>1, <2>2 DEF FleetLives!Init, InfoFits
<1>2. FleetInv /\ InfoFits /\ [FleetNext]_fleetVars => InfoFits'
  BY InfoKept
<1>3. FleetInv /\ TypesFit /\ FleetTypeOK /\ InfoFits /\ [FleetNext]_fleetVars =>
        [FleetLives!Next]_([i \in Id |-> LifetimeOf(i)])
  BY StepLives DEF lives
<1> QED
  BY <1>1, <1>2, <1>3, FleetInvariance, InstallsInvariance, FleetTypes, PTL
  DEF FleetSpec, FleetMachinesLiveOnce, FleetLives!Spec
=============================================================================
