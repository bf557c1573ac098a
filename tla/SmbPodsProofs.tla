--------------------------- MODULE SmbPodsProofs ---------------------------
(***************************************************************************)
(* Proofs about the pods of a server, for every plan, any number of pods   *)
(* and any number of faults.                                               *)
(***************************************************************************)
EXTENDS SmbPods, TLAPS, SequenceTheorems, WellFoundedInduction

-----------------------------------------------------------------------------
(* Lists, and what is picked from one *)

LEMMA SetInduction ==
    ASSUME NEW I \in SUBSET Nat, 0 \in I, \A n \in I : n + 1 \in I
    PROVE  I = Nat
<1> DEFINE Less == {ss \in Nat \X Nat : ss[1] < ss[2]}
<1> SUFFICES ASSUME Nat \ I # {} PROVE FALSE
  OBVIOUS
<1>1. IsWellFoundedOn(Less, Nat)
  BY NatLessThanWellFounded DEF OpToRel
<1>2. PICK i \in Nat \ I : \A j \in Nat \ I : ~(<<j, i>> \in Less)
  BY <1>1, WFMin
<1>3. i # 0 /\ i - 1 \in Nat /\ <<i - 1, i>> \in Less
  BY <1>2
<1>4. i - 1 \in I
  BY <1>2, <1>3
<1>5. QED
  BY <1>2, <1>3, <1>4

(* The recursion in PickedUpTo has a solution, so PickedUpTo is one. *)
LEMMA PickedStep ==
    ASSUME NEW T, NEW seq \in Seq(T), NEW I
    PROVE  LET f == PickedUpTo(seq, I)
           IN  /\ f[0] = <<>>
               /\ \A n \in 1 .. Len(seq) :
                     f[n] = IF n \in I THEN Append(f[n - 1], seq[n]) ELSE f[n - 1]
<1> DEFINE Longer(s, n) == IF n \in I THEN Append(s, seq[n]) ELSE s
           Body(f) == [n \in 0 .. Len(seq) |->
                          IF n = 0 THEN <<>>
                          ELSE IF n \in I THEN Append(f[n - 1], seq[n])
                          ELSE f[n - 1]]
           Solves(f, m) == f[0] = <<>> /\ \A n \in 1 .. m : f[n] = Longer(f[n - 1], n)
           Solved == {m \in Nat : \E f : Solves(f, m)}
<1>1. 0 \in Solved
  <2>1. Solves([n \in 0 .. 0 |-> <<>>], 0)
    OBVIOUS
  <2>2. QED
    BY <2>1
<1>2. ASSUME NEW m \in Solved PROVE m + 1 \in Solved
  <2>1. PICK f : Solves(f, m)
    OBVIOUS
  <2> DEFINE h == [n \in 0 .. (m + 1) |-> IF n = m + 1 THEN Longer(f[m], m + 1) ELSE f[n]]
  <2>2. m \in Nat
    OBVIOUS
  <2> HIDE DEF Longer
  <2>3. h[0] = f[0] /\ h[m + 1] = Longer(f[m], m + 1) /\ \A n \in 0 .. m : h[n] = f[n]
    BY <2>2
  <2>4. Solves(h, m + 1)
    <3> SUFFICES ASSUME NEW n \in 1 .. (m + 1) PROVE h[n] = Longer(h[n - 1], n)
      BY <2>1, <2>3
    <3> HIDE DEF h
    <3>1. CASE n = m + 1
      BY <2>2, <2>3, <3>1
    <3>2. CASE n # m + 1
      <4>1. n \in 1 .. m /\ n \in 0 .. m /\ n - 1 \in 0 .. m
        BY <2>2, <3>2
      <4>2. QED
        BY <2>1, <2>3, <4>1
    <3>3. QED
      BY <3>1, <3>2
  <2>5. \E x : Solves(x, m + 1)
    <3> HIDE DEF h, Solves
    <3>1. QED
      BY <2>4
  <2>6. QED
    BY <2>2, <2>5
<1>3. Len(seq) \in Nat
  OBVIOUS
<1>4. Len(seq) \in Solved
  <2> HIDE DEF Solved
  <2>1. Solved \in SUBSET Nat
    BY DEF Solved
  <2>2. QED
    BY <1>1, <1>2, <1>3, <2>1, SetInduction
<1>5. PICK f : Solves(f, Len(seq))
  BY <1>4
<1> DEFINE g == [n \in 0 .. Len(seq) |-> f[n]]
<1>6. g = Body(g)
  BY <1>3, <1>5
<1>7. PickedUpTo(seq, I) = CHOOSE h : h = Body(h)
  BY DEF PickedUpTo
<1> DEFINE k == PickedUpTo(seq, I)
<1>8. k = Body(k)
  <2> HIDE DEF Body, g
  <2>1. QED
    BY <1>6, <1>7
<1> HIDE DEF k
<1>9. /\ Body(k)[0] = <<>>
      /\ \A n \in 1 .. Len(seq) :
            Body(k)[n] = IF n \in I THEN Append(k[n - 1], seq[n]) ELSE k[n - 1]
  BY <1>3
<1>10. /\ k[0] = <<>>
       /\ \A n \in 1 .. Len(seq) :
             k[n] = IF n \in I THEN Append(k[n - 1], seq[n]) ELSE k[n - 1]
  <2> HIDE DEF Body
  <2>1. QED
    BY <1>8, <1>9
<1>11. QED
  BY <1>10 DEF k

(* seq has each member of S, and nothing else, once. *)
Lists(seq, S) == seq \in Seq(S) /\ Values(seq) = S /\ Valid(seq)

LEMMA ListsAppend ==
    ASSUME NEW S, NEW seq, Lists(seq, S), NEW x, x \notin S
    PROVE  Lists(Append(seq, x), S \cup {x})
<1> DEFINE new == Append(seq, x)
<1>1. seq \in Seq(S \cup {x})
  BY DEF Lists
<1>2. /\ new \in Seq(S \cup {x})
      /\ DOMAIN new = 1 .. (Len(seq) + 1) /\ DOMAIN seq = 1 .. Len(seq) /\ Len(seq) \in Nat
      /\ \A i \in DOMAIN seq : new[i] = seq[i]
      /\ new[Len(seq) + 1] = x
  BY <1>1
<1> HIDE DEF new
<1>3. Values(new) = S \cup {x}
  <2>1. \A i \in DOMAIN new : i \in DOMAIN seq \/ i = Len(seq) + 1
    BY <1>2
  <2>2. Values(new) \subseteq Values(seq) \cup {x}
    BY <1>2, <2>1 DEF Values
  <2>3. Values(seq) \subseteq Values(new)
    BY <1>2 DEF Values
  <2>4. x \in Values(new)
    BY <1>2 DEF Values
  <2>5. QED
    BY <2>2, <2>3, <2>4 DEF Lists
<1>4. \A i \in DOMAIN seq : seq[i] # x
  BY DEF Lists, Values
<1>5. Valid(new)
  BY <1>2, <1>4 DEF Valid, Lists
<1>6. QED
  BY <1>2, <1>3, <1>5 DEF Lists, new

LEMMA ListsConcat ==
    ASSUME NEW S, NEW T, NEW seq, NEW seq2, Lists(seq, S), Lists(seq2, T), S \cap T = {}
    PROVE  Lists(seq \o seq2, S \cup T)
<1> DEFINE new == seq \o seq2
           len == Len(seq)
<1>1. seq \in Seq(S \cup T) /\ seq2 \in Seq(S \cup T)
  BY DEF Lists
<1>2. /\ new \in Seq(S \cup T)
      /\ DOMAIN new = 1 .. (len + Len(seq2))
      /\ DOMAIN seq = 1 .. len /\ DOMAIN seq2 = 1 .. Len(seq2)
      /\ len \in Nat /\ Len(seq2) \in Nat
      /\ \A i \in DOMAIN seq : new[i] = seq[i]
      /\ \A i \in DOMAIN seq2 : new[len + i] = seq2[i]
  BY <1>1
<1> HIDE DEF new
<1>3. \A i \in DOMAIN new : i \in DOMAIN seq \/ (i - len \in DOMAIN seq2 /\ new[i] = seq2[i - len])
  <2> SUFFICES ASSUME NEW i \in DOMAIN new, i \notin DOMAIN seq
               PROVE  i - len \in DOMAIN seq2 /\ new[i] = seq2[i - len]
    OBVIOUS
  <2>1. i - len \in DOMAIN seq2 /\ i = len + (i - len)
    BY <1>2
  <2>2. QED
    BY <1>2, <2>1
<1>4. Values(new) = S \cup T
  <2>1. Values(new) \subseteq Values(seq) \cup Values(seq2)
    BY <1>2, <1>3 DEF Values
  <2>2. Values(seq) \subseteq Values(new)
    BY <1>2 DEF Values
  <2>3. Values(seq2) \subseteq Values(new)
    BY <1>2 DEF Values
  <2>4. QED
    BY <2>1, <2>2, <2>3 DEF Lists
<1>5. \A i \in DOMAIN seq, j \in DOMAIN seq2 : seq[i] # seq2[j]
  BY DEF Lists, Values
<1>6. Valid(new)
  <2> SUFFICES ASSUME NEW i \in DOMAIN new, NEW j \in DOMAIN new, new[i] = new[j]
               PROVE  i = j
    BY DEF Valid
  <2>1. CASE i \in DOMAIN seq /\ j \in DOMAIN seq
    BY <1>2, <2>1 DEF Lists, Valid
  <2>2. CASE i \notin DOMAIN seq /\ j \notin DOMAIN seq
    <3>1. i - len = j - len
      BY <1>3, <2>2 DEF Lists, Valid
    <3>2. QED
      BY <1>2, <3>1
  <2>3. QED
    BY <1>2, <1>3, <1>5, <2>1, <2>2
<1>7. QED
  BY <1>2, <1>4, <1>6 DEF Lists, new

LEMMA ListsFew ==
    /\ Lists(<<>>, {})
    /\ \A x : Lists(<<x>>, {x})
    /\ \A x, y : x # y => Lists(<<x, y>>, {x, y})
    /\ \A x, y, z : x # y /\ x # z /\ y # z => Lists(<<x, y, z>>, {x, y, z})
BY DEF Lists, Values, Valid

LEMMA ListsPicked ==
    ASSUME NEW S, NEW seq, Lists(seq, S), NEW I
    PROVE  Lists(Picked(seq, I), {seq[i] : i \in I \cap DOMAIN seq})
<1> DEFINE f == PickedUpTo(seq, I)
           Before(n) == {seq[i] : i \in I \cap (1 .. n)}
           Good == {n \in Nat : n <= Len(seq) => Lists(f[n], Before(n))}
<1>1. Len(seq) \in Nat /\ DOMAIN seq = 1 .. Len(seq) /\ seq \in Seq(S)
  BY DEF Lists
<1>2. /\ f[0] = <<>>
      /\ \A n \in 1 .. Len(seq) :
            f[n] = IF n \in I THEN Append(f[n - 1], seq[n]) ELSE f[n - 1]
  BY <1>1, PickedStep
<1> HIDE DEF f
<1>3. 0 \in Good
  <2>1. Before(0) = {}
    OBVIOUS
  <2>2. QED
    BY <1>2, <2>1, ListsFew
<1>4. ASSUME NEW n \in Good PROVE n + 1 \in Good
  <2> SUFFICES ASSUME n + 1 <= Len(seq) PROVE Lists(f[n + 1], Before(n + 1))
    OBVIOUS
  <2>1. n \in Nat /\ n + 1 \in 1 .. Len(seq) /\ Lists(f[n], Before(n)) /\ (n + 1) - 1 = n
    BY <1>1
  <2>2. f[n + 1] = IF n + 1 \in I THEN Append(f[n], seq[n + 1]) ELSE f[n]
    BY <1>2, <2>1
  <2>3. 1 .. (n + 1) = (1 .. n) \cup {n + 1}
    BY <2>1
  <2>4. CASE n + 1 \notin I
    <3>1. Before(n + 1) = Before(n)
      BY <2>3, <2>4
    <3>2. QED
      BY <2>1, <2>2, <2>4, <3>1
  <2>5. CASE n + 1 \in I
    <3>1. Before(n + 1) = Before(n) \cup {seq[n + 1]}
      BY <2>3, <2>5
    <3>2. seq[n + 1] \notin Before(n)
      BY <1>1, <2>1 DEF Lists, Valid
    <3> HIDE DEF Before
    <3>3. QED
      BY <2>1, <2>2, <2>5, <3>1, <3>2, ListsAppend
  <2>6. QED
    BY <2>4, <2>5
<1>5. Len(seq) \in Good
  <2> HIDE DEF Good
  <2>1. Good \in SUBSET Nat
    BY DEF Good
  <2>2. QED
    BY <1>1, <1>3, <1>4, <2>1, SetInduction
<1>6. QED
  BY <1>1, <1>5 DEF Picked, f

(* getJoinSources: the volumes are those the files are in. *)
LEMMA JoinVolumesList ==
    ASSUME NEW p \in Plans
    PROVE  Lists(JoinVolumes(p), JoinFiles(p))
<1> DEFINE all == [i \in DOMAIN p.joins |-> JoinJSON(i)]
           I == {i \in DOMAIN all : p.joins[i]}
<1>1. p.joins \in Seq(BOOLEAN)
  BY PlansAssumption DEF PodPlan
<1>2. DOMAIN all = 1 .. Len(p.joins) /\ Len(p.joins) \in Nat
  BY <1>1
<1>3. all \in Seq(Values(all))
  BY <1>2, SeqDef DEF Values
<1>4. Lists(all, Values(all))
  BY <1>3 DEF Lists, Valid, JoinJSON
<1>5. {all[i] : i \in I \cap DOMAIN all} = JoinFiles(p)
  BY DEF JoinFiles
<1>6. Lists(Picked(all, I), {all[i] : i \in I \cap DOMAIN all})
  BY <1>4, ListsPicked
<1>7. QED
  BY <1>5, <1>6 DEF JoinVolumes

(* volKeeper.exclude *)
LEMMA WithoutDataLists ==
    ASSUME NEW S, NEW seq, Lists(seq, S)
    PROVE  Lists(WithoutData(seq), S \ {Data})
<1> DEFINE I == {i \in DOMAIN seq : seq[i] # Data}
<1>1. {seq[i] : i \in I \cap DOMAIN seq} = S \ {Data}
  BY DEF Lists, Values
<1>2. QED
  BY <1>1, ListsPicked DEF WithoutData

-----------------------------------------------------------------------------
(* The init containers *)

LEMMA ThreeAndThree ==
    ASSUME NEW a, NEW b, NEW c, NEW d, NEW e, NEW f
    PROVE  LET s == <<a, b, c>> \o <<d, e, f>>
           IN  /\ Len(s) = 6
               /\ s[1] = a /\ s[2] = b /\ s[3] = c /\ s[4] = d /\ s[5] = e /\ s[6] = f
OBVIOUS

LEMMA TwoAndThree ==
    ASSUME NEW a, NEW b, NEW d, NEW e, NEW f
    PROVE  LET s == <<a, b>> \o <<d, e, f>>
           IN  /\ Len(s) = 5
               /\ s[1] = a /\ s[2] = b /\ s[3] = d /\ s[4] = e /\ s[5] = f
OBVIOUS

LEMMA OneAndTwo ==
    ASSUME NEW a, NEW b, NEW c
    PROVE  LET s == <<a>> \o <<b, c>>
           IN  s \in Seq({a, b, c}) /\ Len(s) = 3 /\ s[3] = c
<1>1. <<a>> \in Seq({a, b, c}) /\ <<b, c>> \in Seq({a, b, c})
  OBVIOUS
<1>2. Len(<<a>>) = 1 /\ Len(<<b, c>>) = 2 /\ <<b, c>>[2] = c
  OBVIOUS
<1>3. QED
  BY <1>1, <1>2, ConcatProperties

LEMMA InConcat ==
    ASSUME NEW S, NEW T, NEW s \in Seq(S), NEW t \in Seq(T), NEW i \in 1 .. Len(s)
    PROVE  s[i] \in Values(s \o t)
<1>1. s \in Seq(S \cup T) /\ t \in Seq(S \cup T) /\ Len(s) \in Nat /\ Len(t) \in Nat
  OBVIOUS
<1> DEFINE u == s \o t
<1>2. i \in 1 .. Len(u) /\ u[i] = s[i] /\ DOMAIN u = 1 .. Len(u)
  BY <1>1, ConcatProperties, LenProperties
<1> HIDE DEF u
<1>3. s[i] \in Values(u)
  BY <1>2 DEF Values
<1>4. QED
  BY <1>3 DEF u

(* must-join of a cluster mounts the claim with the nodes file. *)
LEMMA MustJoinShares ==
    ASSUME NEW p \in Plans
    PROVE  CTDBShared \in Values(<<SambaConfig>> \o <<SambaState, CTDBShared>> \o JoinVolumes(p))
<1> DEFINE s == <<SambaConfig>> \o <<SambaState, CTDBShared>>
<1>1. /\ s \in Seq({SambaConfig, SambaState, CTDBShared})
      /\ 3 \in 1 .. Len(s) /\ s[3] = CTDBShared
  BY OneAndTwo
<1>2. JoinVolumes(p) \in Seq(JoinFiles(p))
  BY JoinVolumesList DEF Lists
<1> HIDE DEF s
<1>3. CTDBShared \in Values(s \o JoinVolumes(p))
  BY <1>1, <1>2, InConcat
<1>4. QED
  BY <1>3 DEF s

(* What the invariant needs of the order of a cluster's init containers.   *)
Ordered(init) ==
    /\ Len(init) \in {5, 6}
    /\ init[Len(init) - 2].name = "ctdb-migrate"
    /\ init[Len(init) - 1].name = "ctdb-set-node"
    /\ \A i \in 1 .. Len(init) :
          init[i].name = "must-join" =>
              i < Len(init) - 2 /\ CTDBShared \in Values(init[i].mounts)

LEMMA ClusteredADOrdered ==
    ASSUME NEW p \in Plans
    PROVE  Ordered(ClusteredADPodSpec(p).init)
<1> DEFINE env == PodEnv(p)
           first == Container("init", env, <<SambaConfig>> \o <<SambaState, CTDBShared>>)
           second == Container("ensure-share-paths", env, <<SambaConfig>> \o <<SambaState, Data>>)
           third == Container("must-join", JoinFiles(p),
                        <<SambaConfig>> \o <<SambaState, CTDBShared>> \o JoinVolumes(p))
           base == <<SambaConfig>> \o <<SambaState, CTDBShared, CTDBConfig>>
           fourth == Container("ctdb-migrate", env, Append(base, CTDBPersistent))
           fifth == Container("ctdb-set-node", env, base)
           sixth == Container("ctdb-must-have-node", env, base)
           s == <<first, second, third>> \o <<fourth, fifth, sixth>>
<1>1. ClusteredADPodSpec(p).init = s
  BY DEF ClusteredADPodSpec, CTDBInitContainers
<1>2. /\ first.name = "init" /\ second.name = "ensure-share-paths"
      /\ third.name = "must-join" /\ fourth.name = "ctdb-migrate"
      /\ fifth.name = "ctdb-set-node" /\ sixth.name = "ctdb-must-have-node"
  BY DEF Container
<1>3. CTDBShared \in Values(third.mounts)
  BY MustJoinShares DEF Container
<1> HIDE DEF first, second, third, fourth, fifth, sixth
<1>4. /\ Len(s) = 6
      /\ s[1] = first /\ s[2] = second /\ s[3] = third
      /\ s[4] = fourth /\ s[5] = fifth /\ s[6] = sixth
  BY ThreeAndThree
<1> HIDE DEF s
<1>5. Ordered(s)
  BY <1>2, <1>3, <1>4 DEF Ordered
<1>6. QED
  BY <1>1, <1>5

LEMMA ClusteredUserOrdered ==
    ASSUME NEW p \in Plans
    PROVE  Ordered(ClusteredUserPodSpec(p).init)
<1> DEFINE env == PodEnv(p)
           config == <<SambaConfig>> \o UsersVolume(p)
           first == Container("init", env, config \o <<SambaState, CTDBShared>>)
           second == Container("ensure-share-paths", env, config \o <<SambaState, Data>>)
           base == config \o <<SambaState, CTDBShared, CTDBConfig>>
           third == Container("ctdb-migrate", env, Append(base, CTDBPersistent))
           fourth == Container("ctdb-set-node", env, base)
           fifth == Container("ctdb-must-have-node", env, base)
           s == <<first, second>> \o <<third, fourth, fifth>>
<1>1. ClusteredUserPodSpec(p).init = s
  BY DEF ClusteredUserPodSpec, CTDBInitContainers
<1>2. /\ first.name = "init" /\ second.name = "ensure-share-paths"
      /\ third.name = "ctdb-migrate" /\ fourth.name = "ctdb-set-node"
      /\ fifth.name = "ctdb-must-have-node"
  BY DEF Container
<1> HIDE DEF first, second, third, fourth, fifth
<1>3. /\ Len(s) = 5
      /\ s[1] = first /\ s[2] = second /\ s[3] = third /\ s[4] = fourth /\ s[5] = fifth
  BY TwoAndThree
<1> HIDE DEF s
<1>4. Ordered(s)
  BY <1>2, <1>3 DEF Ordered
<1>5. QED
  BY <1>1, <1>4

LEMMA TemplateOrdered ==
    ASSUME plan \in Plans, template = PodSpec(plan)
    PROVE  /\ InitSteps \in Nat \ {0}
           /\ plan.clustered => Ordered(template.init)
<1>1. plan.clustered => Ordered(template.init)
  BY ClusteredADOrdered, ClusteredUserOrdered DEF PodSpec
<1>2. plan.clustered => InitSteps \in Nat \ {0}
  BY <1>1 DEF InitSteps, Ordered
<1>3. plan.ad => Len(ADPodSpec(plan).init) = 3
  BY DEF ADPodSpec
<1>4. Len(UserPodSpec(plan).init) = 1
  BY DEF UserPodSpec
<1>5. ~plan.clustered => InitSteps \in Nat \ {0}
  BY <1>3, <1>4 DEF InitSteps, PodSpec
<1>6. QED
  BY <1>1, <1>2, <1>5

-----------------------------------------------------------------------------
(* Type correctness: every plan's pods go through their template's init    *)
(* containers and daemons and nowhere else, and a Deployment keeps its one *)
(* pod (PodsTypeOK, about updateDeploymentSize and updateStatefulSetSize). *)

LEMMA TypeInit == Init => PodsTypeOK
<1>1. SUFFICES ASSUME Init PROVE PodsTypeOK
  OBVIOUS
<1>2. plan \in Plans /\ template = PodSpec(plan)
  BY <1>1 DEF Init
<1>3. InitSteps \in Nat \ {0}
  BY <1>2, TemplateOrdered
<1>4. QED
  BY <1>1, <1>3, PodBoundsAssumption DEF Init, PodsTypeOK, Running

(* What never changes, however a step is taken. *)
LEMMA SameTemplate ==
    ASSUME PodsTypeOK, [Next]_vars
    PROVE  /\ plan' = plan /\ template' = template /\ InitSteps' = InitSteps
           /\ Running' = Running /\ Starting' = Starting
<1>1. plan' = plan /\ template' = template
  BY DEF Next, vars, ComeUp, InitContainer, StartPod, LosePod, RestartPod, Grow,
         SkipInitializer, Initialize, EnsureSharePaths, MustJoin, Migrate, SetNode,
         MustHaveNode, StartDaemons
<1>2. QED
  BY <1>1 DEF InitSteps, Running, Starting

LEMMA TypeStep ==
    ASSUME PodsTypeOK, [Next]_vars
    PROVE  PodsTypeOK'
<1>1. InitSteps \in Nat \ {0} /\ Running = InitSteps + 2 /\ Starting = InitSteps + 1
  BY TemplateOrdered DEF PodsTypeOK, Running, Starting
<1>2. /\ plan' = plan /\ template' = template
      /\ InitSteps' = InitSteps /\ Running' = Running /\ Starting' = Starting
  BY SameTemplate
<1>3. /\ plan \in Plans /\ template = PodSpec(plan)
      /\ size \in Sizes(plan) /\ at \in [Pods -> 0 .. Running]
      /\ joins \in Nat /\ state \in [Pods -> 0 .. joins] /\ db \in [Pods -> 0 .. joins]
      /\ nodes \subseteq Pods /\ faults \in 0 .. MaxFaults
  BY DEF PodsTypeOK
<1> DEFINE KeepTypes ==
        /\ size' \in Sizes(plan) /\ at' \in [Pods -> 0 .. Running]
        /\ joins' \in Nat /\ state' \in [Pods -> 0 .. joins'] /\ db' \in [Pods -> 0 .. joins']
        /\ nodes' \subseteq Pods /\ faults' \in 0 .. MaxFaults
<1>4. SUFFICES KeepTypes
  BY <1>2, <1>3 DEF PodsTypeOK
<1>5. ASSUME NEW p \in Pods, at[p] \in 1 .. InitSteps \/ at[p] = Starting, Done(p)
      PROVE  at' \in [Pods -> 0 .. Running]
  BY <1>1, <1>3, <1>5 DEF Done
<1>6. CASE UNCHANGED vars
  BY <1>3, <1>6 DEF vars
<1>7. ASSUME NEW p \in Pods, StartPod(p) PROVE KeepTypes
  BY <1>1, <1>3, <1>7 DEF StartPod
<1>8. ASSUME NEW p \in Pods, LosePod(p) PROVE KeepTypes
  <2>1. state' \in [Pods -> 0 .. joins] /\ db' \in [Pods -> 0 .. joins]
    BY <1>3, <1>8 DEF LosePod
  <2>2. at' \in [Pods -> 0 .. Running] /\ faults' \in 0 .. MaxFaults
    BY <1>1, <1>3, <1>8, PodBoundsAssumption DEF LosePod
  <2>3. QED
    BY <1>3, <1>8, <2>1, <2>2 DEF LosePod
<1>9. ASSUME NEW p \in Pods, RestartPod(p) PROVE KeepTypes
  BY <1>1, <1>3, <1>9, PodBoundsAssumption DEF RestartPod
<1>10. CASE Grow
  BY <1>3, <1>10, PodBoundsAssumption DEF Grow, Sizes
<1>11. ASSUME NEW p \in Pods, SkipInitializer(p) \/ Initialize(p) \/ EnsureSharePaths(p)
                              \/ MustHaveNode(p)
       PROVE  KeepTypes
  BY <1>3, <1>5, <1>11 DEF SkipInitializer, Initialize, EnsureSharePaths, MustHaveNode, AtContainer
<1>12. ASSUME NEW p \in Pods, MustJoin(p) PROVE KeepTypes
  <2>1. at' \in [Pods -> 0 .. Running]
    BY <1>5, <1>12 DEF MustJoin, AtContainer
  <2>2. joins' \in Nat /\ 0 .. joins \subseteq 0 .. joins' /\ joins' \in 0 .. joins'
    BY <1>3, <1>12 DEF MustJoin
  <2>3. state' \in [Pods -> 0 .. joins'] /\ db' \in [Pods -> 0 .. joins']
    BY <1>3, <1>12, <2>2 DEF MustJoin
  <2>4. QED
    BY <1>3, <1>12, <2>1, <2>2, <2>3 DEF MustJoin
<1>13. ASSUME NEW p \in Pods, Migrate(p) PROVE KeepTypes
  BY <1>3, <1>5, <1>13 DEF Migrate, AtContainer
<1>14. ASSUME NEW p \in Pods, SetNode(p) PROVE KeepTypes
  BY <1>3, <1>5, <1>14 DEF SetNode, AtContainer
<1>15. ASSUME NEW p \in Pods, StartDaemons(p) PROVE KeepTypes
  <2>1. db' \in [Pods -> 0 .. joins]
    BY <1>3, <1>15 DEF StartDaemons
  <2>2. QED
    BY <1>3, <1>5, <1>15, <2>1 DEF StartDaemons
<1>16. QED
  BY <1>6, <1>7, <1>8, <1>9, <1>10, <1>11, <1>12, <1>13, <1>14, <1>15
     DEF Next, ComeUp, InitContainer

(* No pod is ever anywhere but at a container of its template or serving,  *)
(* and a server that is not clustered has one pod.                         *)
THEOREM PodsTypeCorrect == Spec => []PodsTypeOK
<1>1. Init => PodsTypeOK
  BY TypeInit
<1>2. PodsTypeOK /\ [Next]_vars => PodsTypeOK'
  BY TypeStep
<1>3. QED
  BY <1>1, <1>2, PTL DEF Spec

-----------------------------------------------------------------------------
(* No server ousted.  Only pod 0 can join a cluster's domain, and only     *)
(* while no pod serves: the nodes file is written before the second pod    *)
(* starts.  So whatever a machine account is kept in, it is the last one,  *)
(* save in a database that a newer account in the pod's own state          *)
(* directory is about to replace.                                          *)

(* A state directory's account is the last. *)
Fresh == \A p \in Pods : state[p] # 0 => state[p] = joins

(* So is a database's, when there is nothing newer to migrate, or when     *)
(* that is done.                                                           *)
Migrated ==
    plan.clustered =>
        \A p \in Pods : state[p] = 0 \/ at[p] > InitSteps - 2 => db[p] \in {0, joins}

(* Past ctdb-set-node there is a nodes file. *)
Registered == plan.clustered => \A p \in Pods : at[p] > InitSteps - 1 => nodes # {}

(* A pod other than the first has done nothing before there is one. *)
FirstAlone ==
    \A p \in Pods \ {0} :
        IF plan.clustered
        THEN nodes = {} => at[p] = 0 /\ state[p] = 0 /\ db[p] = 0
        ELSE at[p] = 0 /\ state[p] = 0

OneAccount == PodsTypeOK /\ Fresh /\ Migrated /\ Registered /\ FirstAlone

(* The invariant after a step of pod p that leaves the accounts alone and  *)
(* moves on from a container that neither migrates nor registers.          *)
LEMMA PlainStep ==
    ASSUME OneAccount, [Next]_vars, NEW p \in Pods,
           UNCHANGED <<state, db, nodes, joins>>,
           AtContainer(p, "init") \/ AtContainer(p, "ensure-share-paths")
               \/ AtContainer(p, "must-join") \/ AtContainer(p, "ctdb-must-have-node"),
           Done(p)
    PROVE  Fresh' /\ Migrated' /\ Registered' /\ FirstAlone'
<1>1. plan' = plan /\ InitSteps' = InitSteps
  BY SameTemplate DEF OneAccount
<1>2. at \in [Pods -> 0 .. Running] /\ InitSteps \in Nat \ {0} /\ Running = InitSteps + 2
  BY TemplateOrdered DEF OneAccount, PodsTypeOK, Running
<1>3. at' = [at EXCEPT ![p] = at[p] + 1] /\ at[p] \in 1 .. InitSteps
  BY DEF Done, AtContainer
<1>4. plan.clustered => at[p] # InitSteps - 2 /\ at[p] # InitSteps - 1
  BY TemplateOrdered DEF AtContainer, OneAccount, PodsTypeOK, Ordered, InitSteps
<1>5. Fresh'
  BY DEF OneAccount, Fresh
<1>6. Migrated'
  BY <1>1, <1>2, <1>3, <1>4 DEF OneAccount, Migrated
<1>7. Registered'
  BY <1>1, <1>2, <1>3, <1>4 DEF OneAccount, Registered
<1>8. FirstAlone'
  BY <1>1, <1>2, <1>3 DEF OneAccount, FirstAlone
<1>9. QED
  BY <1>5, <1>6, <1>7, <1>8

(* Only the first pod joins, and before the cluster has a nodes file. *)
LEMMA FirstPodJoins ==
    ASSUME OneAccount, NEW p \in Pods, MustJoin(p)
    PROVE  p = 0 /\ (plan.clustered => nodes = {} /\ at[p] < InitSteps - 2)
<1>1. at[p] \in 1 .. InitSteps /\ template.init[at[p]].name = "must-join" /\ ~Skips(p)
  BY DEF MustJoin, AtContainer
<1>2. plan.clustered =>
        at[p] < InitSteps - 2 /\ CTDBShared \in Values(template.init[at[p]].mounts)
  BY <1>1, TemplateOrdered DEF OneAccount, PodsTypeOK, Ordered, InitSteps
<1>3. plan.clustered => nodes = {}
  BY <1>1, <1>2 DEF Skips, Skippable, Mounts
<1>4. at[p] # 0
  BY <1>1, TemplateOrdered DEF OneAccount, PodsTypeOK
<1>5. p = 0
  BY <1>3, <1>4 DEF OneAccount, FirstAlone
<1>6. QED
  BY <1>2, <1>3, <1>5

LEMMA OneAccountInit == Init => OneAccount
<1>1. SUFFICES ASSUME Init PROVE OneAccount
  OBVIOUS
<1>2. PodsTypeOK /\ InitSteps \in Nat \ {0}
  BY <1>1, TypeInit, TemplateOrdered DEF PodsTypeOK
<1>3. \A p \in Pods : at[p] = 0 /\ state[p] = 0 /\ db[p] = 0
  BY <1>1 DEF Init
<1>4. plan.clustered => InitSteps \in {5, 6}
  BY <1>2, TemplateOrdered DEF PodsTypeOK, Ordered, InitSteps
<1>5. QED
  BY <1>1, <1>2, <1>3, <1>4 DEF Init, OneAccount, Fresh, Migrated, Registered, FirstAlone

LEMMA OneAccountStep ==
    ASSUME OneAccount, [Next]_vars
    PROVE  OneAccount'
<1>1. /\ plan' = plan /\ InitSteps' = InitSteps /\ Running' = Running /\ Starting' = Starting
      /\ PodsTypeOK'
  BY SameTemplate, TypeStep DEF OneAccount
<1>2. /\ at \in [Pods -> 0 .. Running] /\ joins \in Nat /\ Pods \subseteq Nat
      /\ state \in [Pods -> 0 .. joins] /\ db \in [Pods -> 0 .. joins]
      /\ size \in Sizes(plan) /\ nodes \subseteq Pods /\ 0 \in Pods
  BY PodBoundsAssumption DEF OneAccount, PodsTypeOK, Pods
<1>3. /\ InitSteps \in Nat \ {0} /\ Running = InitSteps + 2 /\ Starting = InitSteps + 1
      /\ plan.clustered => /\ InitSteps \in {5, 6}
                           /\ template.init[InitSteps - 2].name = "ctdb-migrate"
                           /\ template.init[InitSteps - 1].name = "ctdb-set-node"
  BY TemplateOrdered DEF OneAccount, PodsTypeOK, Running, Starting, Ordered, InitSteps
<1>4. Fresh /\ Migrated /\ Registered /\ FirstAlone
  BY DEF OneAccount
<1> DEFINE Keeps == Fresh' /\ Migrated' /\ Registered' /\ FirstAlone'
<1>5. SUFFICES Keeps
  BY <1>1 DEF OneAccount
<1>6. CASE UNCHANGED vars
  BY <1>1, <1>4, <1>6 DEF vars, Fresh, Migrated, Registered, FirstAlone
<1>7. ASSUME NEW p \in Pods, StartPod(p) PROVE Keeps
  <2>1. at' = [at EXCEPT ![p] = 1] /\ UNCHANGED <<state, db, nodes, joins>>
    BY <1>7 DEF StartPod
  <2>2. Fresh' /\ Migrated' /\ Registered'
    BY <1>1, <1>2, <1>3, <1>4, <2>1 DEF Fresh, Migrated, Registered
  <2>3. CASE p = 0
    BY <1>1, <1>2, <1>4, <2>1, <2>2, <2>3 DEF FirstAlone
  <2>4. CASE p # 0
    <3>1. plan.clustered
      BY <1>2, <1>7, <2>4 DEF StartPod, Sizes
    <3>2. at[0] = InitSteps + 2
      BY <1>2, <1>3, <1>7, <2>4 DEF StartPod, Up
    <3>3. nodes # {}
      BY <1>2, <1>3, <1>4, <3>1, <3>2 DEF Registered
    <3>4. QED
      BY <1>1, <2>1, <2>2, <3>1, <3>3 DEF FirstAlone
  <2>5. QED
    BY <2>2, <2>3, <2>4
<1>8. ASSUME NEW p \in Pods, LosePod(p) PROVE Keeps
  <2>1. /\ at' = [at EXCEPT ![p] = 0] /\ state' = [state EXCEPT ![p] = 0]
        /\ db' = [db EXCEPT ![p] = 0] /\ UNCHANGED <<nodes, joins>>
    BY <1>8 DEF LosePod, EmptyDirs
  <2>2. Fresh' /\ Registered' /\ FirstAlone'
    BY <1>1, <1>2, <1>3, <1>4, <2>1 DEF Fresh, Registered, FirstAlone
  <2>3. Migrated'
    BY <1>1, <1>2, <1>3, <1>4, <2>1 DEF Migrated
  <2>4. QED
    BY <2>2, <2>3
<1>9. ASSUME NEW p \in Pods, RestartPod(p) PROVE Keeps
  <2>1. at' = [at EXCEPT ![p] = 1] /\ at[p] > 1 /\ UNCHANGED <<state, db, nodes, joins>>
    BY <1>9 DEF RestartPod
  <2>2. QED
    BY <1>1, <1>2, <1>3, <1>4, <2>1 DEF Fresh, Migrated, Registered, FirstAlone
<1>10. CASE Grow
  <2>1. UNCHANGED <<at, state, db, nodes, joins>>
    BY <1>10 DEF Grow
  <2>2. QED
    BY <1>1, <1>4, <2>1 DEF Fresh, Migrated, Registered, FirstAlone
<1>11. ASSUME NEW p \in Pods, SkipInitializer(p) \/ Initialize(p) \/ EnsureSharePaths(p)
                              \/ MustHaveNode(p)
       PROVE  Keeps
  BY <1>11, PlainStep DEF SkipInitializer, Initialize, EnsureSharePaths, MustHaveNode
<1>12. ASSUME NEW p \in Pods, MustJoin(p) PROVE Keeps
  <2>1. p = 0 /\ (plan.clustered => nodes = {} /\ at[p] < InitSteps - 2)
    BY <1>12, FirstPodJoins
  <2>2. /\ joins' = joins + 1 /\ state' = [state EXCEPT ![p] = joins + 1]
        /\ at' = [at EXCEPT ![p] = at[p] + 1] /\ at[p] \in 1 .. InitSteps
        /\ UNCHANGED <<db, nodes>>
    BY <1>12 DEF MustJoin, Done, AtContainer
  <2>3. \A q \in Pods \ {0} :
          state[q] = 0 /\ (plan.clustered => at[q] = 0 /\ db[q] = 0)
    BY <1>4, <2>1 DEF FirstAlone
  <2>4. Fresh'
    BY <1>2, <2>1, <2>2, <2>3 DEF Fresh
  <2>5. Migrated'
    BY <1>1, <1>2, <1>3, <2>1, <2>2, <2>3 DEF Migrated
  <2>6. Registered'
    BY <1>1, <1>2, <1>3, <1>4, <2>1, <2>2 DEF Registered
  <2>7. FirstAlone'
    BY <1>1, <1>2, <1>4, <2>1, <2>2 DEF FirstAlone
  <2>8. QED
    BY <2>4, <2>5, <2>6, <2>7
<1>13. ASSUME NEW p \in Pods, Migrate(p) PROVE Keeps
  <2>1. /\ at' = [at EXCEPT ![p] = at[p] + 1] /\ at[p] \in 1 .. InitSteps
        /\ template.init[at[p]].name = "ctdb-migrate"
        /\ UNCHANGED <<state, nodes, joins>>
    BY <1>13 DEF Migrate, Done, AtContainer
  <2>2. db' = IF state[p] # 0 THEN [db EXCEPT ![p] = state[p]] ELSE db
    BY <1>13 DEF Migrate
  <2>3. plan.clustered => at[p] # InitSteps - 1
    BY <1>3, <2>1
  <2>4. Fresh' /\ Registered'
    BY <1>1, <1>2, <1>3, <1>4, <2>1, <2>3 DEF Fresh, Registered
  <2>5. db'[p] \in {db[p], joins} /\ (state[p] = 0 => db'[p] = db[p])
        /\ (state[p] # 0 => db'[p] = joins) /\ \A q \in Pods \ {p} : db'[q] = db[q]
    BY <1>2, <1>4, <2>2 DEF Fresh
  <2>6. Migrated'
    BY <1>1, <1>2, <1>3, <1>4, <2>1, <2>5 DEF Migrated
  <2>7. FirstAlone'
    BY <1>1, <1>2, <1>4, <2>1, <2>5 DEF FirstAlone
  <2>8. QED
    BY <2>4, <2>6, <2>7
<1>14. ASSUME NEW p \in Pods, SetNode(p) PROVE Keeps
  <2>1. /\ at' = [at EXCEPT ![p] = at[p] + 1] /\ at[p] \in 1 .. InitSteps
        /\ template.init[at[p]].name = "ctdb-set-node"
        /\ nodes' = nodes \cup {p} /\ UNCHANGED <<state, db, joins>>
    BY <1>14 DEF SetNode, Done, AtContainer
  <2>2. plan.clustered => at[p] # InitSteps - 2
    BY <1>3, <2>1
  <2>3. Fresh' /\ Registered'
    BY <1>1, <1>2, <1>4, <2>1 DEF Fresh, Registered
  <2>4. Migrated'
    BY <1>1, <1>2, <1>3, <1>4, <2>1, <2>2 DEF Migrated
  <2>5. FirstAlone'
    BY <1>1, <1>2, <1>4, <2>1 DEF FirstAlone
  <2>6. QED
    BY <2>3, <2>4, <2>5
<1>15. ASSUME NEW p \in Pods, StartDaemons(p) PROVE Keeps
  <2>1. /\ at' = [at EXCEPT ![p] = at[p] + 1] /\ at[p] = InitSteps + 1
        /\ UNCHANGED <<state, nodes, joins>>
    BY <1>3, <1>15 DEF StartDaemons, Done
  <2>2. db' = db \/ (plan.clustered /\ \E q \in Pods : Up(q) /\ db' = [db EXCEPT ![p] = db[q]])
    BY <1>15 DEF StartDaemons
  <2>3. \A q \in Pods : plan.clustered /\ Up(q) => db[q] \in {0, joins}
    BY <1>2, <1>3, <1>4 DEF Up, Migrated
  <2>4. \A q \in Pods : db'[q] = db[q] \/ (plan.clustered /\ db'[q] \in {0, joins})
    BY <1>2, <2>2, <2>3
  <2>5. plan.clustered => nodes # {}
    BY <1>2, <1>3, <1>4, <2>1 DEF Registered
  <2>6. Fresh' /\ Registered'
    BY <1>1, <1>2, <1>3, <1>4, <2>1 DEF Fresh, Registered
  <2>7. Migrated'
    BY <1>1, <1>2, <1>3, <1>4, <2>1, <2>4 DEF Migrated
  <2>8. FirstAlone'
    <3>1. CASE plan.clustered
      BY <1>1, <2>1, <2>5, <3>1 DEF FirstAlone
    <3>2. CASE ~plan.clustered
      <4>1. p = 0
        BY <1>2, <1>3, <1>4, <2>1, <3>2 DEF FirstAlone
      <4>2. \A q \in Pods \ {0} : at'[q] = at[q] /\ state'[q] = state[q]
        BY <1>2, <2>1, <4>1
      <4>3. QED
        BY <1>1, <1>4, <3>2, <4>2 DEF FirstAlone
    <3>3. QED
      BY <3>1, <3>2
  <2>9. QED
    BY <2>6, <2>7, <2>8
<1>16. QED
  BY <1>6, <1>7, <1>8, <1>9, <1>10, <1>11, <1>12, <1>13, <1>14, <1>15
     DEF Next, ComeUp, InitContainer

(* Whatever pods are lost, started over or added, a pod that joins the     *)
(* domain puts none that serves out of it (the order of the init           *)
(* containers, and --skip-if-file).                                        *)
THEOREM NoneOusted == Spec => []NoServerOusted
<1>1. Init => OneAccount
  BY OneAccountInit
<1>2. OneAccount /\ [Next]_vars => OneAccount'
  BY OneAccountStep
<1>3. OneAccount => NoServerOusted
  <2>1. SUFFICES ASSUME OneAccount, NEW p \in Pods, Up(p), Membership(p) # 0
                 PROVE  Membership(p) = joins
    BY DEF NoServerOusted
  <2>2. InitSteps \in Nat /\ at[p] = InitSteps + 2
    BY <2>1, TemplateOrdered DEF OneAccount, PodsTypeOK, Up, Running
  <2>3. QED
    BY <2>1, <2>2 DEF OneAccount, Fresh, Migrated, Membership
<1>4. QED
  BY <1>1, <1>2, <1>3, PTL DEF Spec

-----------------------------------------------------------------------------
(* Every pod is well built *)

(* Volumes are told apart by what they hold. *)
LEMMA Holdings ==
    /\ Data[1] = "data" /\ SambaConfig[1] = "config" /\ UsersConfig[1] = "users"
    /\ SambaState[1] = "state" /\ OSRun[1] = "run" /\ WbSockets[1] = "wb-sockets"
    /\ SvcWatch[1] = "svcwatch" /\ CTDBConfig[1] = "ctdb-config"
    /\ CTDBPersistent[1] = "ctdb-persistent" /\ CTDBVolatile[1] = "ctdb-volatile"
    /\ CTDBSockets[1] = "ctdb-sockets" /\ CTDBShared[1] = "ctdb-shared"
    /\ \A p \in Plans : \A v \in JoinFiles(p) : v[1] = "join-data"
BY DEF Data, SambaConfig, UsersConfig, SambaState, OSRun, WbSockets, SvcWatch, CTDBConfig,
       CTDBPersistent, CTDBVolatile, CTDBSockets, CTDBShared, Volume, JoinFiles, JoinJSON

(* The daemons that Talking means. *)
Talkers(vol) ==
    IF vol = WbSockets THEN {"winbind", "smbd", "dns-register"}
    ELSE {"ctdb", "ctdb-manage-nodes", "smbd", "winbind"}

(* What container c of plan p may be told of and not mount. *)
Excused(name, p) ==
    IF name = "ensure-share-paths" /\ ~p.clustered THEN {UsersConfig} ELSE {}

(* A container with these mounts is in order in a pod with volumes V. *)
Suits(name, reads, M, p, V) ==
    /\ M \subseteq V
    /\ reads \subseteq M \cup Excused(name, p)
    /\ \A vol \in {WbSockets, CTDBSockets} \cap V : name \in Talkers(vol) => vol \in M

Fits(c, p, V) == Valid(c.mounts) /\ Suits(c.name, c.reads, Values(c.mounts), p, V)

AllFit(cs, p, V) == cs \in Seq(Values(cs)) /\ \A c \in Values(cs) : Fits(c, p, V)

LEMMA ContainerFits ==
    ASSUME NEW name, NEW reads, NEW mounts, NEW M, NEW p, NEW V,
           Lists(mounts, M), Suits(name, reads, M, p, V)
    PROVE  Fits(Container(name, reads, mounts), p, V)
BY DEF Fits, Container, Lists

LEMMA AllFitFew ==
    ASSUME NEW p, NEW V
    PROVE  /\ AllFit(<<>>, p, V)
           /\ \A c : Fits(c, p, V) => AllFit(<<c>>, p, V)
           /\ \A c, c2 : Fits(c, p, V) /\ Fits(c2, p, V) => AllFit(<<c, c2>>, p, V)
           /\ \A c, c2, c3 : Fits(c, p, V) /\ Fits(c2, p, V) /\ Fits(c3, p, V)
                 => AllFit(<<c, c2, c3>>, p, V)
BY DEF AllFit, Values

LEMMA AllFitConcat ==
    ASSUME NEW p, NEW V, NEW cs, NEW cs2, AllFit(cs, p, V), AllFit(cs2, p, V)
    PROVE  AllFit(cs \o cs2, p, V)
<1> DEFINE new == cs \o cs2
           S == Values(cs) \cup Values(cs2)
<1>1. cs \in Seq(S) /\ cs2 \in Seq(S)
  BY DEF AllFit
<1>2. /\ new \in Seq(S)
      /\ DOMAIN new = 1 .. Len(new) /\ Len(new) \in Nat
  BY <1>1
<1>3. new \in Seq(Values(new))
  <2> HIDE DEF new
  <2>1. new \in [1 .. Len(new) -> Values(new)]
    BY <1>2 DEF Values
  <2>2. QED
    BY <1>2, <2>1, SeqDef
<1>4. Values(new) \subseteq S
  <2> HIDE DEF new
  <2>1. QED
    BY <1>2 DEF Values
<1>5. QED
  BY <1>3, <1>4 DEF AllFit

LEMMA UsersList ==
    ASSUME NEW p
    PROVE  Lists(UsersVolume(p), PodEnv(p) \ {SambaConfig})
BY ListsFew, Holdings DEF UsersVolume, PodEnv

LEMMA DNSList ==
    ASSUME NEW p
    PROVE  Lists(DNSVolume(p), IF RegistersDNS(p) THEN {SvcWatch} ELSE {})
BY ListsFew DEF DNSVolume

(* The server's own containers, whose mounts have the sockets there are.   *)
LEMMA SmbdFit ==
    ASSUME NEW p, NEW mounts, NEW M, NEW V, Lists(mounts, M), M \subseteq V,
           PodEnv(p) \subseteq M, {WbSockets, CTDBSockets} \cap V \subseteq M
    PROVE  AllFit(SmbdContainers(p, mounts), p, V)
<1> DEFINE smbd == Container("smbd", PodEnv(p), mounts)
           watch == Container("watch-update-config", PodEnv(p), mounts)
           metrics == Container("metrics", {}, WithoutData(mounts))
<1>1. Fits(smbd, p, V) /\ Fits(watch, p, V)
  BY ContainerFits DEF Suits
<1>2. Fits(metrics, p, V)
  <2>1. Suits("metrics", {}, M \ {Data}, p, V)
    BY DEF Suits, Talkers
  <2>2. QED
    BY <2>1, WithoutDataLists, ContainerFits
<1>3. AllFit(<<smbd, watch>>, p, V) /\ AllFit(<<metrics>>, p, V) /\ AllFit(<<>>, p, V)
  BY <1>1, <1>2, AllFitFew
<1> HIDE DEF smbd, watch, metrics
<1>4. AllFit(<<smbd, watch>> \o (IF p.metrics THEN <<metrics>> ELSE <<>>), p, V)
  BY <1>3, AllFitConcat
<1>5. QED
  BY <1>4 DEF SmbdContainers, smbd, watch, metrics

LEMMA DNSFit ==
    ASSUME NEW p, NEW mounts, NEW M, NEW V, Lists(mounts, M), M \subseteq V,
           PodEnv(p) \subseteq M, WbSockets \in M, SvcWatch \notin M,
           RegistersDNS(p) => SvcWatch \in V
    PROVE  AllFit(DNSContainers(p, mounts), p, V)
<1>1. CASE ~RegistersDNS(p)
  BY <1>1, AllFitFew DEF DNSContainers
<1>2. CASE RegistersDNS(p)
  <2> DEFINE watch == Container("svc-watch", {SvcWatch}, <<SvcWatch>>)
             register == Container("dns-register", PodEnv(p) \cup {SvcWatch},
                                   Append(mounts, SvcWatch))
  <2>1. Lists(<<SvcWatch>>, {SvcWatch}) /\ Lists(Append(mounts, SvcWatch), M \cup {SvcWatch})
    BY ListsFew, ListsAppend
  <2>2. Suits("svc-watch", {SvcWatch}, {SvcWatch}, p, V)
    BY <1>2 DEF Suits, Talkers
  <2>3. Suits("dns-register", PodEnv(p) \cup {SvcWatch}, M \cup {SvcWatch}, p, V)
    BY <1>2, Holdings DEF Suits, Talkers
  <2>4. Fits(watch, p, V) /\ Fits(register, p, V)
    BY <2>1, <2>2, <2>3, ContainerFits
  <2>5. QED
    BY <1>2, <2>4, AllFitFew DEF DNSContainers
<1>3. QED
  BY <1>1, <1>2

(* The volumes of CTDB, and what its containers mount of them. *)
CTDBSet == {CTDBConfig, CTDBPersistent, CTDBVolatile, CTDBSockets, CTDBShared}

LEMMA CTDBList == Lists(CTDBVolumes, CTDBSet)
<1>1. Lists(<<CTDBConfig, CTDBPersistent, CTDBVolatile>>, {CTDBConfig, CTDBPersistent, CTDBVolatile})
  BY ListsFew, Holdings
<1>2. Lists(<<CTDBSockets, CTDBShared>>, {CTDBSockets, CTDBShared})
  BY ListsFew, Holdings
<1>3. Lists(<<CTDBConfig, CTDBPersistent, CTDBVolatile>> \o <<CTDBSockets, CTDBShared>>,
            {CTDBConfig, CTDBPersistent, CTDBVolatile} \cup {CTDBSockets, CTDBShared})
  BY <1>1, <1>2, ListsConcat, Holdings
<1>4. CTDBVolumes = <<CTDBConfig, CTDBPersistent, CTDBVolatile>> \o <<CTDBSockets, CTDBShared>>
  BY DEF CTDBVolumes
<1>5. CTDBSet = {CTDBConfig, CTDBPersistent, CTDBVolatile} \cup {CTDBSockets, CTDBShared}
  BY DEF CTDBSet
<1>6. QED
  BY <1>3, <1>4, <1>5

LEMMA CTDBInitFit ==
    ASSUME NEW p, NEW config, NEW V, Lists(config, PodEnv(p)),
           PodEnv(p) \cup {SambaState} \cup CTDBSet \subseteq V
    PROVE  AllFit(CTDBInitContainers(p, config), p, V)
<1> DEFINE base == config \o <<SambaState, CTDBShared, CTDBConfig>>
           M == PodEnv(p) \cup {SambaState, CTDBShared, CTDBConfig}
<1>1. PodEnv(p) \subseteq {SambaConfig, UsersConfig}
  BY DEF PodEnv
<1>2. Lists(base, M)
  <2>1. Lists(<<SambaState, CTDBShared, CTDBConfig>>, {SambaState, CTDBShared, CTDBConfig})
    BY ListsFew, Holdings
  <2>2. PodEnv(p) \cap {SambaState, CTDBShared, CTDBConfig} = {}
    BY <1>1, Holdings
  <2>3. QED
    BY <2>1, <2>2, ListsConcat
<1>3. Lists(Append(base, CTDBPersistent), M \cup {CTDBPersistent})
  <2>1. CTDBPersistent \notin M
    BY <1>1, Holdings
  <2>2. QED
    BY <1>2, <2>1, ListsAppend
<1> HIDE DEF base
<1>4. Suits("ctdb-migrate", PodEnv(p), M \cup {CTDBPersistent}, p, V)
  BY DEF Suits, Talkers, CTDBSet
<1>5. /\ Suits("ctdb-set-node", PodEnv(p), M, p, V)
      /\ Suits("ctdb-must-have-node", PodEnv(p), M, p, V)
  BY DEF Suits, Talkers, CTDBSet
<1> HIDE DEF M
<1>6. /\ Fits(Container("ctdb-migrate", PodEnv(p), Append(base, CTDBPersistent)), p, V)
      /\ Fits(Container("ctdb-set-node", PodEnv(p), base), p, V)
      /\ Fits(Container("ctdb-must-have-node", PodEnv(p), base), p, V)
  BY <1>2, <1>3, <1>4, <1>5, ContainerFits
<1>7. QED
  BY <1>6, AllFitFew DEF CTDBInitContainers, base

LEMMA CTDBFit ==
    ASSUME NEW p, NEW config, NEW V, Lists(config, PodEnv(p)),
           PodEnv(p) \cup CTDBSet \subseteq V, WbSockets \notin PodEnv(p) \cup CTDBSet
    PROVE  AllFit(CTDBContainers(p, config), p, V)
<1> DEFINE few == <<CTDBConfig, CTDBSockets, CTDBShared>>
           M == PodEnv(p) \cup {CTDBConfig, CTDBSockets, CTDBShared}
<1>1. PodEnv(p) \subseteq {SambaConfig, UsersConfig}
  BY DEF PodEnv
<1>2. PodEnv(p) \cap CTDBSet = {}
  BY <1>1, Holdings DEF CTDBSet
<1>3. Lists(config \o CTDBVolumes, PodEnv(p) \cup CTDBSet)
  BY <1>2, CTDBList, ListsConcat
<1>4. Lists(config \o few, M)
  <2>1. Lists(few, {CTDBConfig, CTDBSockets, CTDBShared})
    BY ListsFew, Holdings
  <2>2. PodEnv(p) \cap {CTDBConfig, CTDBSockets, CTDBShared} = {}
    BY <1>2 DEF CTDBSet
  <2>3. QED
    BY <2>1, <2>2, ListsConcat
<1>5. /\ Suits("ctdb", PodEnv(p), PodEnv(p) \cup CTDBSet, p, V)
      /\ Suits("ctdb-manage-nodes", PodEnv(p), M, p, V)
  BY DEF Suits, Talkers, CTDBSet
<1> HIDE DEF few, M
<1>6. /\ Fits(Container("ctdb", PodEnv(p), config \o CTDBVolumes), p, V)
      /\ Fits(Container("ctdb-manage-nodes", PodEnv(p), config \o few), p, V)
  BY <1>3, <1>4, <1>5, ContainerFits
<1>7. QED
  BY <1>6, AllFitFew DEF CTDBContainers, few

BuiltWell(spec, p) ==
    \E V : /\ Lists(spec.volumes, V)
           /\ AllFit(spec.init, p, V)
           /\ AllFit(spec.containers, p, V)

LEMMA UserPodBuiltWell ==
    ASSUME NEW p \in Plans, ~p.clustered
    PROVE  BuiltWell(UserPodSpec(p), p)
<1> DEFINE base == <<Data, SambaState, SambaConfig>>
           B == {Data, SambaState, SambaConfig}
           all == Append(base, OSRun) \o UsersVolume(p)
           V == B \cup {OSRun} \cup (PodEnv(p) \ {SambaConfig})
           ensure == Container("ensure-share-paths", PodEnv(p), base)
<1>1. PodEnv(p) \subseteq {SambaConfig, UsersConfig}
  BY DEF PodEnv
<1>2. Lists(base, B) /\ OSRun \notin B
  BY ListsFew, Holdings
<1>3. Lists(Append(base, OSRun), B \cup {OSRun})
  BY <1>2, ListsAppend
<1>4. Lists(all, V)
  <2>1. (B \cup {OSRun}) \cap (PodEnv(p) \ {SambaConfig}) = {}
    BY <1>1, Holdings
  <2>2. QED
    BY <1>3, <2>1, UsersList, ListsConcat
<1>5. Fits(ensure, p, V)
  <2>1. Suits("ensure-share-paths", PodEnv(p), B, p, V)
    BY <1>1 DEF Suits, Talkers, Excused
  <2>2. QED
    BY <1>2, <2>1, ContainerFits
<1>6. AllFit(SmbdContainers(p, all), p, V)
  <2>1. PodEnv(p) \subseteq V
    BY <1>1
  <2>2. WbSockets \notin V /\ CTDBSockets \notin V
    BY <1>1, Holdings
  <2> HIDE DEF all, V
  <2>3. QED
    BY <1>4, <2>1, <2>2, SmbdFit
<1>7. AllFit(<<ensure>>, p, V)
  BY <1>5, AllFitFew
<1>8. /\ UserPodSpec(p).volumes = all /\ UserPodSpec(p).init = <<ensure>>
      /\ UserPodSpec(p).containers = SmbdContainers(p, all)
  BY DEF UserPodSpec
<1> HIDE DEF all, V, ensure
<1>9. QED
  BY <1>4, <1>6, <1>7, <1>8 DEF BuiltWell

LEMMA ADPodBuiltWell ==
    ASSUME NEW p \in Plans, p.ad
    PROVE  BuiltWell(ADPodSpec(p), p)
<1> DEFINE base == <<SambaConfig, SambaState>>
           server == Append(base, WbSockets)
           smbd == Append(server, Data)
           joined == base \o JoinVolumes(p)
           B == {SambaConfig, SambaState}
           S == B \cup {WbSockets}
           M == S \cup {Data}
           J == JoinFiles(p)
           D == IF RegistersDNS(p) THEN {SvcWatch} ELSE {}
           V == M \cup J \cup D
           init == Container("init", PodEnv(p), base)
           ensure == Container("ensure-share-paths", PodEnv(p), smbd)
           join == Container("must-join", PodEnv(p) \cup J, joined)
           winbind == Container("winbind", PodEnv(p), server)
<1>1. PodEnv(p) = {SambaConfig}
  BY DEF PodEnv, HasUsersConfig
<1>2. \A v \in J : v[1] = "join-data"
  BY Holdings
<1> HIDE DEF J
<1>3. Lists(base, B)
  BY ListsFew, Holdings
<1>4. Lists(server, S)
  BY <1>3, ListsAppend, Holdings
<1>5. Lists(smbd, M)
  BY <1>4, ListsAppend, Holdings
<1>6. Lists(JoinVolumes(p), J)
  BY JoinVolumesList DEF J
<1>7. Lists(joined, B \cup J)
  <2>1. B \cap J = {}
    BY <1>2, Holdings
  <2>2. QED
    BY <1>3, <1>6, <2>1, ListsConcat
<1>8. Lists(smbd \o JoinVolumes(p) \o DNSVolume(p), V)
  <2>1. M \cap J = {} /\ (M \cup J) \cap D = {}
    BY <1>2, Holdings
  <2>2. Lists(DNSVolume(p), D)
    BY DNSList
  <2> HIDE DEF M, D, smbd
  <2>3. Lists(smbd \o JoinVolumes(p), M \cup J)
    BY <1>5, <1>6, <2>1, ListsConcat
  <2>4. QED
    BY <2>1, <2>2, <2>3, ListsConcat
<1>9. CTDBSockets \notin V
  BY <1>2, Holdings
<1>10. /\ Suits("init", PodEnv(p), B, p, V)
       /\ Suits("ensure-share-paths", PodEnv(p), M, p, V)
       /\ Suits("must-join", PodEnv(p) \cup J, B \cup J, p, V)
       /\ Suits("winbind", PodEnv(p), S, p, V)
  BY <1>1, <1>9 DEF Suits, Talkers
<1>11. Fits(init, p, V) /\ Fits(ensure, p, V) /\ Fits(join, p, V) /\ Fits(winbind, p, V)
  <2> HIDE DEF base, server, smbd, joined, V, B, S, M
  <2>1. QED
    BY <1>3, <1>4, <1>5, <1>7, <1>10, ContainerFits
<1>12. AllFit(<<init, ensure, join>>, p, V) /\ AllFit(<<winbind>>, p, V)
  <2> HIDE DEF init, ensure, join, winbind, V
  <2>1. QED
    BY <1>11, AllFitFew
<1>13. AllFit(SmbdContainers(p, smbd), p, V)
  BY <1>1, <1>5, <1>9, SmbdFit
<1>14. AllFit(DNSContainers(p, server), p, V)
  <2>1. /\ S \subseteq V /\ PodEnv(p) \subseteq S /\ WbSockets \in S /\ SvcWatch \notin S
        /\ RegistersDNS(p) => SvcWatch \in V
    BY <1>1, Holdings
  <2> HIDE DEF S, V, server
  <2>2. QED
    BY <1>4, <2>1, DNSFit
<1>15. /\ ADPodSpec(p).volumes = smbd \o JoinVolumes(p) \o DNSVolume(p)
       /\ ADPodSpec(p).init = <<init, ensure, join>>
       /\ ADPodSpec(p).containers
             = SmbdContainers(p, smbd) \o <<winbind>> \o DNSContainers(p, server)
  BY DEF ADPodSpec, J
<1> HIDE DEF smbd, server, V, init, ensure, join, winbind
<1>16. AllFit(ADPodSpec(p).containers, p, V)
  BY <1>12, <1>13, <1>14, <1>15, AllFitConcat
<1>17. QED
  BY <1>8, <1>12, <1>15, <1>16 DEF BuiltWell

(* init and ensure-share-paths of a clustered pod. *)
LEMMA ClusteredInitFit ==
    ASSUME NEW p, NEW config, NEW V, p.clustered, Lists(config, PodEnv(p)),
           PodEnv(p) \cup {SambaState, CTDBShared, Data} \subseteq V
    PROVE  /\ Fits(Container("init", PodEnv(p), config \o <<SambaState, CTDBShared>>), p, V)
           /\ Fits(Container("ensure-share-paths", PodEnv(p), config \o <<SambaState, Data>>),
                   p, V)
<1>1. PodEnv(p) \subseteq {SambaConfig, UsersConfig}
  BY DEF PodEnv
<1>2. /\ Lists(<<SambaState, CTDBShared>>, {SambaState, CTDBShared})
      /\ Lists(<<SambaState, Data>>, {SambaState, Data})
  BY ListsFew, Holdings
<1>3. PodEnv(p) \cap {SambaState, CTDBShared} = {} /\ PodEnv(p) \cap {SambaState, Data} = {}
  BY <1>1, Holdings
<1>4. /\ Lists(config \o <<SambaState, CTDBShared>>, PodEnv(p) \cup {SambaState, CTDBShared})
      /\ Lists(config \o <<SambaState, Data>>, PodEnv(p) \cup {SambaState, Data})
  BY <1>2, <1>3, ListsConcat
<1>5. /\ Suits("init", PodEnv(p), PodEnv(p) \cup {SambaState, CTDBShared}, p, V)
      /\ Suits("ensure-share-paths", PodEnv(p), PodEnv(p) \cup {SambaState, Data}, p, V)
  BY DEF Suits, Talkers
<1>6. QED
  BY <1>4, <1>5, ContainerFits

LEMMA ClusteredUserPodBuiltWell ==
    ASSUME NEW p \in Plans, p.clustered
    PROVE  BuiltWell(ClusteredUserPodSpec(p), p)
<1> DEFINE config == <<SambaConfig>> \o UsersVolume(p)
           base == <<Data, SambaConfig, SambaState>>
           B == {Data, SambaConfig, SambaState}
           U == PodEnv(p) \ {SambaConfig}
           all == base \o CTDBVolumes \o UsersVolume(p)
           V == B \cup CTDBSet \cup U
           init == Container("init", PodEnv(p), config \o <<SambaState, CTDBShared>>)
           ensure == Container("ensure-share-paths", PodEnv(p), config \o <<SambaState, Data>>)
<1>1. PodEnv(p) \subseteq {SambaConfig, UsersConfig} /\ SambaConfig \in PodEnv(p)
  BY DEF PodEnv
<1>2. Lists(config, PodEnv(p))
  <2>1. Lists(<<SambaConfig>>, {SambaConfig}) /\ Lists(UsersVolume(p), U)
    BY ListsFew, UsersList
  <2>2. {SambaConfig} \cap U = {} /\ PodEnv(p) = {SambaConfig} \cup U
    BY <1>1
  <2> HIDE DEF U
  <2>3. QED
    BY <2>1, <2>2, ListsConcat
<1>3. Lists(all, V)
  <2>1. Lists(base, B) /\ Lists(UsersVolume(p), U)
    BY ListsFew, UsersList, Holdings
  <2>2. B \cap CTDBSet = {} /\ (B \cup CTDBSet) \cap U = {}
    BY <1>1, Holdings DEF CTDBSet
  <2> HIDE DEF base, B, U
  <2>3. Lists(base \o CTDBVolumes, B \cup CTDBSet)
    BY <2>1, <2>2, CTDBList, ListsConcat
  <2>4. QED
    BY <2>1, <2>2, <2>3, ListsConcat
<1>4. /\ PodEnv(p) \cup {SambaState, CTDBShared, Data} \subseteq V
      /\ PodEnv(p) \cup {SambaState} \cup CTDBSet \subseteq V
  BY <1>1 DEF CTDBSet
<1>5. WbSockets \notin V /\ CTDBSockets \in V
  BY <1>1, Holdings DEF CTDBSet
<1> HIDE DEF config, all, V, base, B, U
<1>6. Fits(init, p, V) /\ Fits(ensure, p, V)
  BY <1>2, <1>4, ClusteredInitFit
<1>7. AllFit(<<init, ensure>> \o CTDBInitContainers(p, config), p, V)
  <2> HIDE DEF init, ensure
  <2>1. AllFit(<<init, ensure>>, p, V)
    BY <1>6, AllFitFew
  <2>2. AllFit(CTDBInitContainers(p, config), p, V)
    BY <1>2, <1>4, CTDBInitFit
  <2>3. QED
    BY <2>1, <2>2, AllFitConcat
<1>8. AllFit(CTDBContainers(p, config) \o SmbdContainers(p, all), p, V)
  <2>1. WbSockets \notin PodEnv(p) \cup CTDBSet
    BY <1>4, <1>5
  <2>2. AllFit(CTDBContainers(p, config), p, V)
    BY <1>2, <1>4, <2>1, CTDBFit
  <2>3. AllFit(SmbdContainers(p, all), p, V)
    BY <1>3, <1>4, SmbdFit
  <2>4. QED
    BY <2>2, <2>3, AllFitConcat
<1>9. /\ ClusteredUserPodSpec(p).volumes = all
      /\ ClusteredUserPodSpec(p).init = <<init, ensure>> \o CTDBInitContainers(p, config)
      /\ ClusteredUserPodSpec(p).containers
            = CTDBContainers(p, config) \o SmbdContainers(p, all)
  BY DEF ClusteredUserPodSpec, all, config, base
<1> HIDE DEF init, ensure
<1>10. QED
  BY <1>3, <1>7, <1>8, <1>9 DEF BuiltWell

LEMMA ClusteredADPodBuiltWell ==
    ASSUME NEW p \in Plans, p.clustered, p.ad
    PROVE  BuiltWell(ClusteredADPodSpec(p), p)
<1> DEFINE config == <<SambaConfig>>
           base == <<Data, SambaConfig, SambaState>>
           before == <<SambaState, CTDBShared>>
           sockets == <<SambaState, WbSockets>>
           all == base \o CTDBVolumes \o <<WbSockets>> \o JoinVolumes(p)
           talk == config \o sockets \o CTDBVolumes
           joined == config \o before \o JoinVolumes(p)
           B == {Data, SambaConfig, SambaState}
           J == JoinFiles(p)
           D == IF RegistersDNS(p) THEN {SvcWatch} ELSE {}
           M == B \cup CTDBSet \cup {WbSockets} \cup J
           W == {SambaConfig} \cup {SambaState, WbSockets} \cup CTDBSet
           K == {SambaConfig} \cup {SambaState, CTDBShared} \cup J
           V == M \cup D
           init == Container("init", PodEnv(p), config \o <<SambaState, CTDBShared>>)
           ensure == Container("ensure-share-paths", PodEnv(p), config \o <<SambaState, Data>>)
           join == Container("must-join", J, joined)
           winbind == Container("winbind", PodEnv(p), talk)
<1>1. PodEnv(p) = {SambaConfig}
  BY DEF PodEnv, HasUsersConfig
<1>2. \A v \in J : v[1] = "join-data"
  BY Holdings
<1>3. Lists(JoinVolumes(p), J)
  BY JoinVolumesList
<1> HIDE DEF J
<1>4. Lists(config, {SambaConfig})
  BY ListsFew
<1>5. Lists(all, M)
  <2>1. Lists(base, B) /\ Lists(<<WbSockets>>, {WbSockets})
    BY ListsFew, Holdings
  <2>2. /\ B \cap CTDBSet = {} /\ (B \cup CTDBSet) \cap {WbSockets} = {}
        /\ (B \cup CTDBSet \cup {WbSockets}) \cap J = {}
    BY <1>2, Holdings DEF CTDBSet
  <2> HIDE DEF base, B
  <2>3. Lists(base \o CTDBVolumes, B \cup CTDBSet)
    BY <2>1, <2>2, CTDBList, ListsConcat
  <2>4. Lists(base \o CTDBVolumes \o <<WbSockets>>, B \cup CTDBSet \cup {WbSockets})
    BY <2>1, <2>2, <2>3, ListsConcat
  <2>5. QED
    BY <1>3, <2>2, <2>4, ListsConcat
<1>6. Lists(talk, W)
  <2>1. Lists(sockets, {SambaState, WbSockets})
    BY ListsFew, Holdings
  <2>2. /\ {SambaConfig} \cap {SambaState, WbSockets} = {}
        /\ ({SambaConfig} \cup {SambaState, WbSockets}) \cap CTDBSet = {}
    BY Holdings DEF CTDBSet
  <2> HIDE DEF config, sockets
  <2>3. Lists(config \o sockets, {SambaConfig} \cup {SambaState, WbSockets})
    BY <1>4, <2>1, <2>2, ListsConcat
  <2>4. QED
    BY <2>2, <2>3, CTDBList, ListsConcat
<1>7. Lists(joined, K)
  <2>1. Lists(before, {SambaState, CTDBShared})
    BY ListsFew, Holdings
  <2>2. /\ {SambaConfig} \cap {SambaState, CTDBShared} = {}
        /\ ({SambaConfig} \cup {SambaState, CTDBShared}) \cap J = {}
    BY <1>2, Holdings
  <2> HIDE DEF config, before
  <2>3. Lists(config \o before, {SambaConfig} \cup {SambaState, CTDBShared})
    BY <1>4, <2>1, <2>2, ListsConcat
  <2>4. QED
    BY <1>3, <2>2, <2>3, ListsConcat
<1>8. Lists(all \o DNSVolume(p), V)
  <2>1. Lists(DNSVolume(p), D)
    BY DNSList
  <2>2. M \cap D = {}
    BY <1>2, Holdings DEF CTDBSet
  <2> HIDE DEF all, M, D
  <2>3. QED
    BY <1>5, <2>1, <2>2, ListsConcat
<1>9. /\ PodEnv(p) \cup {SambaState, CTDBShared, Data} \subseteq V
      /\ PodEnv(p) \cup {SambaState} \cup CTDBSet \subseteq V
      /\ WbSockets \notin PodEnv(p) \cup CTDBSet
  BY <1>1, Holdings DEF CTDBSet
<1>10. /\ M \subseteq V /\ PodEnv(p) \subseteq M
       /\ {WbSockets, CTDBSockets} \cap V \subseteq M
  BY <1>1, <1>9, Holdings DEF CTDBSet
<1>11. /\ W \subseteq V /\ PodEnv(p) \subseteq W /\ WbSockets \in W /\ SvcWatch \notin W
       /\ RegistersDNS(p) => SvcWatch \in V
  BY <1>1, Holdings DEF CTDBSet
<1>12. Suits("must-join", J, K, p, V) /\ Suits("winbind", PodEnv(p), W, p, V)
  BY <1>11, Holdings DEF Suits, Talkers, CTDBSet
<1> HIDE DEF config, all, talk, joined, M, W, K, V
<1>13. Lists(config, PodEnv(p))
  BY <1>1, <1>4
<1>14. Fits(init, p, V) /\ Fits(ensure, p, V)
  BY <1>9, <1>13, ClusteredInitFit
<1>15. Fits(join, p, V) /\ Fits(winbind, p, V)
  BY <1>6, <1>7, <1>12, ContainerFits
<1> HIDE DEF init, ensure, join, winbind
<1>16. AllFit(<<init, ensure, join>> \o CTDBInitContainers(p, config), p, V)
  <2>1. AllFit(<<init, ensure, join>>, p, V)
    BY <1>14, <1>15, AllFitFew
  <2>2. AllFit(CTDBInitContainers(p, config), p, V)
    BY <1>9, <1>13, CTDBInitFit
  <2>3. QED
    BY <2>1, <2>2, AllFitConcat
<1>17. AllFit(CTDBContainers(p, config) \o <<winbind>> \o SmbdContainers(p, all)
              \o DNSContainers(p, talk), p, V)
  <2>1. AllFit(CTDBContainers(p, config), p, V) /\ AllFit(<<winbind>>, p, V)
    BY <1>9, <1>13, <1>15, CTDBFit, AllFitFew
  <2>2. AllFit(SmbdContainers(p, all), p, V)
    BY <1>5, <1>10, SmbdFit
  <2>3. AllFit(DNSContainers(p, talk), p, V)
    BY <1>6, <1>11, DNSFit
  <2>4. AllFit(CTDBContainers(p, config) \o <<winbind>>, p, V)
    BY <2>1, AllFitConcat
  <2>5. AllFit(CTDBContainers(p, config) \o <<winbind>> \o SmbdContainers(p, all), p, V)
    BY <2>2, <2>4, AllFitConcat
  <2>6. QED
    BY <2>3, <2>5, AllFitConcat
<1>18. /\ ClusteredADPodSpec(p).volumes = all \o DNSVolume(p)
       /\ ClusteredADPodSpec(p).init
             = <<init, ensure, join>> \o CTDBInitContainers(p, config)
       /\ ClusteredADPodSpec(p).containers
             = CTDBContainers(p, config) \o <<winbind>> \o SmbdContainers(p, all)
               \o DNSContainers(p, talk)
  BY DEF ClusteredADPodSpec, all, config, talk, joined, J, init, ensure, join, winbind
<1>19. QED
  BY <1>8, <1>16, <1>17, <1>18 DEF BuiltWell

(* buildPodSpec and buildClusteredPodSpec: whatever the plan. *)
LEMMA PodBuiltWell ==
    ASSUME NEW p \in Plans
    PROVE  BuiltWell(PodSpec(p), p)
BY UserPodBuiltWell, ADPodBuiltWell, ClusteredUserPodBuiltWell, ClusteredADPodBuiltWell
   DEF PodSpec

(* Whatever the plan, with any number of join sources, the lists of        *)
(* volumes and mounts that the four builders put together fit one another  *)
(* (PodsWellBuilt, about buildADPodSpec and its three like).               *)
THEOREM PodsAreWellBuilt == Spec => []PodsWellBuilt
<1>1. PodsTypeOK => PodsWellBuilt
  <2>1. SUFFICES ASSUME PodsTypeOK PROVE PodsWellBuilt
    OBVIOUS
  <2>2. plan \in Plans /\ template = PodSpec(plan)
    BY <2>1 DEF PodsTypeOK
  <2>3. PICK V : /\ Lists(template.volumes, V)
                 /\ AllFit(template.init, plan, V)
                 /\ AllFit(template.containers, plan, V)
    BY <2>2, PodBuiltWell DEF BuiltWell
  <2>4. Valid(template.volumes) /\ Values(template.volumes) = V
    BY <2>3 DEF Lists
  <2>5. \A c \in Containers : Fits(c, plan, V)
    BY <2>3 DEF Containers, AllFit
  <2>6. \A c \in Containers :
            /\ Valid(c.mounts)
            /\ Values(c.mounts) \subseteq V
            /\ c.reads \ Values(c.mounts) \subseteq Excused(c.name, plan)
    BY <2>5 DEF Fits, Suits
  <2>7. ASSUME NEW vol \in {WbSockets, CTDBSockets} \cap V, NEW c \in Talking(vol)
        PROVE  vol \in Values(c.mounts)
    <3>1. c \in Containers /\ c.name \in Talkers(vol)
      BY <2>7 DEF Talking, Talkers, Named
    <3>2. QED
      BY <2>5, <2>7, <3>1 DEF Fits, Suits
  <2>8. QED
    BY <2>4, <2>6, <2>7 DEF PodsWellBuilt, Excused
<1>2. Init => PodsTypeOK
  BY TypeInit
<1>3. PodsTypeOK /\ [Next]_vars => PodsTypeOK'
  BY TypeStep
<1>4. QED
  BY <1>1, <1>2, <1>3, PTL DEF Spec
=============================================================================
