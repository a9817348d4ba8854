---------------------------- MODULE PodEnvProofs ----------------------------
(***************************************************************************)
(* What holds of a call of PopulateEnvironmentVariables for any pod,       *)
(* objects and services: EnvTypes is inductive, and with it what the call  *)
(* has done with the entries before the next one, for its variables, its   *)
(* failure and its events.                                                 *)
(***************************************************************************)
EXTENDS FunctionProofs

-----------------------------------------------------------------------------
(* Pod environment. Maps from some of the names in N to values in T.        *)

MapsTo(N, T) == UNION {[names -> T] : names \in SUBSET N}

LEMMA MapTyped ==
  ASSUME NEW N, NEW T, NEW m \in MapsTo(N, T)
  PROVE  /\ DOMAIN m \subseteq N /\ m = [n \in DOMAIN m |-> m[n]]
         /\ \A n \in DOMAIN m : m[n] \in T
BY DEF MapsTo

LEMMA MapIntro ==
  ASSUME NEW N, NEW T, NEW m, DOMAIN m \subseteq N, m = [n \in DOMAIN m |-> m[n]],
         \A n \in DOMAIN m : m[n] \in T
  PROVE  m \in MapsTo(N, T)
<1>1. m \in [DOMAIN m -> T]
  OBVIOUS
<1>2. QED
  BY <1>1 DEF MapsTo

LEMMA NoVarsTyped ==
  ASSUME NEW N, NEW T
  PROVE  NoVars \in MapsTo(N, T) /\ DOMAIN NoVars = {}
<1>1. DOMAIN NoVars = {} /\ NoVars = [n \in DOMAIN NoVars |-> NoVars[n]]
  BY DEF NoVars
<1>2. QED
  BY <1>1, MapIntro

LEMMA OneTyped ==
  ASSUME NEW N, NEW T, NEW n \in N, NEW v \in T
  PROVE  One(n, v) \in MapsTo(N, T) /\ DOMAIN One(n, v) = {n} /\ One(n, v)[n] = v
<1>1. DOMAIN One(n, v) = {n} /\ One(n, v)[n] = v
      /\ One(n, v) = [k \in DOMAIN One(n, v) |-> One(n, v)[k]]
  BY DEF One
<1>2. QED
  BY <1>1, MapIntro

LEMMA WithTyped ==
  ASSUME NEW N, NEW T, NEW m \in MapsTo(N, T), NEW e \in MapsTo(N, T)
  PROVE  /\ With(m, e) \in MapsTo(N, T)
         /\ DOMAIN With(m, e) = DOMAIN m \cup DOMAIN e
         /\ \A n \in DOMAIN e : With(m, e)[n] = e[n]
         /\ \A n \in DOMAIN m \ DOMAIN e : With(m, e)[n] = m[n]
<1>1. /\ DOMAIN With(m, e) = DOMAIN m \cup DOMAIN e
      /\ With(m, e) = [n \in DOMAIN With(m, e) |-> With(m, e)[n]]
      /\ \A n \in DOMAIN e : With(m, e)[n] = e[n]
      /\ \A n \in DOMAIN m \ DOMAIN e : With(m, e)[n] = m[n]
  BY DEF With
<1>2. DOMAIN With(m, e) \subseteq N /\ \A n \in DOMAIN With(m, e) : With(m, e)[n] \in T
  BY <1>1, MapTyped
<1>3. QED
  BY <1>1, <1>2, MapIntro

(* A list of a finite set, each member once, has them all.                 *)
LEMMA ListsAll ==
  ASSUME NEW S, IsFiniteSet(S), NEW list \in SetToSeqs(S)
  PROVE  /\ list \in Seq(S) /\ Len(list) \in Nat
         /\ \A s \in S : \E j \in 1..Len(list) : list[j] = s
<1> DEFINE n == Cardinality(S)
<1>1. n \in Nat
  BY FS_CardinalityType
<1>2. list \in [1..n -> S] /\ \A i, j \in 1..n : i # j => list[i] # list[j]
  BY DEF SetToSeqs
<1>3. list \in Seq(S) /\ Len(list) = n
  BY <1>1, <1>2
<1>4. ASSUME NEW s \in S, \A j \in 1..n : list[j] # s PROVE FALSE
  <2>1. list \in [1..n -> S \ {s}]
    BY <1>2, <1>4
  <2>2. IsFiniteSet(S \ {s}) /\ Cardinality(S \ {s}) = n - 1
    BY FS_RemoveElement
  <2>3. IsFiniteSet(1..n) /\ Cardinality(1..n) = n
    BY <1>1, FS_Interval
  <2> DEFINE I == 1..n  T == S \ {s}
  <2>4. Cardinality(T) < Cardinality(I) /\ IsFiniteSet(T) /\ IsFiniteSet(I) /\ list \in [I -> T]
    BY <1>1, <2>1, <2>2, <2>3
  <2> HIDE DEF I, T
  <2>5. \E i, j \in I : i # j /\ list[i] = list[j]
    BY <2>4, FS_PigeonHole
  <2>6. QED
    BY <1>2, <2>5 DEF I
<1>5. QED
  BY <1>1, <1>3, <1>4

(* The largest of some positions.                                          *)
LEMMA MaxFacts ==
  ASSUME NEW n \in Nat, NEW T, T \subseteq 1..n, T # {}
  PROVE  Max(T) \in T /\ \A y \in T : Max(T) >= y
<1> DEFINE U == {n - x : x \in T}
<1>1. U \subseteq Nat /\ U # {}
  <2>1. \A x \in T : n - x \in Nat
    <3>1. \A x \in 1..n : n - x \in Nat
      OBVIOUS
    <3>2. QED
      BY <3>1
  <2>2. QED
    BY <2>1
<1>2. PICK u \in U : \A v \in U : u <= v
  <2> HIDE DEF U
  <2>1. QED
    BY <1>1, NatMin
<1>3. PICK x \in T : u = n - x
  OBVIOUS
<1>4. \A y \in T : x >= y
  <2> SUFFICES ASSUME NEW y \in T PROVE x >= y
    OBVIOUS
  <2>1. n - x <= n - y
    BY <1>2, <1>3
  <2>2. x \in Nat /\ y \in Nat
    BY <1>3
  <2>3. QED
    BY <2>1, <2>2
<1>5. QED
  BY <1>4 DEF Max

LEMMA MaxIs ==
  ASSUME NEW n \in Nat, NEW T, T \subseteq 1..n, NEW x \in T, \A y \in T : x >= y
  PROVE  Max(T) = x
<1> DEFINE m == Max(T)
<1>1. m \in T /\ m >= x
  BY MaxFacts
<1> HIDE DEF m
<1>2. x >= m /\ m \in 1..n /\ x \in 1..n
  BY <1>1
<1>3. m = x
  BY <1>1, <1>2
<1>4. QED
  BY <1>3 DEF m

-----------------------------------------------------------------------------
(* The services a pod sees.                                                *)

Names == {s.name : s \in services}
IsMaster(s) == s.ns = "default" /\ s.name \in masterServices
IsOwn(s) == s.ns = pod.ns /\ pod.links
IsSeen(s) == s.ip # <<>> /\ (IsMaster(s) \/ IsOwn(s))

Mapped(m, s) ==
  IF s.ip = <<>> THEN m
  ELSE IF IsMaster(s) THEN With(One(s.name, s), m)
  ELSE IF IsOwn(s) THEN With(m, One(s.name, s))
  ELSE m

(* What the loop has mapped of the services it has met.                    *)
MapOf(m, met) ==
  /\ m \in MapsTo(Names, services)
  /\ DOMAIN m = {s.name : s \in {t \in met : IsSeen(t)}}
  /\ \A n \in DOMAIN m : m[n].name = n /\ IsSeen(m[n])
  /\ \A s \in met : IsSeen(s) /\ IsOwn(s) => IsOwn(m[s.name])

LEMMA MappedTyped ==
  ASSUME services \in Clusters, NEW m \in MapsTo(Names, services), NEW s \in services
  PROVE  Mapped(m, s) \in MapsTo(Names, services)
<1>1. s.name \in Names
  BY DEF Names
<1>2. One(s.name, s) \in MapsTo(Names, services)
  BY <1>1, OneTyped
<1>3. With(One(s.name, s), m) \in MapsTo(Names, services)
      /\ With(m, One(s.name, s)) \in MapsTo(Names, services)
  BY <1>2, WithTyped
<1>4. QED
  BY <1>3 DEF Mapped

LEMMA MappedOne ==
  ASSUME services \in Clusters, NEW met \in SUBSET services, NEW m, MapOf(m, met),
         NEW s \in services
  PROVE  MapOf(Mapped(m, s), met \cup {s})
<1> DEFINE new == Mapped(m, s)  o == One(s.name, s)
<1>1. m \in MapsTo(Names, services) /\ DOMAIN m \subseteq Names
  BY MapTyped DEF MapOf
<1>2. new \in MapsTo(Names, services)
  BY <1>1, MappedTyped
<1>3. s.name \in Names
  BY DEF Names
<1>4. o \in MapsTo(Names, services) /\ DOMAIN o = {s.name} /\ o[s.name] = s
  BY <1>3, OneTyped
<1>5. CASE ~IsSeen(s)
  <2>1. new = m
    BY <1>5 DEF Mapped, IsSeen
  <2>2. {t \in met \cup {s} : IsSeen(t)} = {t \in met : IsSeen(t)}
    BY <1>5
  <2>3. \A t \in met \cup {s} : IsSeen(t) => t \in met
    BY <1>5
  <2> HIDE DEF new
  <2>4. MapOf(m, met \cup {s})
    BY <2>2, <2>3 DEF MapOf
  <2>5. QED
    BY <2>1, <2>4 DEF new
<1>6. CASE IsSeen(s) /\ IsMaster(s)
  <2>1. new = With(o, m)
    BY <1>6 DEF Mapped, IsSeen
  <2> HIDE DEF new, o
  <2>2. /\ DOMAIN new = {s.name} \cup DOMAIN m
        /\ \A n \in DOMAIN m : new[n] = m[n]
        /\ s.name \notin DOMAIN m => new[s.name] = s
    <3>1. /\ DOMAIN With(o, m) = DOMAIN o \cup DOMAIN m
          /\ \A n \in DOMAIN m : With(o, m)[n] = m[n]
          /\ \A n \in DOMAIN o \ DOMAIN m : With(o, m)[n] = o[n]
      BY DEF With
    <3>2. QED
      BY <1>4, <2>1, <3>1
  <2>3. s.name \in DOMAIN m => m[s.name] = s \/ IsOwn(m[s.name])
    <3>1. ASSUME s.name \in DOMAIN m, ~IsOwn(m[s.name]) PROVE m[s.name] = s
      <4>1. m[s.name] \in services /\ m[s.name].name = s.name /\ IsMaster(m[s.name])
        BY <1>1, <3>1, MapTyped DEF MapOf, IsSeen
      <4>2. m[s.name].ns = s.ns
        BY <1>6, <4>1 DEF IsMaster
      <4>3. QED
        BY <4>1, <4>2, ServiceAssumption
    <3>2. QED
      BY <3>1
  <2>4. DOMAIN new = {t.name : t \in {u \in met \cup {s} : IsSeen(u)}}
    BY <1>6, <2>2 DEF MapOf
  <2>5. ASSUME NEW n \in DOMAIN new PROVE new[n].name = n /\ IsSeen(new[n])
    <3>1. CASE n \in DOMAIN m
      BY <2>2, <3>1 DEF MapOf
    <3>2. CASE n \notin DOMAIN m
      BY <1>6, <2>2, <2>5, <3>2
    <3>3. QED
      BY <3>1, <3>2
  <2>6. ASSUME NEW t \in met \cup {s}, IsSeen(t), IsOwn(t) PROVE IsOwn(new[t.name])
    <3>1. CASE t \in met
      <4>1. t.name \in DOMAIN m
        BY <2>6, <3>1 DEF MapOf
      <4>2. QED
        BY <2>2, <2>6, <3>1, <4>1 DEF MapOf
    <3>2. CASE t = s /\ s.name \in DOMAIN m
      BY <2>2, <2>3, <2>6, <3>2
    <3>3. CASE t = s /\ s.name \notin DOMAIN m
      BY <2>2, <2>6, <3>3
    <3>4. QED
      BY <3>1, <3>2, <3>3
  <2>7. QED
    BY <1>2, <2>4, <2>5, <2>6 DEF MapOf, new
<1>7. CASE IsSeen(s) /\ ~IsMaster(s)
  <2>1. new = With(m, o) /\ IsOwn(s)
    BY <1>7 DEF Mapped, IsSeen
  <2> HIDE DEF new, o
  <2>2. /\ DOMAIN new = {s.name} \cup DOMAIN m
        /\ \A n \in DOMAIN m : n # s.name => new[n] = m[n]
        /\ new[s.name] = s
    <3>1. \A n \in DOMAIN m : n # s.name => n \in DOMAIN m \ DOMAIN o
      BY <1>4
    <3>2. /\ DOMAIN With(m, o) = DOMAIN m \cup DOMAIN o
          /\ \A n \in DOMAIN o : With(m, o)[n] = o[n]
          /\ \A n \in DOMAIN m \ DOMAIN o : With(m, o)[n] = m[n]
      BY <1>1, <1>4, WithTyped
    <3>3. QED
      BY <1>4, <2>1, <3>1, <3>2
  <2>4. DOMAIN new = {t.name : t \in {u \in met \cup {s} : IsSeen(u)}}
    BY <1>7, <2>2 DEF MapOf
  <2>5. ASSUME NEW n \in DOMAIN new PROVE new[n].name = n /\ IsSeen(new[n])
    <3>1. CASE n = s.name
      BY <1>7, <2>2, <3>1
    <3>2. CASE n # s.name
      BY <2>2, <2>5, <3>2 DEF MapOf
    <3>3. QED
      BY <3>1, <3>2
  <2>6. ASSUME NEW t \in met \cup {s}, IsSeen(t), IsOwn(t) PROVE IsOwn(new[t.name])
    <3>1. CASE t.name = s.name
      BY <2>1, <2>2, <3>1
    <3>2. CASE t.name # s.name
      <4>1. t \in met /\ t.name \in DOMAIN m
        BY <2>6, <3>2 DEF MapOf
      <4>2. QED
        BY <2>2, <2>6, <3>2, <4>1 DEF MapOf
    <3>3. QED
      BY <3>1, <3>2
  <2>7. QED
    BY <1>2, <2>4, <2>5, <2>6 DEF MapOf, new
<1>8. QED
  BY <1>5, <1>6, <1>7

(* The loop over a list, service by service.                               *)
LEMMA MappedAll ==
  ASSUME services \in Clusters, NEW list \in SetToSeqs(services)
  PROVE  MapOf(MappedServices(list), services)
<1> DEFINE n == Len(list)  V == MapsTo(Names, services)
           Is(f) == f = [i \in 0..n |-> IF i = 0 THEN NoVars ELSE Mapped(f[i - 1], list[i])]
           map == CHOOSE f : Is(f)
           step == [i \in 1..n |-> [m \in V |-> Mapped(m, list[i])]]
<1>1. /\ n \in Nat /\ \A i \in 1..n : list[i] \in services
      /\ \A s \in services : \E j \in 1..n : list[j] = s
  <2>1. IsFiniteSet(services)
    BY ServiceAssumption
  <2>2. QED
    BY <2>1, ListsAll
<1>2. step \in [1..n -> [V -> V]]
  <2>1. ASSUME NEW i \in 1..n, NEW m \in V PROVE Mapped(m, list[i]) \in V
    BY <1>1, MappedTyped
  <2> HIDE DEF V
  <2>2. QED
    BY <2>1
<1>3. NoVars \in V
  BY NoVarsTyped
<1>4. PICK f \in [0..n -> V] : f[0] = NoVars /\ \A i \in 1..n : f[i] = step[i][f[i - 1]]
  <2>1. n \in Nat
    BY <1>1
  <2> HIDE DEF n, V, step
  <2>2. Along(V, n, NoVars, step) # {}
    BY <1>2, <1>3, <2>1, FoldExists
  <2>3. QED
    BY <2>2 DEF Along
<1>5. \A i \in 1..n : f[i] = Mapped(f[i - 1], list[i])
  <2>1. ASSUME NEW i \in 1..n PROVE f[i] = Mapped(f[i - 1], list[i])
    <3>1. i - 1 \in 0..n
      BY <1>1
    <3> HIDE DEF V
    <3>2. QED
      BY <1>4, <3>1
  <2>2. QED
    BY <2>1
<1>6. Is(f)
  <2>1. ASSUME NEW i \in 0..n
        PROVE  f[i] = IF i = 0 THEN NoVars ELSE Mapped(f[i - 1], list[i])
    <3>1. f[0] = NoVars
      BY <1>4
    <3>2. i = 0 \/ i \in 1..n
      BY <1>1
    <3> HIDE DEF n, step
    <3>3. QED
      BY <1>5, <3>1, <3>2
  <2>2. f = [i \in 0..n |-> f[i]]
    OBVIOUS
  <2>3. QED
    BY <2>1, <2>2
<1>7. Is(map)
  BY <1>6
<1>8. MappedServices(list) = map[n]
  BY DEF MappedServices, Mapped, IsMaster, IsOwn
<1> HIDE DEF map
<1>9. map[0] = NoVars /\ \A i \in 1..n : map[i] = Mapped(map[i - 1], list[i])
  BY <1>1, <1>7
<1> DEFINE met(i) == {list[j] : j \in 1..i}
           T == {i \in 0..n : MapOf(map[i], met(i))}
<1>10. 0..n \subseteq T
  <2>1. 0 \in T
    <3>1. MapOf(NoVars, {})
      BY NoVarsTyped DEF MapOf
    <3>2. met(0) = {} /\ 0 \in 0..n
      BY <1>1
    <3>3. QED
      BY <1>9, <3>1, <3>2
  <2>2. ASSUME NEW i \in 1..n, i - 1 \in T PROVE i \in T
    <3>1. MapOf(map[i - 1], met(i - 1)) /\ i \in 0..n
      BY <1>1, <2>2
    <3>2. met(i - 1) \in SUBSET services
      BY <1>1
    <3>3. met(i) = met(i - 1) \cup {list[i]}
      <4>1. 1..i = (1..i-1) \cup {i}
        BY <1>1
      <4>2. QED
        BY <4>1
    <3> HIDE DEF met
    <3>4. MapOf(Mapped(map[i - 1], list[i]), met(i - 1) \cup {list[i]})
      BY <1>1, <3>1, <3>2, MappedOne
    <3>5. QED
      BY <1>9, <3>1, <3>3, <3>4
  <2> HIDE DEF T
  <2>3. QED
    BY <1>1, <2>1, <2>2, UpInduction
<1>11. MapOf(map[n], met(n))
  <2>1. n \in 0..n
    BY <1>1
  <2>2. QED
    BY <1>10, <2>1
<1>12. met(n) = services
  BY <1>1
<1>13. QED
  BY <1>8, <1>11, <1>12

(* The variables do not depend on the order of the list.                   *)
LEMMA SeenIs ==
  ASSUME services \in Clusters, NEW m, MapOf(m, services), NEW n \in Names
  PROVE  Seen(n) = IF n \in DOMAIN m THEN {m[n]} ELSE {}
<1> DEFINE own == {s \in services : s.name = n /\ s.ip # <<>> /\ s.ns = pod.ns /\ pod.links}
           master == {s \in services : /\ s.name = n /\ s.name \in masterServices
                                       /\ s.ns = "default" /\ s.ip # <<>>}
<1>1. Seen(n) = IF own # {} THEN own ELSE master
  BY DEF Seen
<1>2. \A s \in own : IsSeen(s) /\ IsOwn(s) /\ s.name = n /\ s \in services
  BY DEF IsSeen, IsOwn
<1>3. \A s \in master : IsSeen(s) /\ IsMaster(s) /\ s.name = n /\ s \in services
  BY DEF IsSeen, IsMaster
<1>4. \A s \in services : IsSeen(s) /\ s.name = n =>
        (IsOwn(s) => s \in own) /\ (IsMaster(s) => s \in master)
  BY DEF IsSeen, IsOwn, IsMaster
<1>5. (\A s, t \in own : s = t) /\ (\A s, t \in master : s = t)
  <2>1. \A s, t \in services : s.name = t.name /\ s.ns = t.ns => s = t
    BY ServiceAssumption
  <2>2. QED
    BY <2>1
<1>6. \A s \in services : IsSeen(s) /\ s.name = n => n \in DOMAIN m
  BY DEF MapOf
<1>7. n \in DOMAIN m => m[n] \in services /\ IsSeen(m[n]) /\ m[n].name = n
  BY MapTyped DEF MapOf
<1>8. \A s \in own : IsOwn(m[n])
  BY <1>2 DEF MapOf
<1>9. m \in MapsTo(Names, services)
  BY DEF MapOf
<1> HIDE DEF own, master
<1>10. CASE n \notin DOMAIN m
  BY <1>1, <1>2, <1>3, <1>6, <1>10
<1>11. CASE n \in DOMAIN m /\ own # {}
  <2>1. m[n] \in own
    BY <1>4, <1>7, <1>8, <1>11
  <2>2. QED
    BY <1>1, <1>5, <1>11, <2>1
<1>12. CASE n \in DOMAIN m /\ own = {}
  <2>1. m[n] \in master
    BY <1>4, <1>7, <1>12 DEF IsSeen
  <2>2. QED
    BY <1>1, <1>5, <1>12, <2>1
<1>13. QED
  BY <1>10, <1>11, <1>12

LEMMA SeenServicesAre ==
  ASSUME services \in Clusters, NEW m, MapOf(m, services)
  PROVE  {m[n] : n \in DOMAIN m} = SeenServices /\ SeenServices \subseteq services
<1>1. /\ m \in MapsTo(Names, services) /\ DOMAIN m \subseteq Names
      /\ \A n \in DOMAIN m : m[n] \in services /\ m[n].name = n
  BY MapTyped DEF MapOf
<1>2. \A n \in Names : Seen(n) = IF n \in DOMAIN m THEN {m[n]} ELSE {}
  BY SeenIs
<1>3. \A s \in services : s.name \in Names
  BY DEF Names
<1>4. ASSUME NEW n \in DOMAIN m PROVE m[n] \in SeenServices
  <2>1. m[n] \in services /\ m[n].name = n /\ m[n] \in Seen(n)
    BY <1>1, <1>2
  <2>2. QED
    BY <2>1 DEF SeenServices
<1>5. ASSUME NEW s \in SeenServices PROVE \E n \in DOMAIN m : s = m[n]
  <2>1. PICK t \in services : s \in Seen(t.name)
    BY DEF SeenServices
  <2>2. QED
    BY <1>2, <1>3, <2>1
<1>6. QED
  BY <1>1, <1>4, <1>5

(* What the services write, in any order, is one of the values they give.  *)
LEMMA FromServicesSeen ==
  ASSUME services \in Clusters, NEW order \in SetToSeqs(SeenServices),
         SeenServices \subseteq services
  PROVE  FromServices(order) \in ServiceEnvs /\ FromServices(order) \in Environment
<1> DEFINE n == Len(order)
           writers(v) == {i \in DOMAIN order : v \in DOMAIN order[i].vars}
           all == UNION {DOMAIN order[i].vars : i \in DOMAIN order}
           f == FromServices(order)
<1>1. IsFiniteSet(SeenServices)
  BY ServiceAssumption, FS_Subset
<1>2. /\ n \in Nat /\ DOMAIN order = 1..n /\ \A i \in 1..n : order[i] \in SeenServices
      /\ \A s \in SeenServices : \E j \in 1..n : order[j] = s
  BY <1>1, ListsAll
<1>3. ASSUME NEW s \in SeenServices
      PROVE  DOMAIN s.vars \subseteq String /\ \A v \in DOMAIN s.vars : s.vars[v] \in String
  <2>1. IsMap(s.vars)
    BY ServiceAssumption
  <2>2. QED
    BY <2>1 DEF IsMap
<1>4. all = SeenVars
  <2> HIDE DEF n
  <2>1. QED
    BY <1>2 DEF SeenVars
<1>5. f = [v \in all |-> order[Max(writers(v))].vars[v]]
  BY DEF FromServices
<1>6. ASSUME NEW v \in all PROVE f[v] \in ValuesOf(v) /\ f[v] \in String
  <2>1. writers(v) \subseteq 1..n /\ writers(v) # {}
    BY <1>2
  <2> DEFINE W == writers(v)  x == Max(W)
  <2>2. x \in W
    <3>1. W \subseteq 1..n /\ W # {}
      BY <2>1
    <3> HIDE DEF W
    <3>2. QED
      BY <1>2, <3>1, MaxFacts
  <2>3. f[v] = order[x].vars[v]
    BY <1>5
  <2> HIDE DEF x, f
  <2>4. x \in 1..n /\ v \in DOMAIN order[x].vars
    BY <1>2, <2>2
  <2>5. order[x] \in SeenServices
    BY <1>2, <2>4
  <2>6. QED
    BY <1>3, <2>3, <2>4, <2>5 DEF ValuesOf
<1>7. DOMAIN f = all /\ f = [v \in all |-> f[v]]
  BY <1>5
<1>8. all \subseteq String
  BY <1>3, <1>4 DEF SeenVars
<1> HIDE DEF f, all
<1>9. f \in ServiceEnvs
  <2>1. f \in [SeenVars -> UNION {ValuesOf(v) : v \in SeenVars}]
    BY <1>4, <1>6, <1>7
  <2>2. QED
    BY <1>4, <1>6, <2>1 DEF ServiceEnvs
<1>10. f \in Environment
  <2>1. f \in MapsTo(String, String)
    BY <1>6, <1>7, <1>8, MapIntro
  <2>2. QED
    BY <2>1 DEF MapsTo, Environment
<1>11. QED
  BY <1>9, <1>10 DEF f

-----------------------------------------------------------------------------
(* The state of the call.                                                  *)

SourceSpec == [ref : DOMAIN store, optional : BOOLEAN, prefix : String]
EntrySpec == [name : String, from : {"value", "key", "field", "resource"}, value : String,
              ref : DOMAIN store, key : String, optional : BOOLEAN]
ContainerSpec == [envFrom : Seq(SourceSpec), env : Seq(EntrySpec)]
Reasons == (SUBSET String) \cup {"KeyNotFound"}
             \cup UNION {{objects[r].st : r \in DOMAIN objects} : objects \in Stores}
EventSpec == [kind : {"Optional", "Mandatory", "Names"}, why : Reasons]

Given == pod \in Pods /\ store \in Stores /\ services \in Clusters

EnvTypes ==
  /\ Given
  /\ pc \in {"envFrom", "env", "done", "failed"}
  /\ done \in Seq(Environment) /\ Len(done) <= Len(pod.containers)
  /\ pc = "done" <=> Len(done) = Len(pod.containers)
  /\ idx \in Nat \ {0}
  /\ pc = "envFrom" => idx <= 1 + Len(Container.envFrom)
  /\ pc = "env" => idx <= 1 + Len(Container.env)
  /\ res \in Environment /\ svcEnv \in Environment
  /\ events \in Seq(EventSpec)

LEMMA EnvironmentIs == Environment = MapsTo(String, String)
BY DEF Environment, MapsTo

LEMMA GivenTyped ==
  ASSUME Given
  PROVE  /\ pod.containers \in Seq(ContainerSpec) /\ Len(pod.containers) \in Nat \ {0}
         /\ \A r \in DOMAIN store : store[r].data \in Environment /\ store[r].st \in Reasons
         /\ Fields \in Environment
<1>1. pod.containers \in Seq(ContainerSpec) /\ pod.containers # <<>>
  BY PodAssumption DEF Given, ContainerSpec, SourceSpec, EntrySpec
<1>2. ASSUME NEW m, IsMap(m) PROVE m \in Environment
  BY <1>2 DEF IsMap, Environment
<1>3. \A r \in DOMAIN store : IsMap(store[r].data)
  BY ObjectAssumption DEF Given
<1>4. IsMap(Fields)
  BY ObjectAssumption
<1>5. \A r \in DOMAIN store : store[r].st \in Reasons
  <2> DEFINE statuses(objects) == {objects[r].st : r \in DOMAIN objects}
  <2>1. statuses(store) \in {statuses(objects) : objects \in Stores}
    BY DEF Given
  <2>2. statuses(store) \subseteq Reasons
    <3> HIDE DEF statuses
    <3>1. statuses(store) \subseteq UNION {statuses(objects) : objects \in Stores}
      BY <2>1
    <3>2. Reasons = ((SUBSET String) \cup {"KeyNotFound"})
                      \cup UNION {statuses(objects) : objects \in Stores}
      BY DEF Reasons, statuses
    <3>3. QED
      BY <3>1, <3>2
  <2>3. QED
    BY <2>2
<1>6. QED
  BY <1>1, <1>2, <1>3, <1>4, <1>5

(* The container the call works on is one of the pod's.                    *)
LEMMA ContainerTyped ==
  ASSUME EnvTypes, pc # "done"
  PROVE  /\ Len(done) \in Nat /\ Len(done) + 1 \in 1..Len(pod.containers)
         /\ Container \in ContainerSpec
         /\ Container.envFrom \in Seq(SourceSpec) /\ Len(Container.envFrom) \in Nat
         /\ \A i \in 1..Len(Container.envFrom) : Container.envFrom[i] \in SourceSpec
         /\ Container.env \in Seq(EntrySpec) /\ Len(Container.env) \in Nat
         /\ \A i \in 1..Len(Container.env) : Container.env[i] \in EntrySpec
<1>1. pod.containers \in Seq(ContainerSpec) /\ Len(pod.containers) \in Nat \ {0}
  BY GivenTyped DEF EnvTypes
<1>2. Len(done) \in Nat /\ Len(done) < Len(pod.containers)
  <2>1. done \in Seq(Environment) /\ Len(done) <= Len(pod.containers)
        /\ Len(done) # Len(pod.containers)
    BY DEF EnvTypes
  <2>2. QED
    BY <1>1, <2>1
<1>3. Len(done) + 1 \in 1..Len(pod.containers)
  BY <1>1, <1>2
<1>4. Container \in ContainerSpec
  BY <1>1, <1>3 DEF Container
<1>5. Container.envFrom \in Seq(SourceSpec) /\ Container.env \in Seq(EntrySpec)
  BY <1>4 DEF ContainerSpec
<1>6. QED
  BY <1>2, <1>3, <1>4, <1>5

LEMMA SourceTyped ==
  ASSUME NEW s \in SourceSpec
  PROVE  s.ref \in DOMAIN store /\ s.optional \in BOOLEAN /\ s.prefix \in String
BY DEF SourceSpec

LEMMA EntryTyped ==
  ASSUME NEW e \in EntrySpec
  PROVE  /\ e.name \in String /\ e.from \in {"value", "key", "field", "resource"}
         /\ e.value \in String /\ e.ref \in DOMAIN store /\ e.key \in String
         /\ e.optional \in BOOLEAN
BY DEF EntrySpec

(* What follows the prefix is the key.                                     *)
LEMMA Unprefixed ==
  ASSUME NEW p \in String, NEW k \in String
  PROVE  /\ p \o k \in String
         /\ SubSeq(p \o k, Len(p) + 1, Len(p \o k)) = k
<1> DEFINE w == p \o k
<1>1. /\ w \in String /\ Len(w) = Len(p) + Len(k)
      /\ \A i \in 1..Len(k) : w[Len(p) + i] = k[i]
  BY ConcatString
<1>2. Len(p) \in Nat /\ Len(k) \in Nat /\ Len(w) \in Nat
  BY <1>1, StringFacts
<1> HIDE DEF w
<1> DEFINE t == SubSeq(w, Len(p) + 1, Len(w))
<1>3. /\ t \in String
      /\ Len(t) = IF Len(p) + 1 <= Len(w) THEN Len(w) - (Len(p) + 1) + 1 ELSE 0
      /\ \A i \in 1..Len(w)-(Len(p)+1)+1 : t[i] = w[(Len(p) + 1) + i - 1]
  BY <1>1, <1>2, SubString
<1> HIDE DEF t
<1>4. Len(t) = Len(k)
  BY <1>1, <1>2, <1>3
<1>5. ASSUME NEW i \in 1..Len(t) PROVE t[i] = k[i]
  <2>1. i \in 1..Len(w)-(Len(p)+1)+1 /\ (Len(p) + 1) + i - 1 = Len(p) + i /\ i \in 1..Len(k)
    BY <1>1, <1>2, <1>4
  <2>2. QED
    BY <1>1, <1>3, <2>1
<1>6. t = k
  BY <1>3, <1>4, <1>5, StringEqual
<1>7. QED
  BY <1>1, <1>6 DEF t, w

LEMMA FromObjectTyped ==
  ASSUME Given, NEW s \in SourceSpec
  PROVE  /\ FromObject(s) \in Environment /\ DOMAIN FromObject(s) = ValidNames(s)
         /\ Prefixed(s) \subseteq String
<1>1. s.ref \in DOMAIN store /\ s.prefix \in String
  BY SourceTyped
<1>2. store[s.ref].data \in MapsTo(String, String)
  BY <1>1, GivenTyped, EnvironmentIs
<1> DEFINE data == store[s.ref].data
<1>3. DOMAIN data \subseteq String /\ \A k \in DOMAIN data : data[k] \in String
  BY <1>2, MapTyped
<1>4. Prefixed(s) \subseteq String
  BY <1>1, <1>3, Unprefixed DEF Prefixed
<1>5. ASSUME NEW n \in ValidNames(s)
      PROVE  n \in String /\ data[SubSeq(n, Len(s.prefix) + 1, Len(n))] \in String
  <2>1. PICK k \in DOMAIN data : n = s.prefix \o k
    BY DEF ValidNames, Prefixed
  <2>2. n \in String /\ SubSeq(n, Len(s.prefix) + 1, Len(n)) = k
    BY <1>1, <1>3, <2>1, Unprefixed
  <2>3. QED
    BY <1>3, <2>2
<1>6. FromObject(s) = [n \in ValidNames(s) |-> data[SubSeq(n, Len(s.prefix) + 1, Len(n))]]
  BY DEF FromObject
<1> HIDE DEF data
<1>7. FromObject(s) \in [ValidNames(s) -> String] /\ ValidNames(s) \subseteq String
  BY <1>5, <1>6
<1>8. QED
  BY <1>4, <1>6, <1>7 DEF Environment

(* What an entry of ".env" gives, whether it fails, and what is told of it. *)
EntryBroken(e) ==
  \/ e.from = "key" /\ ~e.optional /\ KeyIsMissing(e)
  \/ e.from = "field" /\ e.key \notin DOMAIN Fields
EntryGives(e) ==
  /\ e.from # "resource" /\ ~(e.from = "key" /\ KeyIsMissing(e)) /\ ~EntryBroken(e)
EntryValue(e) ==
  CASE e.from = "value" -> Expand(e.value, <<res, svcEnv>>)
    [] e.from = "key" -> store[e.ref].data[e.key]
    [] e.from = "field" -> Fields[e.key]

LEMMA EntryOut ==
  ASSUME Given, res \in Environment, svcEnv \in Environment, NEW e \in EntrySpec
  PROVE  LET v == getEnvironmentVariableValue(e)
         IN /\ v.out = "error" <=> EntryBroken(e)
            /\ v.out = "value" <=> EntryGives(e)
            /\ EntryGives(e) => v.val = EntryValue(e) /\ v.val \in String
            /\ IF e.from = "key" /\ KeyIsMissing(e)
               THEN \E why \in Reasons : v.told = <<Event(e.optional, why)>>
               ELSE v.told = <<>>
<1> DEFINE v == getEnvironmentVariableValue(e)
<1>1. e.value \in String /\ e.ref \in DOMAIN store /\ e.key \in String
      /\ e.from \in {"value", "key", "field", "resource"}
  BY EntryTyped
<1>2. CASE e.from = "value"
  <2> DEFINE x1 == Expand(e.value, <<res, svcEnv>>)
  <2>1. v = Value(x1)
    BY <1>2 DEF getEnvironmentVariableValue
  <2>2. <<res, svcEnv>> \in Seq(Environment)
    OBVIOUS
  <2>3. x1 \in String
    BY <1>1, <2>2, ExpandTyped
  <2>4. EntryValue(e) = x1
    BY <1>2 DEF EntryValue
  <2>5. EntryGives(e) /\ ~EntryBroken(e)
    BY <1>2 DEF EntryGives, EntryBroken
  <2> HIDE DEF x1
  <2>6. v.out = "value" /\ v.val = x1 /\ v.told = <<>>
    BY <2>1 DEF Value
  <2> HIDE DEF v
  <2>7. QED
    BY <1>2, <2>3, <2>4, <2>5, <2>6 DEF v
<1>3. CASE e.from = "field"
  <2>1. v = podFieldSelectorRuntimeValue(e.key)
    BY <1>3 DEF getEnvironmentVariableValue, getEnvironmentVariableValueWithValueFrom
  <2>2. EntryGives(e) <=> ~EntryBroken(e)
    BY <1>3 DEF EntryGives, EntryBroken
  <2>3. EntryBroken(e) <=> e.key \notin DOMAIN Fields
    BY <1>3 DEF EntryBroken
  <2>4. EntryValue(e) = Fields[e.key]
    BY <1>3 DEF EntryValue
  <2>5. CASE e.key \in DOMAIN Fields
    <3>1. v.out = "value" /\ v.val = Fields[e.key] /\ v.told = <<>>
      BY <2>1, <2>5 DEF podFieldSelectorRuntimeValue, Value
    <3>2. Fields[e.key] \in String
      BY <2>5, GivenTyped, MapTyped, EnvironmentIs
    <3> HIDE DEF v
    <3>3. QED
      BY <1>3, <2>2, <2>3, <2>4, <2>5, <3>1, <3>2 DEF v
  <2>6. CASE e.key \notin DOMAIN Fields
    <3>1. v.out = "error" /\ v.told = <<>>
      BY <2>1, <2>6 DEF podFieldSelectorRuntimeValue, Error
    <3> HIDE DEF v
    <3>2. QED
      BY <1>3, <2>2, <2>3, <2>6, <3>1 DEF v
  <2>7. QED
    BY <2>5, <2>6
<1>4. CASE e.from = "resource"
  <2>1. v = Nothing(<<>>)
    BY <1>4 DEF getEnvironmentVariableValue, getEnvironmentVariableValueWithValueFrom
  <2>2. v.out = "nothing" /\ v.told = <<>>
    BY <2>1 DEF Nothing
  <2>3. ~EntryGives(e) /\ ~EntryBroken(e)
    BY <1>4 DEF EntryGives, EntryBroken
  <2> HIDE DEF v
  <2>4. QED
    BY <1>4, <2>2, <2>3 DEF v
<1>5. CASE e.from = "key"
  <2>1. v = FromKeyRef(e)
    BY <1>5 DEF getEnvironmentVariableValue, getEnvironmentVariableValueWithValueFrom
  <2>2. KeyIsMissing(e) <=> ~(store[e.ref].st = "Found" /\ e.key \in DOMAIN store[e.ref].data)
    BY DEF KeyIsMissing, IsMissing
  <2>3. EntryValue(e) = store[e.ref].data[e.key]
    BY <1>5 DEF EntryValue
  <2>4. EntryGives(e) <=> ~KeyIsMissing(e)
    BY <1>5 DEF EntryGives, EntryBroken
  <2>5. EntryBroken(e) <=> KeyIsMissing(e) /\ ~e.optional
    BY <1>5 DEF EntryBroken
  <2>6. CASE ~KeyIsMissing(e)
    <3>1. v.out = "value" /\ v.val = store[e.ref].data[e.key] /\ v.told = <<>>
      BY <2>1, <2>2, <2>6 DEF FromKeyRef, Value
    <3>2. store[e.ref].data[e.key] \in String
      <4>1. store[e.ref].data \in MapsTo(String, String) /\ e.key \in DOMAIN store[e.ref].data
        BY <1>1, <2>2, <2>6, GivenTyped, EnvironmentIs
      <4>2. QED
        BY <4>1, MapTyped
    <3> HIDE DEF v
    <3>3. QED
      BY <2>3, <2>4, <2>5, <2>6, <3>1, <3>2 DEF v
  <2>7. CASE KeyIsMissing(e)
    <3> DEFINE why == IF store[e.ref].st = "Found" THEN "KeyNotFound" ELSE store[e.ref].st
    <3>1. why \in Reasons
      <4>1. "KeyNotFound" \in Reasons
        BY DEF Reasons
      <4>2. store[e.ref].st \in Reasons
        BY <1>1, GivenTyped
      <4>3. QED
        BY <4>1, <4>2
    <3>2. v = IF e.optional THEN Nothing(<<Event(e.optional, why)>>)
                            ELSE Error(<<Event(e.optional, why)>>)
      BY <2>1, <2>2, <2>7 DEF FromKeyRef
    <3> HIDE DEF why, v
    <3>3. v.told = <<Event(e.optional, why)>>
          /\ v.out = IF e.optional THEN "nothing" ELSE "error"
      BY <3>2 DEF Nothing, Error
    <3>4. QED
      BY <1>5, <2>4, <2>5, <2>7, <3>1, <3>3 DEF v
  <2>8. QED
    BY <2>6, <2>7
<1>6. QED
  BY <1>1, <1>2, <1>3, <1>4, <1>5

LEMMA EnvironmentWith ==
  ASSUME NEW m \in Environment, NEW e \in Environment
  PROVE  With(m, e) \in Environment
BY EnvironmentIs, WithTyped

LEMMA TypesInit == Init => EnvTypes
<1> SUFFICES ASSUME Init PROVE EnvTypes
  OBVIOUS
<1>1. Given
  BY DEF Init, Given
<1>2. pod.containers \in Seq(ContainerSpec) /\ Len(pod.containers) \in Nat \ {0}
  BY <1>1, GivenTyped
<1>3. Len(done) = 0 /\ done = <<>> /\ events = <<>> /\ pc = "envFrom" /\ idx = 1
      /\ res = NoVars /\ svcEnv = NoVars
  BY DEF Init
<1>4. NoVars \in Environment
  BY NoVarsTyped, EnvironmentIs
<1>5. Container \in ContainerSpec
  <2>1. Len(done) + 1 \in 1..Len(pod.containers)
    BY <1>2, <1>3
  <2>2. QED
    BY <1>2, <2>1 DEF Container
<1>6. Len(Container.envFrom) \in Nat
  BY <1>5 DEF ContainerSpec
<1>7. done \in Seq(Environment) /\ events \in Seq(EventSpec)
  BY <1>3
<1>8. QED
  BY <1>1, <1>2, <1>3, <1>4, <1>6, <1>7 DEF EnvTypes

(* What the steps that stay in a container leave alone.                    *)
LEMMA Stays ==
  ASSUME Given, UNCHANGED <<given, done>>
  PROVE  Given' /\ Container' = Container /\ done' = done /\ pod' = pod /\ store' = store
         /\ services' = services
BY DEF Given, given, Container

LEMMA EventTyped ==
  ASSUME NEW optional \in BOOLEAN, NEW why \in Reasons
  PROVE  /\ Event(optional, why) \in EventSpec
         /\ Event(optional, why).kind = IF optional THEN "Optional" ELSE "Mandatory"
BY DEF Event, EventSpec

(* An object read, and one that cannot be.                                 *)
LEMMA EnvFromStep ==
  ASSUME EnvTypes, makeEnvironmentMapBasedOnEnvFrom
  PROVE  /\ pc = "envFrom" /\ idx \in 1..Len(Container.envFrom) /\ idx' = idx + 1
         /\ Container.envFrom[idx] \in SourceSpec
         /\ UNCHANGED <<given, svcEnv, done>>
         /\ LET s == Container.envFrom[idx]
            IN \/ /\ ~IsMissing(s.ref)
                  /\ res' = With(res, FromObject(s)) /\ pc' = "envFrom"
                  /\ \/ events' = events
                     \/ \E e \in EventSpec : e.kind = "Names" /\ events' = Append(events, e)
               \/ /\ IsMissing(s.ref) /\ res' = res
                  /\ pc' = IF s.optional THEN "envFrom" ELSE "failed"
                  /\ \E e \in EventSpec :
                       /\ e.kind = IF s.optional THEN "Optional" ELSE "Mandatory"
                       /\ events' = Append(events, e)
<1> DEFINE s == Container.envFrom[idx]
<1>1. pc = "envFrom" /\ idx <= Len(Container.envFrom) /\ idx' = idx + 1
      /\ UNCHANGED <<given, svcEnv, done>>
  BY DEF makeEnvironmentMapBasedOnEnvFrom
<1>2. idx \in 1..Len(Container.envFrom) /\ s \in SourceSpec
  BY <1>1, ContainerTyped DEF EnvTypes
<1>3. s.ref \in DOMAIN store /\ s.optional \in BOOLEAN
  BY <1>2, SourceTyped
<1>4. CASE ~IsMissing(s.ref)
  <2>1. res' = With(res, FromObject(s)) /\ pc' = "envFrom"
        /\ events' = IF ValidNames(s) = Prefixed(s) THEN events
                     ELSE Append(events, [kind |-> "Names", why |-> Prefixed(s) \ ValidNames(s)])
    BY <1>1, <1>4 DEF makeEnvironmentMapBasedOnEnvFrom, IsMissing
  <2>2. Prefixed(s) \subseteq String
    BY <1>2, FromObjectTyped DEF EnvTypes
  <2> DEFINE e == [kind |-> "Names", why |-> Prefixed(s) \ ValidNames(s)]
  <2>3. Prefixed(s) \ ValidNames(s) \in Reasons
    BY <2>2 DEF Reasons
  <2>4. e \in EventSpec /\ e.kind = "Names"
    BY <2>3 DEF EventSpec
  <2>5. events' = events \/ events' = Append(events, e)
    BY <2>1
  <2> HIDE DEF e, s
  <2>6. QED
    BY <1>1, <1>2, <1>4, <2>1, <2>4, <2>5 DEF s
<1>5. CASE IsMissing(s.ref)
  <2> DEFINE e == Event(s.optional, store[s.ref].st)
  <2>1. /\ res' = res /\ events' = Append(events, e)
        /\ pc' = IF s.optional THEN "envFrom" ELSE "failed"
    BY <1>1, <1>5 DEF makeEnvironmentMapBasedOnEnvFrom, IsMissing
  <2>2. store[s.ref].st \in Reasons
    BY <1>3, GivenTyped DEF EnvTypes
  <2>3. e \in EventSpec /\ e.kind = IF s.optional THEN "Optional" ELSE "Mandatory"
    BY <1>3, <2>2, EventTyped
  <2> HIDE DEF e, s
  <2>4. QED
    BY <1>1, <1>2, <1>5, <2>1, <2>3 DEF s
<1>6. QED
  BY <1>4, <1>5

(* An entry that gives a value, one that is passed over, one that fails.    *)
LEMMA EnvStep ==
  ASSUME EnvTypes, makeEnvironmentMap
  PROVE  /\ pc = "env" /\ idx \in 1..Len(Container.env) /\ idx' = idx + 1
         /\ Container.env[idx] \in EntrySpec
         /\ UNCHANGED <<given, svcEnv, done>>
         /\ LET e == Container.env[idx]
            IN /\ pc' = IF EntryBroken(e) THEN "failed" ELSE "env"
               /\ IF EntryGives(e)
                  THEN EntryValue(e) \in String /\ res' = With(res, One(e.name, EntryValue(e)))
                  ELSE res' = res
               /\ IF e.from = "key" /\ KeyIsMissing(e)
                  THEN \E t \in EventSpec :
                         /\ t.kind = IF e.optional THEN "Optional" ELSE "Mandatory"
                         /\ events' = Append(events, t)
                  ELSE events' = events
<1> DEFINE e == Container.env[idx]  v == getEnvironmentVariableValue(e)
<1>1. /\ pc = "env" /\ idx <= Len(Container.env) /\ idx' = idx + 1
      /\ UNCHANGED <<given, svcEnv, done>>
      /\ res' = (IF v.out = "value" THEN With(res, One(e.name, v.val)) ELSE res)
      /\ events' = events \o v.told
      /\ pc' = (IF v.out = "error" THEN "failed" ELSE "env")
  BY DEF makeEnvironmentMap
<1>2. idx \in 1..Len(Container.env) /\ e \in EntrySpec
  BY <1>1, ContainerTyped DEF EnvTypes
<1>3. /\ v.out = "error" <=> EntryBroken(e)
      /\ v.out = "value" <=> EntryGives(e)
      /\ EntryGives(e) => v.val = EntryValue(e) /\ v.val \in String
      /\ IF e.from = "key" /\ KeyIsMissing(e)
         THEN \E why \in Reasons : v.told = <<Event(e.optional, why)>>
         ELSE v.told = <<>>
  BY <1>2, EntryOut DEF EnvTypes
<1>4. events \in Seq(EventSpec) /\ e.optional \in BOOLEAN
  BY <1>2, EntryTyped DEF EnvTypes
<1> HIDE DEF e, v
<1>5. CASE e.from = "key" /\ KeyIsMissing(e)
  <2>1. PICK why \in Reasons : v.told = <<Event(e.optional, why)>>
    BY <1>3, <1>5
  <2> DEFINE t == Event(e.optional, why)
  <2>2. t \in EventSpec /\ t.kind = IF e.optional THEN "Optional" ELSE "Mandatory"
    BY <1>4, EventTyped
  <2> HIDE DEF t
  <2>3. events \o <<t>> = Append(events, t)
    BY <1>4, <2>2
  <2>4. events' = Append(events, t)
    BY <1>1, <2>1, <2>3 DEF t
  <2>5. QED
    BY <1>1, <1>2, <1>3, <1>5, <2>2, <2>4 DEF e
<1>6. CASE ~(e.from = "key" /\ KeyIsMissing(e))
  <2>1. events \o <<>> = events
    BY <1>4
  <2>2. events' = events
    BY <1>1, <1>3, <1>6, <2>1
  <2>3. QED
    BY <1>1, <1>2, <1>3, <1>6, <2>2 DEF e
<1>7. QED
  BY <1>5, <1>6

(* The services between the two parts, and the end of a container.         *)
LEMMA ServiceStep ==
  ASSUME EnvTypes, getServiceEnvVarMap
  PROVE  /\ pc = "envFrom" /\ idx = Len(Container.envFrom) + 1 /\ pc' = "env" /\ idx' = 1
         /\ svcEnv' \in ServiceEnvs /\ svcEnv' \in Environment
         /\ UNCHANGED <<given, res, done, events>>
<1>1. /\ pc = "envFrom" /\ idx > Len(Container.envFrom) /\ pc' = "env" /\ idx' = 1
      /\ UNCHANGED <<given, res, done, events>>
  BY DEF getServiceEnvVarMap
<1>2. PICK list \in SetToSeqs(services) :
        \E order \in SetToSeqs({MappedServices(list)[n] : n \in DOMAIN MappedServices(list)}) :
          svcEnv' = FromServices(order)
  BY DEF getServiceEnvVarMap
<1>3. services \in Clusters
  BY DEF EnvTypes, Given
<1>4. MapOf(MappedServices(list), services)
  BY <1>3, MappedAll
<1>5. svcEnv' \in ServiceEnvs /\ svcEnv' \in Environment
  BY <1>2, <1>3, <1>4, SeenServicesAre, FromServicesSeen
<1>6. idx = Len(Container.envFrom) + 1
  BY <1>1, ContainerTyped DEF EnvTypes
<1>7. QED
  BY <1>1, <1>5, <1>6

LEMMA PopulateStep ==
  ASSUME EnvTypes, populateContainerEnvironment
  PROVE  /\ pc = "env" /\ idx = Len(Container.env) + 1 /\ idx' = 1
         /\ done' = Append(done, With(svcEnv, res)) /\ With(svcEnv, res) \in Environment
         /\ done' \in Seq(Environment) /\ Len(done') = Len(done) + 1
         /\ \A i \in 1..Len(done) : done'[i] = done[i]
         /\ done'[Len(done) + 1] = With(svcEnv, res)
         /\ pc' = IF Len(done) + 1 = Len(pod.containers) THEN "done" ELSE "envFrom"
         /\ res' = NoVars /\ svcEnv' = NoVars /\ UNCHANGED <<given, events>>
<1> DEFINE m == With(svcEnv, res)
<1>1. /\ pc = "env" /\ idx > Len(Container.env) /\ idx' = 1 /\ done' = Append(done, m)
      /\ pc' = (IF Len(done') = Len(pod.containers) THEN "done" ELSE "envFrom")
      /\ res' = NoVars /\ svcEnv' = NoVars /\ UNCHANGED <<given, events>>
  BY DEF populateContainerEnvironment
<1>2. m \in Environment /\ done \in Seq(Environment)
  BY EnvironmentWith DEF EnvTypes
<1>3. idx = Len(Container.env) + 1
  <2>1. pc # "done" /\ idx > Len(Container.env)
    BY <1>1
  <2>2. Len(Container.env) \in Nat
    BY <2>1, ContainerTyped
  <2>3. idx \in Nat /\ idx <= 1 + Len(Container.env)
    BY <1>1 DEF EnvTypes
  <2>4. QED
    BY <2>1, <2>2, <2>3
<1> HIDE DEF m
<1>4. /\ done' \in Seq(Environment) /\ Len(done') = Len(done) + 1
      /\ \A i \in 1..Len(done) : done'[i] = done[i]
      /\ done'[Len(done) + 1] = m
  BY <1>1, <1>2
<1>5. QED
  BY <1>1, <1>2, <1>3, <1>4 DEF m

LEMMA TypesStep ==
  ASSUME EnvTypes, [PopulateEnvironmentVariables]_vars
  PROVE  EnvTypes'
<1>0. Given /\ idx \in Nat \ {0} /\ res \in Environment /\ svcEnv \in Environment
      /\ events \in Seq(EventSpec) /\ done \in Seq(Environment)
  BY DEF EnvTypes
<1>a. \A e \in EventSpec : Append(events, e) \in Seq(EventSpec)
  BY <1>0
<1>b. pc # "done" => /\ Len(Container.envFrom) \in Nat /\ Len(Container.env) \in Nat
                     /\ Len(done) \in Nat /\ Len(done) + 1 \in 1..Len(pod.containers)
  BY ContainerTyped
<1>1. CASE UNCHANGED vars
  <2>1. UNCHANGED <<given, done>> /\ pc' = pc /\ idx' = idx /\ res' = res
        /\ svcEnv' = svcEnv /\ events' = events
    BY <1>1 DEF vars, given
  <2>2. Given' /\ Container' = Container /\ done' = done /\ pod' = pod
    BY <1>0, <2>1, Stays
  <2>3. QED
    BY <2>1, <2>2 DEF EnvTypes
<1>2. CASE makeEnvironmentMapBasedOnEnvFrom
  <2>1. /\ pc = "envFrom" /\ idx \in 1..Len(Container.envFrom) /\ idx' = idx + 1
        /\ Container.envFrom[idx] \in SourceSpec
        /\ UNCHANGED <<given, svcEnv, done>>
    BY <1>2, EnvFromStep
  <2>2. Given' /\ Container' = Container /\ done' = done /\ pod' = pod
    BY <1>0, <2>1, Stays
  <2>3. res' \in Environment /\ pc' \in {"envFrom", "failed"} /\ events' \in Seq(EventSpec)
    <3>1. FromObject(Container.envFrom[idx]) \in Environment
      BY <1>0, <2>1, FromObjectTyped
    <3>2. With(res, FromObject(Container.envFrom[idx])) \in Environment
      BY <1>0, <3>1, EnvironmentWith
    <3>3. QED
      BY <1>0, <1>2, <1>a, <3>2, EnvFromStep
  <2>4. Len(done') <= Len(pod'.containers) /\ Len(done') # Len(pod'.containers)
    BY <1>b, <2>1, <2>2
  <2>5. idx' \in Nat \ {0} /\ idx' <= 1 + Len(Container'.envFrom)
    BY <1>b, <2>1, <2>2
  <2>6. QED
    BY <1>0, <2>1, <2>2, <2>3, <2>4, <2>5 DEF EnvTypes
<1>3. CASE getServiceEnvVarMap
  <2>1. /\ pc = "envFrom" /\ pc' = "env" /\ idx' = 1 /\ svcEnv' \in Environment
        /\ UNCHANGED <<given, res, done, events>>
    BY <1>3, ServiceStep
  <2>2. Given' /\ Container' = Container /\ done' = done /\ pod' = pod
    BY <1>0, <2>1, Stays
  <2>3. Len(done') <= Len(pod'.containers) /\ Len(done') # Len(pod'.containers)
    BY <1>b, <2>1, <2>2
  <2>4. idx' \in Nat \ {0} /\ idx' <= 1 + Len(Container'.env)
    BY <1>b, <2>1, <2>2
  <2>5. QED
    BY <1>0, <2>1, <2>2, <2>3, <2>4 DEF EnvTypes
<1>4. CASE makeEnvironmentMap
  <2>1. /\ pc = "env" /\ idx \in 1..Len(Container.env) /\ idx' = idx + 1
        /\ Container.env[idx] \in EntrySpec /\ UNCHANGED <<given, svcEnv, done>>
    BY <1>4, EnvStep
  <2>2. Given' /\ Container' = Container /\ done' = done /\ pod' = pod
    BY <1>0, <2>1, Stays
  <2>3. res' \in Environment
    <3> DEFINE e == Container.env[idx]
    <3>1. IF EntryGives(e)
          THEN EntryValue(e) \in String /\ res' = With(res, One(e.name, EntryValue(e)))
          ELSE res' = res
      BY <1>4, EnvStep
    <3>2. e.name \in String
      BY <2>1, EntryTyped
    <3> HIDE DEF e
    <3>3. EntryGives(e) => One(e.name, EntryValue(e)) \in Environment
      BY <3>1, <3>2, OneTyped, EnvironmentIs
    <3>4. QED
      BY <1>0, <3>1, <3>3, EnvironmentWith
  <2>4. pc' \in {"env", "failed"} /\ events' \in Seq(EventSpec)
    BY <1>0, <1>4, <1>a, EnvStep
  <2>5. Len(done') <= Len(pod'.containers) /\ Len(done') # Len(pod'.containers)
    BY <1>b, <2>1, <2>2
  <2>6. idx' \in Nat \ {0} /\ idx' <= 1 + Len(Container'.env)
    BY <1>b, <2>1, <2>2
  <2>7. QED
    BY <1>0, <2>1, <2>2, <2>3, <2>4, <2>5, <2>6 DEF EnvTypes
<1>5. CASE populateContainerEnvironment
  <2>1. /\ pc = "env" /\ idx' = 1 /\ done' \in Seq(Environment) /\ Len(done') = Len(done) + 1
        /\ pc' = IF Len(done) + 1 = Len(pod.containers) THEN "done" ELSE "envFrom"
        /\ res' = NoVars /\ svcEnv' = NoVars /\ UNCHANGED <<given, events>>
    BY <1>5, PopulateStep
  <2>2. pod' = pod /\ store' = store /\ services' = services
    BY <2>1 DEF given
  <2>3. Given'
    BY <1>0, <2>2 DEF Given
  <2>4. NoVars \in Environment
    BY NoVarsTyped, EnvironmentIs
  <2>5. pod.containers \in Seq(ContainerSpec) /\ Len(pod.containers) \in Nat
    BY <1>0, GivenTyped
  <2>6. /\ Len(done') <= Len(pod.containers) /\ Len(done') \in Nat
        /\ pc' = "done" <=> Len(done') = Len(pod.containers)
    BY <1>b, <2>1, <2>5
  <2>7. pc' = "envFrom" => 1 <= 1 + Len(Container'.envFrom)
    <3>1. SUFFICES ASSUME pc' = "envFrom" PROVE Len(Container'.envFrom) \in Nat
      OBVIOUS
    <3>2. Len(done') + 1 \in 1..Len(pod.containers)
      BY <2>1, <2>5, <2>6, <3>1
    <3>3. pod.containers[Len(done') + 1] \in ContainerSpec
      BY <2>5, <3>2
    <3>4. Container' = pod.containers[Len(done') + 1]
      BY <2>2 DEF Container
    <3>5. \A c \in ContainerSpec : Len(c.envFrom) \in Nat
      BY DEF ContainerSpec
    <3>6. QED
      BY <3>3, <3>4, <3>5
  <2>8. QED
    BY <1>0, <2>1, <2>2, <2>3, <2>4, <2>6, <2>7 DEF EnvTypes
<1>6. QED
  BY <1>1, <1>2, <1>3, <1>4, <1>5 DEF PopulateEnvironmentVariables

(* The call keeps its types: it is at work on a container of the pod until  *)
(* it is done or failed, and what it writes are strings by name.           *)
THEOREM EnvTypesInvariant == Spec => []EnvTypes
<1>1. EnvTypes /\ [PopulateEnvironmentVariables]_vars => EnvTypes'
  BY TypesStep
<1>2. QED
  BY <1>1, TypesInit, PTL DEF Spec

LEMMA TypesAre ==
  ASSUME EnvTypes
  PROVE  TypeOK
<1>1. \A n \in DOMAIN res : n \in String /\ res[n] \in String
  BY MapTyped, EnvironmentIs DEF EnvTypes
<1>2. pc \in {"envFrom", "env"} => idx \in 1..1 + Len(Container.envFrom) + Len(Container.env)
  <2>1. SUFFICES ASSUME pc = "envFrom" \/ pc = "env"
                 PROVE  idx \in 1..1 + Len(Container.envFrom) + Len(Container.env)
    OBVIOUS
  <2>2. Len(Container.envFrom) \in Nat /\ Len(Container.env) \in Nat
    BY <2>1, ContainerTyped
  <2>3. idx \in Nat \ {0} /\ (idx <= 1 + Len(Container.envFrom) \/ idx <= 1 + Len(Container.env))
    BY <2>1 DEF EnvTypes
  <2> DEFINE k == Len(Container.envFrom)  l == Len(Container.env)
  <2>4. k \in Nat /\ l \in Nat /\ idx \in Nat \ {0} /\ (idx <= 1 + k \/ idx <= 1 + l)
    BY <2>2, <2>3
  <2> HIDE DEF k, l
  <2>5. idx \in 1..1 + k + l
    BY <2>4
  <2>6. QED
    BY <2>5 DEF k, l
<1>3. QED
  BY <1>1, <1>2 DEF EnvTypes, TypeOK

(* The call never reads an entry or a container that is not there, and has  *)
(* populated them all exactly when it is done (env.go 74-122, 293-331).     *)
THEOREM EnvTypeOKHolds == Spec => []TypeOK
BY EnvTypesInvariant, TypesAre, PTL

LEMMA ServiceEnvsStay ==
  ASSUME UNCHANGED given
  PROVE  ServiceEnvs' = ServiceEnvs
<1>1. \A n : Seen(n)' = Seen(n)
  BY DEF given, Seen
<1>2. SeenServices' = SeenServices
  BY <1>1 DEF given, SeenServices
<1>3. SeenVars' = SeenVars /\ \A v : ValuesOf(v)' = ValuesOf(v)
  BY <1>2 DEF SeenVars, ValuesOf
<1>4. QED
  BY <1>3 DEF ServiceEnvs

(* Which services a container learns of does not depend on the order of the *)
(* lister or of Go's map, whatever the services and the variables they      *)
(* write: each variable is there when a service it sees writes it, with the *)
(* value of one that does (env.go 138-167).                                 *)
THEOREM ServicesInAnyOrderHolds == Spec => []ServicesInAnyOrder
<1>1. Init => ServicesInAnyOrder
  BY DEF Init, ServicesInAnyOrder
<1>2. EnvTypes /\ ServicesInAnyOrder /\ [PopulateEnvironmentVariables]_vars
        => ServicesInAnyOrder'
  <2> SUFFICES ASSUME EnvTypes, ServicesInAnyOrder, [PopulateEnvironmentVariables]_vars,
                      pc' = "env"
               PROVE  svcEnv' \in ServiceEnvs'
    BY DEF ServicesInAnyOrder
  <2>1. UNCHANGED given => ServiceEnvs' = ServiceEnvs
    BY ServiceEnvsStay
  <2>2. CASE UNCHANGED vars
    BY <2>1, <2>2 DEF vars, given, ServicesInAnyOrder
  <2>3. CASE makeEnvironmentMapBasedOnEnvFrom
    BY <2>3, EnvFromStep
  <2>4. CASE getServiceEnvVarMap
    BY <2>1, <2>4, ServiceStep
  <2>5. CASE makeEnvironmentMap
    BY <2>1, <2>5, EnvStep DEF ServicesInAnyOrder
  <2>6. CASE populateContainerEnvironment
    BY <2>6, PopulateStep
  <2>7. QED
    BY <2>2, <2>3, <2>4, <2>5, <2>6 DEF PopulateEnvironmentVariables
<1>3. QED
  BY <1>1, <1>2, EnvTypesInvariant, PTL DEF Spec

-----------------------------------------------------------------------------
(* Failure. The entries before the next one are not broken.                *)

SourceBroken(s) == ~s.optional /\ IsMissing(s.ref)

UnbrokenSoFar ==
  /\ pc = "envFrom" => \A i \in 1..idx-1 : ~SourceBroken(Container.envFrom[i])
  /\ pc = "env" => /\ \A i \in 1..Len(Container.envFrom) : ~SourceBroken(Container.envFrom[i])
                   /\ \A i \in 1..idx-1 : ~EntryBroken(Container.env[i])

LEMMA BrokenIs ==
  ASSUME NEW c \in ContainerSpec
  PROVE  Broken(c) <=> \/ \E i \in 1..Len(c.envFrom) : SourceBroken(c.envFrom[i])
                       \/ \E i \in 1..Len(c.env) : EntryBroken(c.env[i])
<1>1. DOMAIN c.envFrom = 1..Len(c.envFrom) /\ DOMAIN c.env = 1..Len(c.env)
  BY DEF ContainerSpec
<1>2. QED
  BY <1>1 DEF Broken, SourceBroken, EntryBroken

LEMMA BrokenStays ==
  ASSUME UNCHANGED given
  PROVE  /\ \A c : Broken(c)' <=> Broken(c)
         /\ \A s : SourceBroken(s)' <=> SourceBroken(s)
         /\ \A e : EntryBroken(e)' <=> EntryBroken(e)
BY DEF given, Broken, SourceBroken, EntryBroken, IsMissing, KeyIsMissing

LEMMA UnbrokenStep ==
  ASSUME EnvTypes, UnbrokenSoFar, StopsAtFirstBroken, [PopulateEnvironmentVariables]_vars
  PROVE  UnbrokenSoFar' /\ StopsAtFirstBroken'
<1>0. Given /\ idx \in Nat \ {0}
  BY DEF EnvTypes
<1>b. pc # "done" =>
        /\ Container \in ContainerSpec /\ Len(Container.envFrom) \in Nat
        /\ Len(Container.env) \in Nat
        /\ Len(done) \in Nat /\ Len(done) + 1 \in 1..Len(pod.containers)
  BY ContainerTyped
<1>c. done \in Seq(Environment) /\ DOMAIN done = 1..Len(done)
  BY DEF EnvTypes
<1>d. \A i \in DOMAIN done : ~Broken(pod.containers[i])
  BY DEF StopsAtFirstBroken
<1>1. CASE UNCHANGED vars
  <2>1. UNCHANGED given /\ UNCHANGED <<given, done>> /\ pc' = pc /\ idx' = idx
    BY <1>1 DEF vars, given
  <2>2. Container' = Container /\ done' = done /\ pod' = pod
    BY <1>0, <2>1, Stays
  <2>3. QED
    BY <2>1, <2>2, BrokenStays DEF UnbrokenSoFar, StopsAtFirstBroken
<1>2. CASE makeEnvironmentMapBasedOnEnvFrom
  <2> DEFINE s == Container.envFrom[idx]
  <2>1. /\ pc = "envFrom" /\ idx \in 1..Len(Container.envFrom) /\ idx' = idx + 1
        /\ s \in SourceSpec /\ UNCHANGED <<given, done>> /\ UNCHANGED given
    BY <1>2, EnvFromStep
  <2>2. Container' = Container /\ done' = done /\ pod' = pod
    BY <1>0, <2>1, Stays
  <2>3. \/ pc' = "envFrom" /\ ~SourceBroken(s)
        \/ pc' = "failed" /\ SourceBroken(s)
    <3>1. /\ ~IsMissing(s.ref) => pc' = "envFrom"
          /\ IsMissing(s.ref) => pc' = IF s.optional THEN "envFrom" ELSE "failed"
      BY <1>2, EnvFromStep
    <3>2. s.optional \in BOOLEAN
      BY <2>1, SourceTyped
    <3> HIDE DEF s
    <3>3. QED
      <4>1. SourceBroken(s) <=> IsMissing(s.ref) /\ s.optional = FALSE
        BY <3>2 DEF SourceBroken
      <4>2. CASE IsMissing(s.ref) /\ s.optional = FALSE
        BY <3>1, <4>1, <4>2
      <4>3. CASE ~(IsMissing(s.ref) /\ s.optional = FALSE)
        <5>1. pc' = "envFrom"
          BY <3>1, <3>2, <4>3
        <5>2. QED
          BY <4>1, <4>3, <5>1
      <4>4. QED
        BY <4>2, <4>3
  <2>4. \A i \in 1..idx-1 : ~SourceBroken(Container.envFrom[i])
    BY <2>1 DEF UnbrokenSoFar
  <2>5. CASE pc' = "envFrom" /\ ~SourceBroken(s)
    <3>1. \A i \in 1..idx'-1 : ~SourceBroken(Container.envFrom[i])
      BY <1>0, <2>1, <2>4, <2>5
    <3> HIDE DEF s
    <3>2. QED
      BY <1>d, <2>1, <2>2, <2>5, <3>1, BrokenStays DEF UnbrokenSoFar, StopsAtFirstBroken
  <2>6. CASE pc' = "failed" /\ SourceBroken(s)
    <3>1. Broken(Container)
      BY <1>b, <2>1, <2>6, BrokenIs
    <3> HIDE DEF s
    <3>2. QED
      BY <1>d, <2>1, <2>2, <2>6, <3>1, BrokenStays DEF UnbrokenSoFar, StopsAtFirstBroken
  <2>7. QED
    BY <2>3, <2>5, <2>6
<1>3. CASE getServiceEnvVarMap
  <2>1. /\ pc = "envFrom" /\ idx = Len(Container.envFrom) + 1 /\ pc' = "env" /\ idx' = 1
        /\ UNCHANGED <<given, done>> /\ UNCHANGED given
    BY <1>3, ServiceStep
  <2>2. Container' = Container /\ done' = done /\ pod' = pod
    BY <1>0, <2>1, Stays
  <2>3. \A i \in 1..Len(Container.envFrom) : ~SourceBroken(Container.envFrom[i])
    BY <1>b, <2>1 DEF UnbrokenSoFar
  <2>4. 1..idx'-1 = {}
    BY <2>1
  <2>5. QED
    BY <1>d, <2>1, <2>2, <2>3, <2>4, BrokenStays DEF UnbrokenSoFar, StopsAtFirstBroken
<1>4. CASE makeEnvironmentMap
  <2> DEFINE e == Container.env[idx]
  <2>1. /\ pc = "env" /\ idx \in 1..Len(Container.env) /\ idx' = idx + 1
        /\ UNCHANGED <<given, done>> /\ UNCHANGED given
        /\ pc' = IF EntryBroken(e) THEN "failed" ELSE "env"
    BY <1>4, EnvStep
  <2>2. Container' = Container /\ done' = done /\ pod' = pod
    BY <1>0, <2>1, Stays
  <2>3. /\ \A i \in 1..Len(Container.envFrom) : ~SourceBroken(Container.envFrom[i])
        /\ \A i \in 1..idx-1 : ~EntryBroken(Container.env[i])
    BY <2>1 DEF UnbrokenSoFar
  <2>4. CASE ~EntryBroken(e)
    <3>1. \A i \in 1..idx'-1 : ~EntryBroken(Container.env[i])
      BY <1>0, <2>1, <2>3, <2>4
    <3> HIDE DEF e
    <3>2. QED
      BY <1>d, <2>1, <2>2, <2>3, <2>4, <3>1, BrokenStays DEF UnbrokenSoFar, StopsAtFirstBroken
  <2>5. CASE EntryBroken(e)
    <3>1. Broken(Container)
      BY <1>b, <2>1, <2>5, BrokenIs
    <3> HIDE DEF e
    <3>2. QED
      BY <1>d, <2>1, <2>2, <2>5, <3>1, BrokenStays DEF UnbrokenSoFar, StopsAtFirstBroken
  <2>6. QED
    BY <2>4, <2>5
<1>5. CASE populateContainerEnvironment
  <2>1. /\ pc = "env" /\ idx = Len(Container.env) + 1 /\ idx' = 1
        /\ done' \in Seq(Environment) /\ Len(done') = Len(done) + 1
        /\ pc' \in {"done", "envFrom"} /\ UNCHANGED given
    BY <1>5, PopulateStep
  <2>2. /\ \A i \in 1..Len(Container.envFrom) : ~SourceBroken(Container.envFrom[i])
        /\ \A i \in 1..Len(Container.env) : ~EntryBroken(Container.env[i])
    BY <1>b, <2>1 DEF UnbrokenSoFar
  <2>3. ~Broken(Container)
    BY <1>b, <2>1, <2>2, BrokenIs
  <2>4. DOMAIN done' = 1..Len(done)+1 /\ pod' = pod
    BY <2>1 DEF given
  <2>5. \A i \in DOMAIN done' : ~Broken(pod.containers[i])
    <3>1. \A i \in 1..Len(done)+1 : i \in DOMAIN done \/ i = Len(done) + 1
      BY <1>b, <1>c, <2>1
    <3>2. QED
      BY <1>d, <2>3, <2>4, <3>1 DEF Container
  <2>6. 1..idx'-1 = {}
    BY <2>1
  <2>7. QED
    BY <2>1, <2>4, <2>5, <2>6, BrokenStays DEF UnbrokenSoFar, StopsAtFirstBroken
<1>6. QED
  BY <1>1, <1>2, <1>3, <1>4, <1>5 DEF PopulateEnvironmentVariables

(* The call fails for a mandatory reference and for nothing else, with the  *)
(* containers before that one populated and those after it untouched        *)
(* (env.go 78-88, 200-207, 389-396, 412-415).                               *)
THEOREM StopsAtFirstBrokenHolds == Spec => []StopsAtFirstBroken
<1>1. Init => UnbrokenSoFar /\ StopsAtFirstBroken
  <2> SUFFICES ASSUME Init PROVE UnbrokenSoFar /\ StopsAtFirstBroken
    OBVIOUS
  <2>1. pc = "envFrom" /\ idx = 1 /\ done = <<>>
    BY DEF Init
  <2>2. 1..idx-1 = {} /\ DOMAIN done = {}
    BY <2>1
  <2>3. QED
    BY <2>1, <2>2 DEF UnbrokenSoFar, StopsAtFirstBroken
<1>2. EnvTypes /\ UnbrokenSoFar /\ StopsAtFirstBroken /\ [PopulateEnvironmentVariables]_vars
        => UnbrokenSoFar' /\ StopsAtFirstBroken'
  BY UnbrokenStep
<1>3. QED
  BY <1>1, <1>2, EnvTypesInvariant, PTL DEF Spec

-----------------------------------------------------------------------------
(* Events. The references passed over so far, and the events of a kind.     *)

SourceSkipped(s) == s.optional /\ IsMissing(s.ref)
EntrySkipped(e) == e.from = "key" /\ e.optional /\ KeyIsMissing(e)

Handled(x) ==
  \/ pc = "envFrom" /\ x[1] = "envFrom" /\ x[2] < idx
  \/ pc = "env" /\ (x[1] = "envFrom" \/ x[2] < idx)

SkippedNow == {x \in Skipped(Container) : Handled(x)}
SkippedDone == UNION {{i} \X Skipped(pod.containers[i]) : i \in DOMAIN done}
SkippedSoFar == SkippedDone \cup ({Len(done) + 1} \X SkippedNow)

Told(kind) == {i \in DOMAIN events : events[i].kind = kind}

EventsSoFar ==
  /\ pc # "failed" =>
       /\ Told("Mandatory") = {}
       /\ IsFiniteSet(SkippedSoFar) /\ Cardinality(Told("Optional")) = Cardinality(SkippedSoFar)
  /\ pc = "failed" =>
       /\ Told("Mandatory") # {} => events # <<>> /\ events[Len(events)].kind = "Mandatory"
       /\ Told("Mandatory") = {} => \E i \in 1..Len(Container.env) : Container.env[i].from = "field"

LEMMA SkippedIs ==
  ASSUME NEW c \in ContainerSpec
  PROVE  /\ \A i : <<"envFrom", i>> \in Skipped(c) <=>
                     i \in 1..Len(c.envFrom) /\ SourceSkipped(c.envFrom[i])
         /\ \A i : <<"env", i>> \in Skipped(c) <=> i \in 1..Len(c.env) /\ EntrySkipped(c.env[i])
         /\ \A x \in Skipped(c) :
              /\ x = <<x[1], x[2]>>
              /\ \/ x[1] = "envFrom" /\ x[2] \in 1..Len(c.envFrom)
                 \/ x[1] = "env" /\ x[2] \in 1..Len(c.env)
<1> DEFINE A == {j \in DOMAIN c.envFrom : c.envFrom[j].optional /\ IsMissing(c.envFrom[j].ref)}
           B == {j \in DOMAIN c.env : /\ c.env[j].from = "key" /\ c.env[j].optional
                                      /\ KeyIsMissing(c.env[j])}
<1>1. DOMAIN c.envFrom = 1..Len(c.envFrom) /\ DOMAIN c.env = 1..Len(c.env)
  BY DEF ContainerSpec
<1>2. Skipped(c) = {<<"envFrom", i>> : i \in A} \cup {<<"env", i>> : i \in B}
  BY DEF Skipped
<1>3. \A i : i \in A <=> i \in 1..Len(c.envFrom) /\ SourceSkipped(c.envFrom[i])
  BY <1>1 DEF SourceSkipped
<1>4. \A i : i \in B <=> i \in 1..Len(c.env) /\ EntrySkipped(c.env[i])
  BY <1>1 DEF EntrySkipped
<1> HIDE DEF A, B
<1>5. \A i : <<"envFrom", i>> \in Skipped(c) <=> i \in A
  BY <1>2
<1>6. \A i : <<"env", i>> \in Skipped(c) <=> i \in B
  BY <1>2
<1>7. \A x \in Skipped(c) : /\ x = <<x[1], x[2]>>
                            /\ (x[1] = "envFrom" /\ x[2] \in A) \/ (x[1] = "env" /\ x[2] \in B)
  BY <1>2
<1>8. QED
  BY <1>3, <1>4, <1>5, <1>6, <1>7

LEMMA SkippedStays ==
  ASSUME UNCHANGED given
  PROVE  \A c : Skipped(c)' = Skipped(c)
BY DEF given, Skipped, IsMissing, KeyIsMissing

(* One more event.                                                         *)
LEMMA ToldOneMore ==
  ASSUME events \in Seq(EventSpec), NEW e \in EventSpec, events' = Append(events, e)
  PROVE  /\ \A k : e.kind # k => Told(k)' = Told(k)
         /\ Told(e.kind)' = Told(e.kind) \cup {Len(events) + 1}
         /\ IsFiniteSet(Told(e.kind))
         /\ Cardinality(Told(e.kind)') = Cardinality(Told(e.kind)) + 1
         /\ events' # <<>> /\ events'[Len(events')] = e
<1>1. /\ DOMAIN events = 1..Len(events) /\ Len(events) \in Nat
      /\ DOMAIN events' = 1..Len(events)+1 /\ Len(events') = Len(events) + 1
      /\ \A i \in 1..Len(events) : events'[i] = events[i]
      /\ events'[Len(events) + 1] = e
  OBVIOUS
<1>2. \A k : Told(k)' = {i \in 1..Len(events)+1 : events'[i].kind = k}
  BY <1>1 DEF Told
<1>3. \A k : Told(k) = {i \in 1..Len(events) : events[i].kind = k}
  BY <1>1 DEF Told
<1>a. \A i : i \in 1..Len(events)+1 <=> i \in 1..Len(events) \/ i = Len(events) + 1
  BY <1>1
<1>4. ASSUME NEW k, e.kind # k PROVE Told(k)' = Told(k)
  <2>1. \A i : i \in Told(k)' <=> i \in Told(k)
    BY <1>1, <1>2, <1>3, <1>4, <1>a
  <2> DEFINE p == Told(k)'  q == Told(k)
  <2>2. \A i : i \in p <=> i \in q
    BY <2>1
  <2> HIDE DEF p, q
  <2>3. p = q
    BY <2>2
  <2>4. QED
    BY <2>3 DEF p, q
<1>5. Told(e.kind)' = Told(e.kind) \cup {Len(events) + 1}
  BY <1>1, <1>2, <1>3
<1>6. IsFiniteSet(Told(e.kind)) /\ Len(events) + 1 \notin Told(e.kind)
  <2>0. 0 \in Int /\ 1 \in Int /\ Len(events) \in Int
    BY <1>1
  <2>1. Told(e.kind) \subseteq 1..Len(events) /\ IsFiniteSet(1..Len(events))
    <3>1. Told(e.kind) \subseteq 1..Len(events)
      BY <1>3
    <3>2. IsFiniteSet(1..Len(events))
      BY <2>0, FS_Interval
    <3>3. QED
      BY <3>1, <3>2
  <2>2. IsFiniteSet(Told(e.kind))
    BY <2>1, FS_Subset
  <2>3. Len(events) + 1 \notin 1..Len(events)
    BY <1>1
  <2>4. QED
    BY <2>1, <2>2, <2>3
<1>7. Cardinality(Told(e.kind)') = Cardinality(Told(e.kind)) + 1
  BY <1>5, <1>6, FS_AddElement
<1>8. events' # <<>> /\ events'[Len(events')] = e
  BY <1>1
<1>9. QED
  BY <1>4, <1>5, <1>6, <1>7, <1>8

(* One more reference passed over.                                         *)
LEMMA SkippedOneMore ==
  ASSUME IsFiniteSet(SkippedSoFar), SkippedDone' = SkippedDone, done' = done,
         NEW x, x \notin SkippedNow, SkippedNow' = SkippedNow \cup {x},
         \A i \in DOMAIN done : i # Len(done) + 1
  PROVE  /\ IsFiniteSet(SkippedSoFar')
         /\ Cardinality(SkippedSoFar') = Cardinality(SkippedSoFar) + 1
<1> DEFINE p == <<Len(done) + 1, x>>
<1>1. SkippedSoFar' = SkippedSoFar \cup {p}
  BY DEF SkippedSoFar
<1>2. p \notin SkippedSoFar
  <2>1. p \notin SkippedDone
    BY DEF SkippedDone
  <2>2. QED
    BY <2>1 DEF SkippedSoFar
<1> HIDE DEF p
<1>3. QED
  BY <1>1, <1>2, FS_AddElement

(* What a step inside a container does to the references passed over.      *)
LEMMA SkippedSame ==
  ASSUME UNCHANGED <<given, done>>
  PROVE  /\ SkippedDone' = SkippedDone
         /\ SkippedNow' = {x \in Skipped(Container) : Handled(x)'}
<1>1. pod' = pod /\ done' = done /\ UNCHANGED given
  BY DEF given
<1>2. \A c : Skipped(c)' = Skipped(c)
  BY <1>1, SkippedStays
<1>3. Container' = Container
  BY <1>1 DEF Container
<1>4. SkippedDone' = SkippedDone
  BY <1>1, <1>2 DEF SkippedDone
<1>5. SkippedNow' = {x \in Skipped(Container) : Handled(x)'}
  BY <1>2, <1>3 DEF SkippedNow
<1>6. QED
  BY <1>4, <1>5

LEMMA SkippedSource ==
  ASSUME EnvTypes, UNCHANGED <<given, done>>, pc = "envFrom", pc' = "envFrom",
         idx \in 1..Len(Container.envFrom), idx' = idx + 1
  PROVE  /\ <<"envFrom", idx>> \notin SkippedNow
         /\ SkippedNow' = IF SourceSkipped(Container.envFrom[idx])
                          THEN SkippedNow \cup {<<"envFrom", idx>>} ELSE SkippedNow
<1> DEFINE c == Container  s == Container.envFrom[idx]
<1>1. c \in ContainerSpec /\ Len(c.envFrom) \in Nat
  BY ContainerTyped
<1>2. idx \in Nat
  BY DEF EnvTypes
<1>3. /\ <<"envFrom", idx>> \in Skipped(c) <=> SourceSkipped(s)
      /\ \A x \in Skipped(c) :
           /\ x = <<x[1], x[2]>>
           /\ \/ x[1] = "envFrom" /\ x[2] \in 1..Len(c.envFrom)
              \/ x[1] = "env" /\ x[2] \in 1..Len(c.env)
  BY <1>1, SkippedIs
<1>4. SkippedNow' = {x \in Skipped(c) : Handled(x)'}
  BY SkippedSame
<1> HIDE DEF c, s
<1>5. \A x : Handled(x) <=> x[1] = "envFrom" /\ x[2] < idx
  BY DEF Handled
<1>6. \A x : Handled(x)' <=> x[1] = "envFrom" /\ x[2] < idx + 1
  BY DEF Handled
<1>7. \A x \in Skipped(c) : Handled(x)' <=> Handled(x) \/ x = <<"envFrom", idx>>
  <2> SUFFICES ASSUME NEW x \in Skipped(c)
               PROVE  Handled(x)' <=> Handled(x) \/ x = <<"envFrom", idx>>
    OBVIOUS
  <2>1. x = <<x[1], x[2]>>
    BY <1>3
  <2>2. CASE x[1] = "envFrom"
    <3>1. x[2] \in Nat
      BY <1>1, <1>3, <2>2
    <3>2. x[2] < idx + 1 <=> x[2] < idx \/ x[2] = idx
      BY <1>2, <3>1
    <3>3. x = <<"envFrom", idx>> <=> x[2] = idx
      BY <2>1, <2>2
    <3>4. QED
      BY <1>5, <1>6, <2>2, <3>2, <3>3
  <2>3. CASE x[1] # "envFrom"
    BY <1>5, <1>6, <2>3
  <2>4. QED
    BY <2>2, <2>3
<1>8. ~Handled(<<"envFrom", idx>>)
  BY <1>2, <1>5
<1>9. SkippedNow = {x \in Skipped(c) : Handled(x)}
  BY DEF SkippedNow, c
<1> DEFINE p == <<"envFrom", idx>>
<1> HIDE DEF p
<1>10. SkippedNow' = IF p \in Skipped(c) THEN SkippedNow \cup {p} ELSE SkippedNow
  BY <1>4, <1>7, <1>9 DEF p
<1>11. QED
  BY <1>3, <1>8, <1>9, <1>10 DEF p, s

LEMMA SkippedEntry ==
  ASSUME EnvTypes, UNCHANGED <<given, done>>, pc = "env", pc' = "env",
         idx \in 1..Len(Container.env), idx' = idx + 1
  PROVE  /\ <<"env", idx>> \notin SkippedNow
         /\ SkippedNow' = IF EntrySkipped(Container.env[idx])
                          THEN SkippedNow \cup {<<"env", idx>>} ELSE SkippedNow
<1> DEFINE c == Container  e == Container.env[idx]
<1>1. c \in ContainerSpec /\ Len(c.env) \in Nat
  BY ContainerTyped
<1>2. idx \in Nat
  BY DEF EnvTypes
<1>3. /\ <<"env", idx>> \in Skipped(c) <=> EntrySkipped(e)
      /\ \A x \in Skipped(c) :
           /\ x = <<x[1], x[2]>>
           /\ \/ x[1] = "envFrom" /\ x[2] \in 1..Len(c.envFrom)
              \/ x[1] = "env" /\ x[2] \in 1..Len(c.env)
  BY <1>1, SkippedIs
<1>4. SkippedNow' = {x \in Skipped(c) : Handled(x)'}
  BY SkippedSame
<1> HIDE DEF c, e
<1>5. \A x : Handled(x) <=> x[1] = "envFrom" \/ x[2] < idx
  BY DEF Handled
<1>6. \A x : Handled(x)' <=> x[1] = "envFrom" \/ x[2] < idx + 1
  BY DEF Handled
<1>7. \A x \in Skipped(c) : Handled(x)' <=> Handled(x) \/ x = <<"env", idx>>
  <2> SUFFICES ASSUME NEW x \in Skipped(c)
               PROVE  Handled(x)' <=> Handled(x) \/ x = <<"env", idx>>
    OBVIOUS
  <2>1. x = <<x[1], x[2]>>
    BY <1>3
  <2>2. CASE x[1] = "env"
    <3>1. x[2] \in Nat
      BY <1>1, <1>3, <2>2
    <3>2. x[2] < idx + 1 <=> x[2] < idx \/ x[2] = idx
      BY <1>2, <3>1
    <3>3. x = <<"env", idx>> <=> x[2] = idx
      BY <2>1, <2>2
    <3>4. QED
      BY <1>5, <1>6, <2>2, <3>2, <3>3
  <2>3. CASE x[1] = "envFrom"
    BY <1>5, <1>6, <2>3
  <2>4. QED
    BY <1>3, <2>2, <2>3
<1>8. ~Handled(<<"env", idx>>)
  BY <1>2, <1>5
<1>9. SkippedNow = {x \in Skipped(c) : Handled(x)}
  BY DEF SkippedNow, c
<1> DEFINE p == <<"env", idx>>
<1> HIDE DEF p
<1>10. SkippedNow' = IF p \in Skipped(c) THEN SkippedNow \cup {p} ELSE SkippedNow
  BY <1>4, <1>7, <1>9 DEF p
<1>11. QED
  BY <1>3, <1>8, <1>9, <1>10 DEF p, e

(* The first part of a container done, and the whole of it.                *)
LEMMA SkippedServices ==
  ASSUME EnvTypes, getServiceEnvVarMap
  PROVE  SkippedNow' = SkippedNow
<1> DEFINE c == Container
<1>1. /\ pc = "envFrom" /\ idx = Len(c.envFrom) + 1 /\ pc' = "env" /\ idx' = 1
      /\ UNCHANGED <<given, done>>
  BY ServiceStep
<1>2. c \in ContainerSpec /\ Len(c.envFrom) \in Nat /\ Len(c.env) \in Nat
  BY <1>1, ContainerTyped
<1>3. \A x \in Skipped(c) : \/ x[1] = "envFrom" /\ x[2] \in 1..Len(c.envFrom)
                            \/ x[1] = "env" /\ x[2] \in 1..Len(c.env)
  BY <1>2, SkippedIs
<1>4. SkippedNow' = {x \in Skipped(c) : Handled(x)'}
  BY <1>1, SkippedSame
<1>5. SkippedNow = {x \in Skipped(c) : Handled(x)}
  BY DEF SkippedNow
<1> HIDE DEF c
<1>6. \A x : Handled(x) <=> x[1] = "envFrom" /\ x[2] < Len(c.envFrom) + 1
  BY <1>1 DEF Handled
<1>7. \A x : Handled(x)' <=> x[1] = "envFrom" \/ x[2] < 1
  BY <1>1 DEF Handled
<1>8. \A x \in Skipped(c) : Handled(x)' <=> Handled(x)
  BY <1>2, <1>3, <1>6, <1>7
<1>9. QED
  BY <1>4, <1>5, <1>8

LEMMA SkippedWhole ==
  ASSUME EnvTypes, populateContainerEnvironment
  PROVE  SkippedSoFar' = SkippedSoFar
<1> DEFINE c == Container  l == Len(done)
<1>1. /\ pc = "env" /\ idx = Len(c.env) + 1 /\ idx' = 1
      /\ done' \in Seq(Environment) /\ Len(done') = l + 1
      /\ pc' = IF l + 1 = Len(pod.containers) THEN "done" ELSE "envFrom"
      /\ UNCHANGED given
  BY PopulateStep
<1>2. /\ c \in ContainerSpec /\ Len(c.envFrom) \in Nat /\ Len(c.env) \in Nat
      /\ l \in Nat /\ l + 1 \in 1..Len(pod.containers) /\ c = pod.containers[l + 1]
  BY <1>1, ContainerTyped DEF Container
<1>3. SkippedNow = Skipped(c)
  <2>1. \A x \in Skipped(c) : \/ x[1] = "envFrom" /\ x[2] \in 1..Len(c.envFrom)
                              \/ x[1] = "env" /\ x[2] \in 1..Len(c.env)
    BY <1>2, SkippedIs
  <2>2. SkippedNow = {x \in Skipped(c) : Handled(x)}
    BY DEF SkippedNow
  <2> HIDE DEF c
  <2>3. \A x : Handled(x) <=> x[1] = "envFrom" \/ x[2] < Len(c.env) + 1
    BY <1>1 DEF Handled
  <2>4. \A x \in Skipped(c) : Handled(x)
    BY <1>2, <2>1, <2>3, SMTT(30)
  <2>5. QED
    BY <2>2, <2>4
<1>4. SkippedNow' = {}
  <2>1. \A x : Handled(x)' <=> pc' = "envFrom" /\ x[1] = "envFrom" /\ x[2] < 1
    BY <1>1 DEF Handled
  <2>2. CASE pc' # "envFrom"
    BY <2>1, <2>2 DEF SkippedNow
  <2>3. CASE pc' = "envFrom"
    <3>1. pod' = pod /\ pod.containers \in Seq(ContainerSpec) /\ Len(pod.containers) \in Nat
      BY <1>1, GivenTyped DEF EnvTypes, given
    <3>2. l + 2 \in 1..Len(pod.containers)
      <4>1. l + 1 # Len(pod.containers)
        BY <1>1, <2>3
      <4> HIDE DEF l
      <4>2. QED
        BY <1>2, <3>1, <4>1
    <3> DEFINE d == pod.containers[l + 2]
    <3>3. d \in ContainerSpec
      <4> HIDE DEF l
      <4>1. QED
        BY <3>1, <3>2
    <3>4. Container' = d
      <4>1. Len(done') + 1 = l + 2
        BY <1>1, <1>2
      <4>2. QED
        BY <3>1, <4>1 DEF Container
    <3>5. \A x \in Skipped(d) : \/ x[1] = "envFrom" /\ x[2] \in 1..Len(d.envFrom)
                                \/ x[1] = "env"
      BY <3>3, SkippedIs
    <3>6. Len(d.envFrom) \in Nat
      BY <3>3 DEF ContainerSpec
    <3> HIDE DEF d
    <3>7. SkippedNow' = {x \in Skipped(d) : Handled(x)'}
      BY <1>1, <3>4, SkippedStays DEF SkippedNow
    <3>8. \A x \in Skipped(d) : ~Handled(x)'
      BY <2>1, <3>5, <3>6
    <3>9. QED
      BY <3>7, <3>8
  <2>4. QED
    BY <2>2, <2>3
<1>5. SkippedDone' = SkippedDone \cup ({l + 1} \X Skipped(c))
  <2>1. pod' = pod
    BY <1>1 DEF given
  <2>2. DOMAIN done = 1..l /\ DOMAIN done' = 1..l+1
    BY <1>1 DEF EnvTypes
  <2> DEFINE Of(i) == {i} \X Skipped(pod.containers[i])
  <2>3. SkippedDone' = UNION {Of(i) : i \in 1..l+1}
    BY <1>1, <2>1, <2>2, SkippedStays DEF SkippedDone
  <2>4. SkippedDone = UNION {Of(i) : i \in 1..l}
    BY <2>2 DEF SkippedDone
  <2>5. Of(l + 1) = {l + 1} \X Skipped(c)
    BY <1>2
  <2> HIDE DEF Of, l, c
  <2>6. 1..l+1 = (1..l) \cup {l + 1}
    BY <1>2
  <2>7. UNION {Of(i) : i \in 1..l+1} = (UNION {Of(i) : i \in 1..l}) \cup Of(l + 1)
    BY <2>6
  <2>8. QED
    BY <2>3, <2>4, <2>5, <2>7
<1>6. SkippedSoFar = SkippedDone \cup ({l + 1} \X Skipped(c))
  BY <1>3 DEF SkippedSoFar
<1>7. SkippedSoFar' = SkippedDone'
  BY <1>4 DEF SkippedSoFar
<1>8. QED
  BY <1>5, <1>6, <1>7


LEMMA EventsStep ==
  ASSUME EnvTypes, EventsSoFar, [PopulateEnvironmentVariables]_vars
  PROVE  EventsSoFar'
<1>0. events \in Seq(EventSpec) /\ Given
  BY DEF EnvTypes
<1>b. pc # "done" => \A i \in DOMAIN done : i # Len(done) + 1
  <2>1. done \in Seq(Environment)
    BY DEF EnvTypes
  <2>2. QED
    BY <2>1
<1>1. CASE UNCHANGED vars
  <2>1. UNCHANGED <<given, done>> /\ pc' = pc /\ idx' = idx /\ events' = events
    BY <1>1 DEF vars, given
  <2>2. Container' = Container /\ done' = done
    BY <1>0, <2>1, Stays
  <2>3. SkippedSoFar' = SkippedSoFar
    BY <2>1, <2>2, SkippedSame DEF SkippedSoFar, SkippedNow, Handled
  <2>4. \A k : Told(k)' = Told(k)
    BY <2>1 DEF Told
  <2>5. QED
    BY <2>1, <2>2, <2>3, <2>4 DEF EventsSoFar
<1>2. CASE makeEnvironmentMapBasedOnEnvFrom
  <2> DEFINE s == Container.envFrom[idx]
  <2>1. /\ pc = "envFrom" /\ idx \in 1..Len(Container.envFrom) /\ idx' = idx + 1
        /\ s \in SourceSpec /\ UNCHANGED <<given, done>> /\ done' = done
    BY <1>2, EnvFromStep
  <2>2. Told("Mandatory") = {} /\ IsFiniteSet(SkippedSoFar)
        /\ Cardinality(Told("Optional")) = Cardinality(SkippedSoFar)
    BY <2>1 DEF EventsSoFar
  <2>3. SkippedDone' = SkippedDone
    BY <2>1, SkippedSame
  <2>4. pc' = "envFrom" =>
          /\ <<"envFrom", idx>> \notin SkippedNow
          /\ SkippedNow' = IF SourceSkipped(s)
                           THEN SkippedNow \cup {<<"envFrom", idx>>} ELSE SkippedNow
    BY <2>1, SkippedSource
  <2>5. s.optional \in BOOLEAN
    BY <2>1, SourceTyped
  <2>6. \/ /\ ~IsMissing(s.ref) /\ pc' = "envFrom"
           /\ \/ events' = events
              \/ \E e \in EventSpec : e.kind = "Names" /\ events' = Append(events, e)
        \/ /\ IsMissing(s.ref)
           /\ pc' = IF s.optional THEN "envFrom" ELSE "failed"
           /\ \E e \in EventSpec :
                /\ e.kind = IF s.optional THEN "Optional" ELSE "Mandatory"
                /\ events' = Append(events, e)
    BY <1>2, EnvFromStep
  <2> HIDE DEF s
  <2>7. CASE ~IsMissing(s.ref)
    <3>1. pc' = "envFrom" /\ SkippedNow' = SkippedNow
      BY <2>4, <2>6, <2>7 DEF SourceSkipped
    <3>2. SkippedSoFar' = SkippedSoFar
      BY <2>1, <2>3, <3>1 DEF SkippedSoFar
    <3>3. Told("Mandatory")' = Told("Mandatory") /\ Told("Optional")' = Told("Optional")
      <4>1. CASE events' = events
        BY <4>1 DEF Told
      <4>2. CASE events' # events
        <5>1. PICK e \in EventSpec : e.kind = "Names" /\ events' = Append(events, e)
          BY <2>6, <2>7, <4>2
        <5>2. QED
          BY <1>0, <5>1, ToldOneMore
      <4>3. QED
        BY <4>1, <4>2
    <3>4. QED
      BY <2>2, <3>1, <3>2, <3>3 DEF EventsSoFar
  <2>8. CASE IsMissing(s.ref) /\ s.optional = TRUE
    <3>1. PICK e \in EventSpec : e.kind = "Optional" /\ events' = Append(events, e)
      BY <2>6, <2>8
    <3>2. pc' = "envFrom"
      BY <2>6, <2>8
    <3>3. <<"envFrom", idx>> \notin SkippedNow
          /\ SkippedNow' = SkippedNow \cup {<<"envFrom", idx>>}
      BY <2>4, <2>8, <3>2 DEF SourceSkipped
    <3>4. IsFiniteSet(SkippedSoFar') /\ Cardinality(SkippedSoFar') = Cardinality(SkippedSoFar) + 1
      BY <1>b, <2>1, <2>2, <2>3, <3>3, SkippedOneMore
    <3>5. Told("Mandatory")' = Told("Mandatory")
          /\ Cardinality(Told("Optional")') = Cardinality(Told("Optional")) + 1
      BY <1>0, <3>1, ToldOneMore
    <3>6. QED
      BY <2>2, <3>2, <3>4, <3>5 DEF EventsSoFar
  <2>9. CASE IsMissing(s.ref) /\ s.optional = FALSE
    <3>1. PICK e \in EventSpec : e.kind = "Mandatory" /\ events' = Append(events, e)
      BY <2>6, <2>9
    <3>2. pc' = "failed"
      BY <2>6, <2>9
    <3>3. events' # <<>> /\ events'[Len(events')] = e
          /\ Told("Mandatory")' = Told("Mandatory") \cup {Len(events) + 1}
      BY <1>0, <3>1, ToldOneMore
    <3>4. QED
      BY <3>1, <3>2, <3>3 DEF EventsSoFar
  <2>10. QED
    BY <2>5, <2>7, <2>8, <2>9
<1>3. CASE getServiceEnvVarMap
  <2>1. /\ pc = "envFrom" /\ pc' = "env" /\ UNCHANGED <<given, done>> /\ events' = events
        /\ done' = done
    BY <1>3, ServiceStep
  <2>2. SkippedDone' = SkippedDone /\ SkippedNow' = SkippedNow
    BY <1>3, <2>1, SkippedSame, SkippedServices
  <2>3. SkippedSoFar' = SkippedSoFar
    BY <2>1, <2>2 DEF SkippedSoFar
  <2>4. \A k : Told(k)' = Told(k)
    BY <2>1 DEF Told
  <2>5. QED
    BY <2>1, <2>3, <2>4 DEF EventsSoFar
<1>4. CASE makeEnvironmentMap
  <2> DEFINE e == Container.env[idx]
  <2>1. /\ pc = "env" /\ idx \in 1..Len(Container.env) /\ idx' = idx + 1
        /\ e \in EntrySpec /\ UNCHANGED <<given, done>> /\ done' = done
        /\ pc' = (IF EntryBroken(e) THEN "failed" ELSE "env")
        /\ IF e.from = "key" /\ KeyIsMissing(e)
           THEN \E t \in EventSpec :
                  /\ t.kind = IF e.optional THEN "Optional" ELSE "Mandatory"
                  /\ events' = Append(events, t)
           ELSE events' = events
    BY <1>4, EnvStep
  <2>2. Told("Mandatory") = {} /\ IsFiniteSet(SkippedSoFar)
        /\ Cardinality(Told("Optional")) = Cardinality(SkippedSoFar)
    BY <2>1 DEF EventsSoFar
  <2>3. SkippedDone' = SkippedDone
    BY <2>1, SkippedSame
  <2>4. pc' = "env" =>
          /\ <<"env", idx>> \notin SkippedNow
          /\ SkippedNow' = IF EntrySkipped(e)
                           THEN SkippedNow \cup {<<"env", idx>>} ELSE SkippedNow
    BY <2>1, SkippedEntry
  <2>5. e.optional \in BOOLEAN
    BY <2>1, EntryTyped
  <2>a. Container' = Container
    BY <1>0, <2>1, Stays
  <2>b. idx \in 1..Len(Container.env) /\ Container.env[idx].from = e.from
    BY <2>1
  <2> HIDE DEF e
  <2>6. CASE ~(e.from = "key" /\ KeyIsMissing(e))
    <3>1. events' = events
      BY <2>1, <2>6
    <3>2. \A k : Told(k)' = Told(k)
      BY <3>1 DEF Told
    <3>3. CASE EntryBroken(e)
      <4>1. pc' = "failed" /\ e.from = "field"
        BY <2>1, <2>6, <3>3 DEF EntryBroken
      <4>2. QED
        BY <2>2, <2>a, <2>b, <3>2, <4>1 DEF EventsSoFar
    <3>4. CASE ~EntryBroken(e)
      <4>1. pc' = "env" /\ SkippedNow' = SkippedNow
        BY <2>1, <2>4, <2>6, <3>4 DEF EntrySkipped
      <4>2. SkippedSoFar' = SkippedSoFar
        BY <2>1, <2>3, <4>1 DEF SkippedSoFar
      <4>3. QED
        BY <2>2, <3>2, <4>1, <4>2 DEF EventsSoFar
    <3>5. QED
      BY <3>3, <3>4
  <2>7. CASE e.from = "key" /\ KeyIsMissing(e) /\ e.optional = TRUE
    <3>1. PICK t \in EventSpec : t.kind = "Optional" /\ events' = Append(events, t)
      BY <2>1, <2>7
    <3>2. pc' = "env"
      BY <2>1, <2>7 DEF EntryBroken
    <3>3. <<"env", idx>> \notin SkippedNow /\ SkippedNow' = SkippedNow \cup {<<"env", idx>>}
      BY <2>4, <2>7, <3>2 DEF EntrySkipped
    <3>4. IsFiniteSet(SkippedSoFar') /\ Cardinality(SkippedSoFar') = Cardinality(SkippedSoFar) + 1
      BY <1>b, <2>1, <2>2, <2>3, <3>3, SkippedOneMore
    <3>5. Told("Mandatory")' = Told("Mandatory")
          /\ Cardinality(Told("Optional")') = Cardinality(Told("Optional")) + 1
      BY <1>0, <3>1, ToldOneMore
    <3>6. QED
      BY <2>2, <3>2, <3>4, <3>5 DEF EventsSoFar
  <2>8. CASE e.from = "key" /\ KeyIsMissing(e) /\ e.optional = FALSE
    <3>1. PICK t \in EventSpec : t.kind = "Mandatory" /\ events' = Append(events, t)
      BY <2>1, <2>8
    <3>2. pc' = "failed"
      BY <2>1, <2>8 DEF EntryBroken
    <3>3. events' # <<>> /\ events'[Len(events')] = t
          /\ Told("Mandatory")' = Told("Mandatory") \cup {Len(events) + 1}
      BY <1>0, <3>1, ToldOneMore
    <3>4. QED
      BY <3>1, <3>2, <3>3 DEF EventsSoFar
  <2>9. QED
    BY <2>5, <2>6, <2>7, <2>8
<1>5. CASE populateContainerEnvironment
  <2>1. pc = "env" /\ pc' \in {"done", "envFrom"} /\ events' = events
    BY <1>5, PopulateStep
  <2>2. SkippedSoFar' = SkippedSoFar
    BY <1>5, SkippedWhole
  <2>3. \A k : Told(k)' = Told(k)
    BY <2>1 DEF Told
  <2>4. QED
    BY <2>1, <2>2, <2>3 DEF EventsSoFar
<1>6. QED
  BY <1>1, <1>2, <1>3, <1>4, <1>5 DEF PopulateEnvironmentVariables

LEMMA EventsAre ==
  ASSUME EnvTypes, EventsSoFar
  PROVE  EventsTellSkips
<1>1. \A k : IsFiniteSet(Told(k)) /\ Cardinality(Told(k)) \in Nat
                /\ (Cardinality(Told(k)) = 0 <=> Told(k) = {})
  <2> SUFFICES ASSUME NEW k
               PROVE  IsFiniteSet(Told(k)) /\ Cardinality(Told(k)) \in Nat
                        /\ (Cardinality(Told(k)) = 0 <=> Told(k) = {})
    OBVIOUS
  <2>1. Len(events) \in Nat /\ DOMAIN events = 1..Len(events)
    BY DEF EnvTypes
  <2>2. 1 \in Int /\ Len(events) \in Int
    BY <2>1
  <2>3. IsFiniteSet(1..Len(events))
    BY <2>2, FS_Interval
  <2>4. Told(k) \subseteq 1..Len(events)
    BY <2>1 DEF Told
  <2>5. IsFiniteSet(Told(k))
    BY <2>3, <2>4, FS_Subset
  <2>6. QED
    BY <2>5, FS_EmptySet, FS_CardinalityType
<1>2. pc = "done" => Cardinality(Told("Optional")) = Cardinality(SkippedDone)
  <2>1. SUFFICES ASSUME pc = "done" PROVE SkippedSoFar = SkippedDone
    BY DEF EventsSoFar
  <2>2. SkippedNow = {}
    BY <2>1 DEF SkippedNow, Handled
  <2>3. QED
    BY <2>2 DEF SkippedSoFar
<1>3. Cardinality(Told("Mandatory")) > 0 => pc = "failed" /\ events[Len(events)].kind = "Mandatory"
  BY <1>1 DEF EventsSoFar
<1>4. pc = "failed" /\ Cardinality(Told("Mandatory")) = 0 =>
        \E i \in DOMAIN Container.env : Container.env[i].from = "field"
  <2>1. SUFFICES ASSUME pc = "failed", Cardinality(Told("Mandatory")) = 0
                 PROVE  \E i \in DOMAIN Container.env : Container.env[i].from = "field"
    OBVIOUS
  <2>2. \E i \in 1..Len(Container.env) : Container.env[i].from = "field"
    BY <1>1, <2>1 DEF EventsSoFar
  <2>3. Container.env \in Seq(EntrySpec)
    BY <2>1, ContainerTyped
  <2>4. QED
    BY <2>2, <2>3
<1>5. QED
  BY <1>2, <1>3, <1>4 DEF EventsTellSkips, Told, SkippedDone, Last

(* Every optional reference that is passed over leaves one event, and a     *)
(* call that fails for an object leaves one that says so, whatever the pod  *)
(* and the objects (env.go 39-66).                                         *)
THEOREM EventsTellSkipsHolds == Spec => []EventsTellSkips
<1>1. Init => EventsSoFar
  <2> SUFFICES ASSUME Init PROVE EventsSoFar
    OBVIOUS
  <2>1. pc = "envFrom" /\ idx = 1 /\ done = <<>> /\ events = <<>>
    BY DEF Init
  <2>2. \A k : Told(k) = {}
    BY <2>1 DEF Told
  <2>3. SkippedNow = {}
    <3>1. Container \in ContainerSpec
      BY <2>1, TypesInit, ContainerTyped
    <3>2. \A x \in Skipped(Container) : \/ x[1] = "envFrom" /\ x[2] \in 1..Len(Container.envFrom)
                                        \/ x[1] = "env"
      BY <3>1, SkippedIs
    <3>3. \A x \in Skipped(Container) : ~Handled(x)
      <4>1. Len(Container.envFrom) \in Nat
        BY <3>1 DEF ContainerSpec
      <4> DEFINE c == Container
      <4> HIDE DEF c
      <4>2. \A x \in Skipped(c) : x[1] = "envFrom" => x[2] \in Nat \ {0}
        BY <3>2, <4>1 DEF c
      <4>3. \A x : Handled(x) <=> x[1] = "envFrom" /\ x[2] < 1
        BY <2>1 DEF Handled
      <4>4. \A x \in Skipped(c) : ~Handled(x)
        BY <4>2, <4>3
      <4>5. QED
        BY <4>4 DEF c
    <3>4. QED
      BY <3>3 DEF SkippedNow
  <2>4. SkippedSoFar = {}
    BY <2>1, <2>3 DEF SkippedSoFar, SkippedDone
  <2>5. QED
    BY <2>1, <2>2, <2>4, FS_EmptySet DEF EventsSoFar
<1>2. EnvTypes /\ EventsSoFar /\ [PopulateEnvironmentVariables]_vars => EventsSoFar'
  BY EventsStep
<1>3. EnvTypes /\ EventsSoFar => EventsTellSkips
  BY EventsAre
<1>4. QED
  BY <1>1, <1>2, <1>3, EnvTypesInvariant, PTL DEF Spec

-----------------------------------------------------------------------------
(* What is declared. One entry of a container after the other, as the call  *)
(* goes: what an entry gives, and the variables once it is set.             *)

Gives(c, i) ==
  IF i <= Len(c.envFrom)
  THEN IF IsMissing(c.envFrom[i].ref) THEN {} ELSE ValidNames(c.envFrom[i])
  ELSE LET e == c.env[i - Len(c.envFrom)] IN
       IF e.from = "resource" \/ (e.from = "key" /\ KeyIsMissing(e)) THEN {} ELSE {e.name}

ValueOf(c, i, n, before, env) ==
  IF i <= Len(c.envFrom) THEN FromObject(c.envFrom[i])[n]
  ELSE LET e == c.env[i - Len(c.envFrom)] IN
       CASE e.from = "value" -> Expand(e.value, <<before, env>>)
         [] e.from = "key" -> store[e.ref].data[e.key]
         [] e.from = "field" -> Fields[e.key]

Put(c, i, before, env) ==
  [n \in DOMAIN before \cup Gives(c, i) |->
     IF n \in Gives(c, i) THEN ValueOf(c, i, n, before, env) ELSE before[n]]

Trails(c, p, env) ==
  {f \in [0..p -> Environment] : f[0] = NoVars /\ \A j \in 1..p : f[j] = Put(c, j, f[j - 1], env)}

(* The variables so far are those of the entries so far.                   *)
DeclaredSoFar ==
  /\ pc = "envFrom" => \A env : \E f \in Trails(Container, idx - 1, env) : f[idx - 1] = res
  /\ pc = "env" =>
       \E f \in Trails(Container, Len(Container.envFrom) + idx - 1, svcEnv) :
         f[Len(Container.envFrom) + idx - 1] = res

LEMMA TrailZero ==
  ASSUME NEW c, NEW env
  PROVE  \E f \in Trails(c, 0, env) : f[0] = NoVars
<1> DEFINE f0 == [i \in 0..0 |-> NoVars]
<1>1. NoVars \in Environment
  BY NoVarsTyped, EnvironmentIs
<1>2. f0 \in [0..0 -> Environment] /\ f0[0] = NoVars /\ 1..0 = {}
  BY <1>1
<1> HIDE DEF f0
<1>3. f0 \in Trails(c, 0, env)
  BY <1>2 DEF Trails
<1>4. QED
  BY <1>2, <1>3

LEMMA TrailOne ==
  ASSUME NEW c, NEW env, NEW p \in Nat, NEW f \in Trails(c, p, env), Put(c, p + 1, f[p], env) \in Environment
  PROVE  \E g \in Trails(c, p + 1, env) : g[p + 1] = Put(c, p + 1, f[p], env)
<1> DEFINE x == Put(c, p + 1, f[p], env)
           g == [i \in 0..p+1 |-> IF i = p + 1 THEN x ELSE f[i]]
<1>1. /\ f \in [0..p -> Environment] /\ f[0] = NoVars
      /\ \A j \in 1..p : f[j] = Put(c, j, f[j - 1], env)
  BY DEF Trails
<1>2. \A i \in 0..p+1 : i = p + 1 \/ i \in 0..p
  OBVIOUS
<1>3. g \in [0..p+1 -> Environment]
  <2> HIDE DEF x
  <2>1. x \in Environment
    BY DEF x
  <2>2. QED
    BY <1>1, <1>2, <2>1
<1> HIDE DEF x
<1>4. g[p + 1] = x /\ \A i \in 0..p : g[i] = f[i]
  OBVIOUS
<1> HIDE DEF g
<1>5. g[0] = NoVars
  BY <1>1, <1>4
<1>6. \A j \in 1..p+1 : g[j] = Put(c, j, g[j - 1], env)
  <2> SUFFICES ASSUME NEW j \in 1..p+1 PROVE g[j] = Put(c, j, g[j - 1], env)
    OBVIOUS
  <2>1. CASE j = p + 1
    <3>1. j - 1 = p /\ p \in 0..p
      BY <2>1
    <3>2. g[p] = f[p]
      BY <1>4, <3>1
    <3>3. QED
      BY <1>4, <2>1, <3>1, <3>2 DEF x
  <2>2. CASE j # p + 1
    <3>1. j \in 1..p /\ j \in 0..p /\ j - 1 \in 0..p
      BY <2>2
    <3>2. g[j] = f[j] /\ g[j - 1] = f[j - 1]
      BY <1>4, <3>1
    <3>3. QED
      BY <1>1, <3>1, <3>2
  <2>3. QED
    BY <2>1, <2>2
<1>7. g \in Trails(c, p + 1, env)
  BY <1>3, <1>5, <1>6 DEF Trails
<1>8. QED
  BY <1>4, <1>7 DEF x

(* The entries seen one by one, and all at once.                           *)
Gave(c, j, n) == {i \in 1..j : n \in Gives(c, i)}
AtOnce(c, f, j, env) ==
  [n \in UNION {Gives(c, i) : i \in 1..j} |->
     ValueOf(c, Max(Gave(c, j, n)), n, f[Max(Gave(c, j, n)) - 1], env)]

LEMMA LastOne ==
  ASSUME NEW c, NEW j \in Nat \ {0}, NEW n
  PROVE  /\ n \in Gives(c, j) => Max(Gave(c, j, n)) = j
         /\ n \notin Gives(c, j) => Gave(c, j, n) = Gave(c, j - 1, n)
<1>1. Gave(c, j, n) \subseteq 1..j /\ \A y \in Gave(c, j, n) : j >= y
  BY DEF Gave
<1>2. ASSUME n \in Gives(c, j) PROVE Max(Gave(c, j, n)) = j
  <2>1. j \in Gave(c, j, n)
    BY <1>2 DEF Gave
  <2>2. QED
    BY <1>1, <2>1, MaxIs
<1>3. ASSUME n \notin Gives(c, j) PROVE Gave(c, j, n) = Gave(c, j - 1, n)
  <2>1. \A i \in 1..j : i = j \/ i \in 1..j-1
    OBVIOUS
  <2>2. \A i \in 1..j-1 : i \in 1..j
    OBVIOUS
  <2>3. QED
    BY <1>3, <2>1, <2>2 DEF Gave
<1>4. QED
  BY <1>2, <1>3

LEMMA AllAtOnce ==
  ASSUME NEW c, NEW env, NEW p \in Nat, NEW f \in Trails(c, p, env)
  PROVE  \A j \in 0..p : f[j] = AtOnce(c, f, j, env)
<1> DEFINE T == {j \in 0..p : f[j] = AtOnce(c, f, j, env)}
<1>1. /\ f \in [0..p -> Environment] /\ f[0] = NoVars
      /\ \A j \in 1..p : f[j] = Put(c, j, f[j - 1], env)
  BY DEF Trails
<1>2. 0 \in T
  <2>1. UNION {Gives(c, i) : i \in 1..0} = {}
    OBVIOUS
  <2>2. AtOnce(c, f, 0, env) = NoVars
    BY <2>1 DEF AtOnce, NoVars
  <2>3. QED
    BY <1>1, <2>2
<1>3. ASSUME NEW j \in 1..p, j - 1 \in T PROVE j \in T
  <2>1. j \in Nat \ {0} /\ j - 1 \in 0..p /\ f[j - 1] = AtOnce(c, f, j - 1, env)
    BY <1>3
  <2> DEFINE m == f[j - 1]  all(i) == UNION {Gives(c, h) : h \in 1..i}
  <2>2. f[j] = Put(c, j, m, env)
    BY <1>1
  <2>3. /\ DOMAIN m = all(j - 1)
        /\ \A n \in all(j - 1) :
             m[n] = ValueOf(c, Max(Gave(c, j - 1, n)), n, f[Max(Gave(c, j - 1, n)) - 1], env)
    BY <2>1 DEF AtOnce
  <2>4. all(j) = all(j - 1) \cup Gives(c, j)
    <3>1. 1..j = (1..j-1) \cup {j}
      BY <2>1
    <3>2. QED
      BY <3>1
  <2>5. AtOnce(c, f, j, env) =
          [n \in all(j) |-> ValueOf(c, Max(Gave(c, j, n)), n, f[Max(Gave(c, j, n)) - 1], env)]
    BY DEF AtOnce
  <2>6. Put(c, j, m, env) =
          [n \in all(j) |-> IF n \in Gives(c, j) THEN ValueOf(c, j, n, m, env) ELSE m[n]]
    BY <2>3, <2>4 DEF Put
  <2>7. ASSUME NEW n \in all(j)
        PROVE  (IF n \in Gives(c, j) THEN ValueOf(c, j, n, m, env) ELSE m[n])
                 = ValueOf(c, Max(Gave(c, j, n)), n, f[Max(Gave(c, j, n)) - 1], env)
    <3>1. CASE n \in Gives(c, j)
      <4>1. Max(Gave(c, j, n)) = j
        BY <2>1, <3>1, LastOne
      <4>2. QED
        BY <3>1, <4>1
    <3>2. CASE n \notin Gives(c, j)
      <4>1. Gave(c, j, n) = Gave(c, j - 1, n)
        BY <2>1, <3>2, LastOne
      <4>2. n \in all(j - 1)
        BY <2>4, <2>7, <3>2
      <4> HIDE DEF m, all
      <4>3. QED
        BY <2>3, <3>2, <4>1, <4>2
    <3>3. QED
      BY <3>1, <3>2
  <2> HIDE DEF all, m
  <2>8. Put(c, j, m, env) = AtOnce(c, f, j, env)
    BY <2>5, <2>6, <2>7
  <2>9. QED
    BY <2>2, <2>8
<1>4. 0..p \subseteq T
  <2> HIDE DEF T
  <2>1. QED
    BY <1>2, <1>3, UpInduction
<1>5. QED
  BY <1>4

(* Only the variables of the entries before the last that gives a name     *)
(* bear on it.                                                             *)
LEMMA OnlyBefore ==
  ASSUME NEW c, NEW env, NEW j \in Nat, NEW f, NEW g, \A i \in 0..j-1 : f[i] = g[i]
  PROVE  AtOnce(c, f, j, env) = AtOnce(c, g, j, env)
<1> DEFINE all == UNION {Gives(c, i) : i \in 1..j}
<1>1. ASSUME NEW n \in all
      PROVE  ValueOf(c, Max(Gave(c, j, n)), n, f[Max(Gave(c, j, n)) - 1], env)
               = ValueOf(c, Max(Gave(c, j, n)), n, g[Max(Gave(c, j, n)) - 1], env)
  <2>1. Gave(c, j, n) \subseteq 1..j /\ Gave(c, j, n) # {}
    BY DEF Gave
  <2>2. Max(Gave(c, j, n)) \in 1..j
    BY <2>1, MaxFacts
  <2> DEFINE x == Max(Gave(c, j, n))
  <2> HIDE DEF x
  <2>3. x - 1 \in 0..j-1
    BY <2>2 DEF x
  <2>4. f[x - 1] = g[x - 1]
    BY <2>3
  <2>5. QED
    BY <2>4 DEF x
<1>2. QED
  BY <1>1 DEF AtOnce

LEMMA DeclaredIs ==
  ASSUME NEW c, NEW env, Len(c.envFrom) \in Nat, Len(c.env) \in Nat,
         NEW f \in Trails(c, Len(c.envFrom) + Len(c.env), env)
  PROVE  Declared(c, env) = With(env, f[Len(c.envFrom) + Len(c.env)])
<1> DEFINE p == Len(c.envFrom) + Len(c.env)
           Is(h) == h = [j \in 0..p |-> AtOnce(c, h, j, env)]
           upto == CHOOSE h : Is(h)
<1>1. p \in Nat
  <2>1. \A a, b \in Nat : a + b \in Nat
    OBVIOUS
  <2>2. QED
    BY <2>1
<1>2. f \in [0..p -> Environment] /\ \A j \in 0..p : f[j] = AtOnce(c, f, j, env)
  BY <1>1, AllAtOnce DEF Trails
<1>3. Is(f)
  <2> HIDE DEF p
  <2>1. f = [j \in 0..p |-> f[j]]
    BY <1>2
  <2>2. QED
    BY <1>2, <2>1
<1>4. Is(upto)
  BY <1>3
<1>5. Declared(c, env) = With(env, upto[p])
  BY DEF Declared, AtOnce, ValueOf, Gives, Gave
<1> HIDE DEF upto
<1>6. \A j \in 0..p : upto[j] = AtOnce(c, upto, j, env)
  <2> HIDE DEF p
  <2>1. QED
    BY <1>4
<1> HIDE DEF p
<1> DEFINE T == {j \in 0..p : \A i \in 0..j : upto[i] = f[i]}
<1>7. 0 \in T
  <2>1. AtOnce(c, upto, 0, env) = AtOnce(c, f, 0, env)
    <3>1. \A i \in 0..0-1 : upto[i] = f[i]
      OBVIOUS
    <3>2. QED
      BY <3>1, OnlyBefore
  <2>2. 0 \in 0..p /\ \A i \in 0..0 : i = 0
    BY <1>1
  <2>3. upto[0] = f[0]
    BY <1>2, <1>6, <2>1, <2>2
  <2>4. QED
    BY <2>2, <2>3
<1>8. ASSUME NEW j \in 1..p, j - 1 \in T PROVE j \in T
  <2>1. j \in 0..p /\ \A i \in 0..j-1 : upto[i] = f[i]
    BY <1>1, <1>8
  <2>2. AtOnce(c, upto, j, env) = AtOnce(c, f, j, env)
    BY <2>1, OnlyBefore
  <2>3. upto[j] = f[j]
    BY <1>2, <1>6, <2>1, <2>2
  <2>4. \A i \in 0..j : i = j \/ i \in 0..j-1
    OBVIOUS
  <2>5. QED
    BY <2>1, <2>3, <2>4
<1>9. 0..p \subseteq T
  <2> HIDE DEF T
  <2>1. QED
    BY <1>1, <1>7, <1>8, UpInduction
<1>10. upto[p] = f[p]
  <2>1. p \in 0..p
    BY <1>1
  <2>2. QED
    BY <1>9, <2>1
<1>11. QED
  BY <1>5, <1>10 DEF p


(* What the steps do is what Put says.                                     *)
LEMMA PutNothing ==
  ASSUME NEW c, NEW env, NEW i, NEW m \in Environment, Gives(c, i) = {}
  PROVE  Put(c, i, m, env) = m
<1>1. m = [n \in DOMAIN m |-> m[n]]
  BY MapTyped, EnvironmentIs
<1>2. QED
  BY <1>1 DEF Put

LEMMA PutSource ==
  ASSUME Given, NEW c, NEW env, Len(c.envFrom) \in Nat, NEW i \in 1..Len(c.envFrom),
         c.envFrom[i] \in SourceSpec, NEW m \in Environment
  PROVE  Put(c, i, m, env) = IF IsMissing(c.envFrom[i].ref) THEN m
                        ELSE With(m, FromObject(c.envFrom[i]))
<1> DEFINE s == c.envFrom[i]
<1>1. i <= Len(c.envFrom)
  OBVIOUS
<1>2. Gives(c, i) = IF IsMissing(s.ref) THEN {} ELSE ValidNames(s)
  BY <1>1 DEF Gives
<1>3. \A n : ValueOf(c, i, n, m, env) = FromObject(s)[n]
  BY <1>1 DEF ValueOf
<1>4. DOMAIN FromObject(s) = ValidNames(s)
  BY FromObjectTyped
<1> HIDE DEF s
<1>5. CASE IsMissing(s.ref)
  BY <1>2, <1>5, PutNothing DEF s
<1>6. CASE ~IsMissing(s.ref)
  BY <1>2, <1>3, <1>4, <1>6 DEF Put, With, s
<1>7. QED
  BY <1>5, <1>6

LEMMA PutEntry ==
  ASSUME NEW env, env = svcEnv, res \in Environment, NEW c, Len(c.envFrom) \in Nat,
         Len(c.env) \in Nat, NEW i \in 1..Len(c.env), c.env[i] \in EntrySpec,
         ~EntryBroken(c.env[i])
  PROVE  Put(c, Len(c.envFrom) + i, res, env)
           = IF EntryGives(c.env[i]) THEN With(res, One(c.env[i].name, EntryValue(c.env[i])))
             ELSE res
<1> DEFINE e == c.env[i]  k == Len(c.envFrom)  j == k + i
<1>1. ~(j <= k) /\ j - k = i
  <2>1. k \in Nat /\ i \in Nat \ {0}
    OBVIOUS
  <2> HIDE DEF k
  <2>2. QED
    BY <2>1
<1> HIDE DEF j
<1>2. Gives(c, j) = IF e.from = "resource" \/ (e.from = "key" /\ KeyIsMissing(e)) THEN {}
                    ELSE {e.name}
  BY <1>1 DEF Gives
<1>3. \A n : ValueOf(c, j, n, res, env) = EntryValue(e)
  BY <1>1 DEF ValueOf, EntryValue
<1> HIDE DEF e
<1>4. Gives(c, j) = IF EntryGives(e) THEN {e.name} ELSE {}
  BY <1>2 DEF EntryGives, e
<1>5. CASE EntryGives(e)
  <2> DEFINE x == EntryValue(e)
  <2>1. /\ DOMAIN One(e.name, x) = {e.name} /\ One(e.name, x)[e.name] = x
    BY DEF One
  <2> HIDE DEF x
  <2>2. \A n : ValueOf(c, j, n, res, env) = x
    BY <1>3 DEF x
  <2>3. Put(c, j, res, env) = [n \in DOMAIN res \cup {e.name} |-> IF n \in {e.name} THEN x ELSE res[n]]
    BY <1>4, <1>5, <2>2 DEF Put
  <2>4. With(res, One(e.name, x))
          = [n \in DOMAIN res \cup {e.name} |-> IF n \in {e.name} THEN x ELSE res[n]]
    BY <2>1 DEF With
  <2>5. QED
    BY <1>5, <2>3, <2>4 DEF x, e, j
<1>6. CASE ~EntryGives(e)
  BY <1>4, <1>6, PutNothing DEF e, j
<1>7. QED
  BY <1>5, <1>6

LEMMA DeclaredStays ==
  ASSUME UNCHANGED given
  PROVE  /\ \A c, p, env : Trails(c, p, env)' = Trails(c, p, env)
         /\ \A c, env : Declared(c, env)' = Declared(c, env)
         /\ ServiceEnvs' = ServiceEnvs
<1>1. \A c, i : Gives(c, i)' = Gives(c, i)
  BY DEF given, Gives, IsMissing, KeyIsMissing, ValidNames, Prefixed
<1>2. \A c, i, n, m, env : ValueOf(c, i, n, m, env)' = ValueOf(c, i, n, m, env)
  BY DEF given, ValueOf, FromObject, ValidNames, Prefixed
<1>3. \A c, i, m, env : Put(c, i, m, env)' = Put(c, i, m, env)
  BY <1>1, <1>2 DEF Put
<1>4. \A c, p, env : Trails(c, p, env)' = Trails(c, p, env)
  BY <1>3 DEF Trails
<1>5. \A c, env : Declared(c, env)' = Declared(c, env)
  BY DEF given, Declared, FromObject, IsMissing, KeyIsMissing, ValidNames, Prefixed
<1>6. QED
  BY <1>4, <1>5, ServiceEnvsStay

LEMMA DeclaredStep ==
  ASSUME EnvTypes, UnbrokenSoFar, ServicesInAnyOrder, DeclaredSoFar, PopulatedAsDeclared,
         [PopulateEnvironmentVariables]_vars
  PROVE  DeclaredSoFar' /\ PopulatedAsDeclared'
<1>0. Given /\ idx \in Nat \ {0} /\ res \in Environment /\ done \in Seq(Environment)
  BY DEF EnvTypes
<1>b. pc # "done" =>
        /\ Container \in ContainerSpec /\ Len(Container.envFrom) \in Nat
        /\ Len(Container.env) \in Nat /\ Len(done) \in Nat
        /\ \A i \in 1..Len(Container.env) : Container.env[i] \in EntrySpec
  BY ContainerTyped
<1>c. \A i \in DOMAIN done :
        \E env \in ServiceEnvs : done[i] = Declared(pod.containers[i], env)
  BY DEF PopulatedAsDeclared
<1>d. ASSUME UNCHANGED <<given, done>> PROVE PopulatedAsDeclared'
  <2>1. pod' = pod /\ done' = done /\ UNCHANGED given
    BY <1>d DEF given
  <2>2. QED
    BY <1>c, <2>1, DeclaredStays DEF PopulatedAsDeclared
<1>1. CASE UNCHANGED vars
  <2>1. /\ UNCHANGED given /\ UNCHANGED <<given, done>>
        /\ pc' = pc /\ idx' = idx /\ res' = res /\ svcEnv' = svcEnv
    BY <1>1 DEF vars, given
  <2>2. Container' = Container
    BY <1>0, <2>1, Stays
  <2>3. QED
    BY <1>d, <2>1, <2>2, DeclaredStays DEF DeclaredSoFar
<1>2. CASE makeEnvironmentMapBasedOnEnvFrom
  <2> DEFINE c == Container  s == c.envFrom[idx]
  <2>1. /\ pc = "envFrom" /\ idx \in 1..Len(c.envFrom) /\ idx' = idx + 1
        /\ s \in SourceSpec /\ UNCHANGED <<given, done>> /\ UNCHANGED given
        /\ pc' \in {"envFrom", "failed"}
        /\ res' = IF IsMissing(s.ref) THEN res ELSE With(res, FromObject(s))
    BY <1>2, EnvFromStep
  <2>2. Container' = c
    BY <1>0, <2>1, Stays
  <2>3. \A env : res' = Put(c, idx, res, env)
    BY <1>0, <1>b, <2>1, PutSource
  <2>4. res' \in Environment
    BY <1>2, TypesStep DEF EnvTypes, PopulateEnvironmentVariables
  <2>5. \A env : \E f \in Trails(c, idx - 1, env) : f[idx - 1] = res
    BY <2>1 DEF DeclaredSoFar
  <2> HIDE DEF c, s
  <2>6. ASSUME NEW env PROVE \E g \in Trails(c, idx, env) : g[idx] = res'
    <3>1. idx - 1 \in Nat /\ (idx - 1) + 1 = idx
      BY <1>0
    <3> DEFINE p == idx - 1
    <3> HIDE DEF p
    <3>0. PICK f \in Trails(c, p, env) : f[p] = res
      BY <2>5 DEF p
    <3>2. p \in Nat /\ p + 1 = idx /\ f \in Trails(c, p, env) /\ f[p] = res
      BY <3>0, <3>1 DEF p
    <3>3. Put(c, p + 1, f[p], env) \in Environment
      BY <2>3, <2>4, <3>2
    <3>4. \E g \in Trails(c, p + 1, env) : g[p + 1] = Put(c, p + 1, f[p], env)
      BY <3>2, <3>3, TrailOne
    <3>5. QED
      BY <2>3, <3>2, <3>4
  <2>7. idx' - 1 = idx
    BY <1>0, <2>1
  <2>8. QED
    BY <1>d, <2>1, <2>2, <2>6, <2>7, DeclaredStays DEF DeclaredSoFar
<1>3. CASE getServiceEnvVarMap
  <2> DEFINE c == Container  k == Len(c.envFrom)
  <2>1. /\ pc = "envFrom" /\ idx = k + 1 /\ pc' = "env" /\ idx' = 1
        /\ res' = res /\ UNCHANGED <<given, done>> /\ UNCHANGED given
    BY <1>3, ServiceStep
  <2>2. Container' = c
    BY <1>0, <2>1, Stays
  <2>3. k \in Nat
    BY <1>b, <2>1
  <2>4. \A env : \E f \in Trails(c, idx - 1, env) : f[idx - 1] = res
    BY <2>1 DEF DeclaredSoFar
  <2>5. idx - 1 = k /\ k + idx' - 1 = k
    <3> HIDE DEF k
    <3>1. QED
      BY <2>1, <2>3
  <2>6. \E f \in Trails(c, k + idx' - 1, svcEnv') : f[k + idx' - 1] = res'
    BY <2>1, <2>4, <2>5
  <2>7. QED
    BY <1>d, <2>1, <2>2, <2>6, DeclaredStays DEF DeclaredSoFar
<1>4. CASE makeEnvironmentMap
  <2> DEFINE c == Container  e == c.env[idx]  k == Len(c.envFrom)
  <2>1. /\ pc = "env" /\ idx \in 1..Len(c.env) /\ idx' = idx + 1
        /\ UNCHANGED <<given, done>> /\ UNCHANGED given /\ svcEnv' = svcEnv
        /\ pc' = (IF EntryBroken(e) THEN "failed" ELSE "env")
        /\ res' = IF EntryGives(e) THEN With(res, One(e.name, EntryValue(e))) ELSE res
    BY <1>4, EnvStep
  <2>2. Container' = c
    BY <1>0, <2>1, Stays
  <2>3. k \in Nat /\ Len(c.env) \in Nat /\ e \in EntrySpec
    BY <1>b, <2>1
  <2>4. CASE EntryBroken(e)
    BY <1>d, <2>1, <2>4 DEF DeclaredSoFar
  <2>5. CASE ~EntryBroken(e)
    <3>1. res' = Put(c, k + idx, res, svcEnv)
      BY <1>0, <2>1, <2>3, <2>5, PutEntry
    <3>2. res' \in Environment
      BY <1>4, TypesStep DEF EnvTypes, PopulateEnvironmentVariables
    <3>3. PICK f \in Trails(c, k + idx - 1, svcEnv) : f[k + idx - 1] = res
      BY <2>1 DEF DeclaredSoFar
    <3> HIDE DEF c, e, k
    <3> DEFINE p == k + idx - 1
    <3>4. p \in Nat /\ p + 1 = k + idx
      BY <1>0, <2>3
    <3> HIDE DEF p
    <3>5. f \in Trails(c, p, svcEnv) /\ f[p] = res
      BY <3>3 DEF p
    <3>6. \E g \in Trails(c, p + 1, svcEnv) : g[p + 1] = Put(c, p + 1, f[p], svcEnv)
      BY <3>1, <3>2, <3>4, <3>5, TrailOne
    <3>7. k + idx' - 1 = p + 1
      BY <1>0, <2>1, <2>3, <3>4
    <3>8. \E g \in Trails(c, k + idx' - 1, svcEnv') : g[k + idx' - 1] = res'
      BY <2>1, <3>1, <3>4, <3>5, <3>6, <3>7
    <3>9. QED
      BY <1>d, <2>1, <2>2, <2>5, <3>8, DeclaredStays DEF DeclaredSoFar, c, k
  <2>6. QED
    BY <2>4, <2>5
<1>5. CASE populateContainerEnvironment
  <2> DEFINE c == Container  k == Len(c.envFrom)  l == Len(c.env)
  <2>1. /\ pc = "env" /\ idx = l + 1 /\ idx' = 1 /\ res' = NoVars
        /\ done' = Append(done, With(svcEnv, res))
        /\ pc' \in {"done", "envFrom"} /\ UNCHANGED given
    BY <1>5, PopulateStep DEF populateContainerEnvironment
  <2>2. k \in Nat /\ l \in Nat /\ c = pod.containers[Len(done) + 1]
    BY <1>b, <2>1 DEF Container
  <2>3. k + idx - 1 = k + l
    <3> HIDE DEF k, l
    <3>1. QED
      BY <2>1, <2>2
  <2>4. PICK f \in Trails(c, k + l, svcEnv) : f[k + l] = res
    <3>1. \E f \in Trails(c, k + idx - 1, svcEnv) : f[k + idx - 1] = res
      BY <2>1 DEF DeclaredSoFar
    <3>2. QED
      BY <2>3, <3>1
  <2>5. svcEnv \in ServiceEnvs /\ Declared(c, svcEnv) = With(svcEnv, res)
    <3>1. svcEnv \in ServiceEnvs
      BY <2>1 DEF ServicesInAnyOrder
    <3>2. Declared(c, svcEnv) = With(svcEnv, f[k + l])
      BY <2>2, <2>4, DeclaredIs
    <3>3. QED
      BY <2>4, <3>1, <3>2
  <2>6. PopulatedAsDeclared'
    <3> DEFINE x == With(svcEnv, res)
    <3> HIDE DEF x
    <3>1. x \in Environment
      BY EnvironmentWith DEF EnvTypes, x
    <3>2. /\ DOMAIN done' = 1..Len(done)+1 /\ done'[Len(done) + 1] = x
          /\ \A i \in 1..Len(done) : done'[i] = done[i]
      BY <1>0, <2>1, <3>1 DEF x
    <3>3. \A i \in 1..Len(done)+1 : i \in DOMAIN done \/ i = Len(done) + 1
      BY <1>0
    <3>4. DOMAIN done = 1..Len(done)
      BY <1>0
    <3>5. pod' = pod
      BY <2>1 DEF given
    <3> HIDE DEF c
    <3>6. \A i \in DOMAIN done' :
            \E env \in ServiceEnvs : done'[i] = Declared(pod.containers[i], env)
      BY <1>c, <2>2, <2>5, <3>2, <3>3, <3>4 DEF x
    <3>7. QED
      BY <2>1, <3>5, <3>6, DeclaredStays DEF PopulatedAsDeclared
  <2>7. DeclaredSoFar'
    <3>1. \A d, env : \E g \in Trails(d, 0, env) : g[0] = NoVars
      BY TrailZero
    <3>2. idx' - 1 = 0
      BY <2>1
    <3>3. QED
      BY <2>1, <3>1, <3>2, DeclaredStays DEF DeclaredSoFar
  <2>8. QED
    BY <2>6, <2>7
<1>6. QED
  BY <1>1, <1>2, <1>3, <1>4, <1>5 DEF PopulateEnvironmentVariables


(* The variables of a container are what its spec declares: for each name   *)
(* the last entry that gives it, ".env" after ".envFrom", references read   *)
(* in what earlier entries gave, services last - whatever the pod, the      *)
(* objects and the services (env.go 106-122, 310-331).                     *)
THEOREM PopulatedAsDeclaredHolds == Spec => []PopulatedAsDeclared
<1>1. Init => DeclaredSoFar /\ PopulatedAsDeclared /\ UnbrokenSoFar
  <2> SUFFICES ASSUME Init PROVE DeclaredSoFar /\ PopulatedAsDeclared /\ UnbrokenSoFar
    OBVIOUS
  <2>1. pc = "envFrom" /\ idx = 1 /\ done = <<>> /\ res = NoVars
    BY DEF Init
  <2>2. idx - 1 = 0 /\ 1..idx-1 = {} /\ DOMAIN done = {}
    BY <2>1
  <2>3. QED
    BY <2>1, <2>2, TrailZero DEF DeclaredSoFar, PopulatedAsDeclared, UnbrokenSoFar
<1>2. EnvTypes /\ UnbrokenSoFar /\ StopsAtFirstBroken /\ [PopulateEnvironmentVariables]_vars
        => UnbrokenSoFar'
  BY UnbrokenStep
<1>3. EnvTypes /\ UnbrokenSoFar /\ ServicesInAnyOrder /\ DeclaredSoFar /\ PopulatedAsDeclared
        /\ [PopulateEnvironmentVariables]_vars => DeclaredSoFar' /\ PopulatedAsDeclared'
  BY DeclaredStep
<1>4. QED
  BY <1>1, <1>2, <1>3, EnvTypesInvariant, StopsAtFirstBrokenHolds, ServicesInAnyOrderHolds,
     PTL DEF Spec


(* The behaviours the runs check on every small pod are such calls, so that *)
(* what is proved of a call holds of them.                                 *)
THEOREM RunsPopulate == MCSpec => Spec
<1>1. MCInit => Init
  BY DEF MCInit
<1>2. [MCNext]_<<vars, written>> => [PopulateEnvironmentVariables]_vars
  BY DEF MCNext
<1>3. QED
  BY <1>1, <1>2, PTL DEF MCSpec, Spec

=============================================================================
