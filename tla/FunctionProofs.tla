--------------------------- MODULE FunctionProofs ---------------------------
(***************************************************************************)
(* Proofs about what KNoC computes without the cluster: for every pod,     *)
(* store and set of services, for strings of any length and any file.      *)
(***************************************************************************)
EXTENDS MCFunctions, SequenceTheorems, FiniteSetTheorems, TLAPS

-----------------------------------------------------------------------------
(* The least element of a set of naturals, and what follows from its       *)
(* existence: induction, for a given set of naturals.                      *)

LEMMA NatMin ==
  ASSUME NEW T, T \subseteq Nat, T # {}
  PROVE  \E x \in T : \A y \in T : x <= y
<1> DEFINE I == {1..n : n \in T}
           R == StrictSubsetOrdering(Nat)
<1>1. I # {} /\ I \subseteq FiniteSubsetsOf(Nat)
  <2>1. ASSUME NEW n \in T PROVE 1..n \in SUBSET Nat /\ IsFiniteSet(1..n)
    BY FS_Interval
  <2>2. QED
    BY <2>1 DEF FiniteSubsetsOf
<1>2. IsWellFoundedOn(R, FiniteSubsetsOf(Nat))
  BY FS_StrictSubsetOrderingWellFounded
<1>3. PICK s \in I : \A r \in I : <<r, s>> \notin R
  <2> HIDE DEF I, R
  <2>1. QED
    BY <1>1, <1>2, WFMin
<1>4. PICK x \in T : s = 1..x
  BY <1>3
<1>5. ASSUME NEW y \in T PROVE x <= y
  <2>1. <<1..y, 1..x>> \notin R
    BY <1>3, <1>4
  <2>2. SUFFICES ASSUME y < x PROVE FALSE
    BY <1>4, <1>5
  <2>3. /\ 1..y \subseteq 1..x /\ x \in 1..x /\ x \notin 1..y
        /\ 1..x \in SUBSET Nat /\ 1..y \in SUBSET Nat
    BY <2>2
  <2>4. QED
    BY <2>1, <2>3 DEF StrictSubsetOrdering
<1>6. QED
  BY <1>5

LEMMA SetInduction ==
  ASSUME NEW T, 0 \in T, \A n \in Nat : n \in T => n + 1 \in T
  PROVE  Nat \subseteq T
<1> SUFFICES ASSUME Nat \ T # {} PROVE FALSE
  OBVIOUS
<1>1. PICK x \in Nat \ T : \A y \in Nat \ T : x <= y
  BY NatMin
<1>2. x # 0 /\ x - 1 \in Nat /\ x - 1 \in T
  BY <1>1
<1>3. QED
  BY <1>1, <1>2

LEMMA DownInduction ==
  ASSUME NEW n \in Nat, NEW T, \A j \in 1..n : j+1..n \subseteq T => j \in T
  PROVE  1..n \subseteq T
<1> DEFINE U == {m \in Nat : \A j \in 1..n : j + m > n => j \in T}
<1>1. 0 \in U
  OBVIOUS
<1>2. ASSUME NEW m \in Nat, m \in U PROVE m + 1 \in U
  <2>1. ASSUME NEW j \in 1..n, j + (m + 1) > n PROVE j \in T
    <3>1. \A h \in j+1..n : h \in 1..n /\ h + m > n
      BY <2>1
    <3>2. j+1..n \subseteq T
      BY <1>2, <3>1
    <3>3. QED
      BY <3>2
  <2>2. QED
    BY <2>1
<1>3. Nat \subseteq U
  <2> HIDE DEF U
  <2>1. QED
    BY <1>1, <1>2, SetInduction
<1>4. n \in U /\ \A j \in 1..n : j + n > n
  BY <1>3
<1>5. QED
  BY <1>4

LEMMA UpInduction ==
  ASSUME NEW n \in Nat, NEW T, 0 \in T, \A i \in 1..n : i - 1 \in T => i \in T
  PROVE  0..n \subseteq T
<1> DEFINE U == {m \in Nat : m <= n => m \in T}
<1>1. 0 \in U
  OBVIOUS
<1>2. ASSUME NEW m \in Nat, m \in U PROVE m + 1 \in U
  <2>1. ASSUME m + 1 <= n PROVE m + 1 \in T
    <3>1. m + 1 \in 1..n /\ (m + 1) - 1 = m /\ m \in T
      BY <1>2, <2>1
    <3>2. QED
      BY <3>1
  <2>2. QED
    BY <2>1
<1>3. Nat \subseteq U
  <2> HIDE DEF U
  <2>1. QED
    BY <1>1, <1>2, SetInduction
<1>4. QED
  BY <1>3

LEMMA MinFacts ==
  ASSUME NEW T, T \subseteq Nat, T # {}
  PROVE  Min(T) \in T /\ \A y \in T : Min(T) <= y
BY NatMin DEF Min

LEMMA MinIs ==
  ASSUME NEW T, T \subseteq Nat, NEW x \in T, \A y \in T : x <= y
  PROVE  Min(T) = x
<1> DEFINE m == Min(T)
<1>1. m \in T /\ m <= x
  BY MinFacts
<1> HIDE DEF m
<1>2. x <= m /\ m \in Nat /\ x \in Nat
  BY <1>1
<1>3. m = x
  BY <1>1, <1>2
<1>4. QED
  BY <1>3 DEF m

-----------------------------------------------------------------------------
(* The inputs a behaviour writes: bytes, and one file or none.             *)

InputInv ==
  /\ alphabet \in Alphabets \cup {{}}
  /\ input \in String
  /\ file # {} => \E content \in Contents : file = {content}

LEMMA InputInvariant == MCSpec => []InputInv
<1>1. MCInit => InputInv
  BY DEF MCInit, InputInv, String
<1>2. InputInv /\ [MCNext]_<<vars, written>> => InputInv'
  <2> SUFFICES ASSUME InputInv, [MCNext]_<<vars, written>> PROVE InputInv'
    OBVIOUS
  <2>1. CASE UNCHANGED written
    BY <2>1 DEF InputInv, written
  <2>2. CASE Choose
    BY <2>2 DEF Choose, InputInv
  <2>3. CASE Type
    <3>1. PICK byte \in alphabet : input' = Append(input, byte)
      BY <2>3 DEF Type
    <3>2. byte \in 0..255
      BY <2>3, <3>1, AlphabetAssumption DEF Type, InputInv
    <3>3. QED
      BY <2>3, <3>1, <3>2 DEF Type, InputInv, String
  <2>4. CASE Extend("env", Assigned) \/ Extend("mounts", Mounted)
    BY <2>4 DEF Extend, InputInv
  <2>5. CASE \E field \in {"command", "args"} : Extend(field, Spoken)
    BY <2>5 DEF Extend, InputInv
  <2>6. QED
    BY <2>1, <2>2, <2>3, <2>4, <2>5 DEF MCNext, Write, written
<1>3. QED
  BY <1>1, <1>2, PTL DEF MCSpec

-----------------------------------------------------------------------------
(* Names.                                                                  *)

LEMMA ConcatString ==
  ASSUME NEW s \in String, NEW t \in String
  PROVE  /\ s \o t \in String
         /\ Len(s \o t) = Len(s) + Len(t)
         /\ \A i \in 1..Len(s) : (s \o t)[i] = s[i]
         /\ \A i \in 1..Len(t) : (s \o t)[Len(s) + i] = t[i]
BY DEF String

LEMMA ConcatStrings ==
  ASSUME NEW s \in String, NEW t \in String, NEW u \in String
  PROVE  /\ (s \o t) \o u = s \o (t \o u)
         /\ <<>> \o s = s /\ s \o <<>> = s
BY ConcatAssociative, ConcatEmptySeq DEF String

(* Taken one instance at a time, by name.                                    *)
Associates(r, s, t) == (r \o s) \o t = r \o (s \o t)

LEMMA StringsAssociate == \A r, s, t \in String : Associates(r, s, t)
BY ConcatStrings DEF Associates

LEMMA ListsAssociate == \A r, s, t \in Seq(String) : Associates(r, s, t)
BY ConcatAssociative DEF Associates

LEMMA StringIntro ==
  ASSUME NEW n \in Nat, NEW f \in [1..n -> 0..255]
  PROVE  f \in String /\ Len(f) = n
BY DEF String

LEMMA StringFacts ==
  ASSUME NEW s \in String
  PROVE  /\ Len(s) \in Nat /\ DOMAIN s = 1..Len(s)
         /\ \A i \in 1..Len(s) : s[i] \in 0..255
         /\ s = [i \in 1..Len(s) |-> s[i]]
         /\ s # <<>> => Len(s) > 0
<1>1. Len(s) \in Nat /\ s \in [1..Len(s) -> 0..255]
  BY LenProperties DEF String
<1>2. s # <<>> => Len(s) > 0
  BY EmptySeq DEF String
<1>3. QED
  BY <1>1, <1>2

LEMMA StringEqual ==
  ASSUME NEW s \in String, NEW t \in String, Len(s) = Len(t),
         \A i \in 1..Len(s) : s[i] = t[i]
  PROVE  s = t
BY SeqEqual DEF String

LEMMA PairString ==
  ASSUME NEW a1 \in 0..255, NEW a2 \in 0..255
  PROVE  <<a1>> \o <<a2>> = <<a1, a2>>
<1> DEFINE s == <<a1>> \o <<a2>>  t == <<a1, a2>>
<1>1. /\ s \in String /\ Len(s) = 2 /\ s[1] = a1 /\ s[2] = a2
      /\ t \in String /\ Len(t) = 2 /\ t[1] = a1 /\ t[2] = a2
  BY DEF String
<1> HIDE DEF s, t
<1>2. \A i \in 1..Len(s) : s[i] = t[i]
  BY <1>1
<1>3. QED
  BY <1>1, <1>2, StringEqual DEF s, t

LEMMA SubString ==
  ASSUME NEW s \in String, NEW m \in Nat \ {0}, NEW n \in Nat, n <= Len(s)
  PROVE  /\ SubSeq(s, m, n) \in String
         /\ Len(SubSeq(s, m, n)) = IF m <= n THEN n - m + 1 ELSE 0
         /\ \A i \in 1..n-m+1 : SubSeq(s, m, n)[i] = s[m + i - 1]
<1>1. ASSUME NEW i \in m..n PROVE s[i] \in 0..255
  <2>1. Len(s) \in Nat /\ i \in 1..Len(s)
    BY StringFacts
  <2>2. QED
    BY <2>1, StringFacts
<1>2. QED
  BY <1>1, SubSeqProperties DEF String

LEMMA OneByteString ==
  ASSUME NEW s \in String, NEW k \in 1..Len(s)
  PROVE  SubSeq(s, k, k) = <<s[k]>>
<1>1. Len(s) \in Nat /\ s[k] \in 0..255
  BY StringFacts
<1>2. /\ SubSeq(s, k, k) \in String /\ Len(SubSeq(s, k, k)) = 1
      /\ SubSeq(s, k, k)[1] = s[k]
  BY <1>1, SubString
<1>3. <<s[k]>> \in String /\ Len(<<s[k]>>) = 1 /\ <<s[k]>>[1] = s[k]
  BY <1>1 DEF String
<1>4. \A i \in 1..Len(SubSeq(s, k, k)) : SubSeq(s, k, k)[i] = <<s[k]>>[i]
  BY <1>2, <1>3
<1>5. QED
  BY <1>2, <1>3, <1>4, StringEqual

LEMMA KeyTellsPod ==
  ASSUME NEW s \in String,
         NEW n \in 1..Len(s)-2, NEW m \in 2..Len(s),
         BuildKeyFromNames(SubSeq(s, 1, n), SubSeq(s, m, Len(s))) = s
  PROVE  m = n + 2 /\ s[n + 1] = hyphen
<1> DEFINE front == SubSeq(s, 1, n)  back == SubSeq(s, m, Len(s))
           start == front \o <<hyphen>>
<1>1. Len(s) \in Nat /\ \A i \in 1..Len(s) : s[i] \in 0..255
  BY LenProperties, ElementOfSeq DEF String
<1>2. front \in String /\ Len(front) = n
  BY <1>1, SubSeqProperties DEF String
<1>3. back \in String /\ Len(back) = Len(s) - m + 1
  BY <1>1, SubSeqProperties DEF String
<1>4. start \o back = s
  BY DEF BuildKeyFromNames
<1> HIDE DEF front, back
<1>5. start \in String /\ Len(start) = n + 1 /\ start[n + 1] = hyphen
  BY <1>2 DEF String, hyphen
<1> HIDE DEF start
<1>6. Len(start \o back) = Len(start) + Len(back) /\ (start \o back)[n + 1] = start[n + 1]
  <2>1. n + 1 \in 1..Len(start)
    BY <1>1, <1>5
  <2>2. QED
    BY <1>3, <1>5, <2>1, ConcatString
<1>7. QED
  BY <1>1, <1>3, <1>4, <1>5, <1>6

LEMMA KeysTell ==
  ASSUME InputInv
  PROVE  KeysTellPods
<1> DEFINE namespace(n) == SubSeq(input, 1, n)
           name(m) == SubSeq(input, m, Len(input))
           plain(n) == \A i \in 1..n : input[i] # hyphen
<1> SUFFICES ASSUME NEW n \in 1..Len(input)-2, NEW k \in 1..Len(input)-2,
                    NEW m \in 2..Len(input), NEW l \in 2..Len(input),
                    plain(n), BuildKeyFromNames(namespace(n), name(m)) = input,
                    plain(k), BuildKeyFromNames(namespace(k), name(l)) = input
             PROVE  n = k /\ m = l
  BY DEF KeysTellPods
<1>1. Len(input) \in Nat
  BY LenProperties DEF InputInv, String
<1>2. m = n + 2 /\ input[n + 1] = hyphen
  BY KeyTellsPod DEF InputInv
<1>3. l = k + 2 /\ input[k + 1] = hyphen
  BY KeyTellsPod DEF InputInv
<1>4. QED
  BY <1>1, <1>2, <1>3

(* A pod's key gives its names back, if its namespace has no hyphen, for    *)
(* names of any length (common/utils.go 105-120).                          *)
THEOREM KeysTellPodsHolds == MCSpec => []KeysTellPods
BY InputInvariant, KeysTell, PTL

(* The name of an image, without its case distinction: its bytes up to the  *)
(* first colon, with hyphens for slashes.                                  *)
LEMMA NormalizedName ==
  ASSUME NEW s \in String
  PROVE  /\ NormalizeImageName(s) \in String
         /\ Len(NormalizeImageName(s)) <= Len(s)
         /\ \A i \in 1..Len(NormalizeImageName(s)) :
              /\ s[i] # colon
              /\ NormalizeImageName(s)[i] = IF s[i] = slash THEN hyphen ELSE s[i]
         /\ (\A i \in 1..Len(s) : s[i] # colon) => Len(NormalizeImageName(s)) = Len(s)
<1> DEFINE dashed == [i \in DOMAIN s |-> IF s[i] = slash THEN hyphen ELSE s[i]]
           colons == {i \in DOMAIN s : s[i] = colon}
<1>1. Len(s) \in Nat /\ DOMAIN s = 1..Len(s) /\ \A i \in 1..Len(s) : s[i] \in 0..255
  BY LenProperties, ElementOfSeq DEF String
<1>2. dashed \in String /\ Len(dashed) = Len(s)
  <2>1. \A i \in 1..Len(s) : (IF s[i] = slash THEN hyphen ELSE s[i]) \in 0..255
    BY <1>1 DEF hyphen
  <2>2. dashed \in [1..Len(s) -> 0..255]
    BY <1>1, <2>1
  <2> HIDE DEF dashed
  <2>3. QED
    BY <1>1, <2>2, StringIntro
<1>3. \A i \in 1..Len(s) : dashed[i] = IF s[i] = slash THEN hyphen ELSE s[i]
  BY <1>1
<1>4. CASE colons = {}
  <2>1. NormalizeImageName(s) = dashed
    BY <1>4 DEF NormalizeImageName
  <2>2. \A i \in 1..Len(s) : s[i] # colon
    BY <1>1, <1>4
  <2> HIDE DEF dashed, colons
  <2>3. QED
    BY <1>1, <1>2, <1>3, <2>1, <2>2
<1>5. CASE colons # {}
  <2> DEFINE first == Min(colons)  cut == SubSeq(dashed, 1, first - 1)
  <2>1. NormalizeImageName(s) = cut
    BY <1>5 DEF NormalizeImageName
  <2>2. first \in colons /\ \A y \in colons : first <= y
    <3>1. colons \subseteq Nat
      BY <1>1
    <3> HIDE DEF colons
    <3>2. QED
      BY <1>5, <3>1, MinFacts
  <2>3. first \in 1..Len(s) /\ \A i \in 1..first-1 : s[i] # colon
    <3> HIDE DEF first
    <3>1. first \in 1..Len(s)
      BY <1>1, <2>2
    <3>2. ASSUME NEW i \in 1..first-1, s[i] = colon PROVE FALSE
      <4>1. i \in colons /\ i < first
        BY <1>1, <3>1, <3>2
      <4>2. QED
        BY <2>2, <3>1, <4>1
    <3>3. QED
      BY <3>1, <3>2
  <2> HIDE DEF first, dashed, colons
  <2>4. /\ cut \in String /\ Len(cut) = first - 1
        /\ \A i \in 1..first-1 : cut[i] = dashed[i]
    BY <1>1, <1>2, <2>3, SubString
  <2> HIDE DEF cut
  <2>5. \A i \in 1..first-1 : i \in 1..Len(s)
    BY <1>1, <2>3
  <2>6. \E i \in 1..Len(s) : s[i] = colon
    BY <1>1, <2>2 DEF colons
  <2>7. QED
    BY <1>1, <1>3, <2>1, <2>3, <2>4, <2>5, <2>6
<1>6. QED
  BY <1>4, <1>5

LEMMA ImagesName ==
  ASSUME InputInv
  PROVE  ImagesNameFiles
<1> DEFINE name == NormalizeImageName(input)
           back == [i \in DOMAIN name |-> IF name[i] = hyphen THEN slash ELSE name[i]]
<1>1. /\ name \in String /\ Len(name) <= Len(input)
      /\ \A i \in 1..Len(name) : /\ input[i] # colon
                                 /\ name[i] = IF input[i] = slash THEN hyphen ELSE input[i]
      /\ (\A i \in 1..Len(input) : input[i] # colon) => Len(name) = Len(input)
  BY NormalizedName DEF InputInv
<1>2. /\ DOMAIN name = 1..Len(name) /\ Len(name) \in Nat
      /\ DOMAIN input = 1..Len(input) /\ Len(input) \in Nat
  BY <1>1, LenProperties DEF InputInv, String
<1>3. \A i \in DOMAIN name : name[i] \notin {slash, colon}
  <2> HIDE DEF name
  <2>1. ASSUME NEW i \in DOMAIN name PROVE name[i] # slash /\ name[i] # colon
    <3>1. /\ input[i] # colon
          /\ name[i] = IF input[i] = slash THEN hyphen ELSE input[i]
      BY <1>1, <1>2, <2>1
    <3>2. QED
      BY <3>1 DEF slash, colon, hyphen
  <2>2. QED
    BY <2>1
<1>4. ASSUME \A i \in DOMAIN input : input[i] \notin {hyphen, colon}
      PROVE  back = input
  <2>1. Len(name) = Len(input)
    BY <1>1, <1>2, <1>4
  <2>2. ASSUME NEW i \in 1..Len(input)
        PROVE  back[i] = input[i]
    <3> HIDE DEF name
    <3>1. i \in DOMAIN name /\ i \in DOMAIN input /\ input[i] # hyphen
      BY <1>2, <1>4, <2>1
    <3>2. name[i] = IF input[i] = slash THEN hyphen ELSE input[i]
      BY <1>1, <1>2, <3>1
    <3>3. back[i] = IF name[i] = hyphen THEN slash ELSE name[i]
      BY <3>1
    <3>4. QED
      BY <3>1, <3>2, <3>3
  <2>3. back = [i \in 1..Len(input) |-> input[i]]
    <3>1. back = [i \in 1..Len(input) |-> back[i]]
      BY <1>2, <2>1
    <3> HIDE DEF back
    <3>2. QED
      BY <2>2, <3>1
  <2>4. input = [i \in 1..Len(input) |-> input[i]]
    BY LenProperties DEF InputInv, String
  <2>5. QED
    BY <2>3, <2>4
<1>5. QED
  BY <1>3, <1>4 DEF ImagesNameFiles

(* The files of an image are in no other directory, and images without a   *)
(* version and without hyphens share none, however long their names are    *)
(* (remote.go 51-65).                                                      *)
THEOREM ImagesNameFilesHolds == MCSpec => []ImagesNameFiles
BY InputInvariant, ImagesName, PTL

-----------------------------------------------------------------------------
(* The node's configuration.                                               *)

LEMMA DefaultsParse ==
  ASSUME NEW r \in Resource
  PROVE  Default[r] \in Quantity /\ Default[r] # "" /\ "" \notin Quantity
BY QuantityAssumption DEF Resource, Default

LEMMA Capacity ==
  ASSUME InputInv
  PROVE  CapacityAsConfigured
<1> DEFINE starts == NewProvider(file, ThisNode)
           named(r) == {content[ThisNode][r] : content \in {c \in file : ThisNode \in DOMAIN c}}
<1>1. CASE file = {}
  <2>1. starts = {} /\ \A r \in Resource : named(r) = {}
    BY <1>1 DEF NewProvider, loadConfig
  <2>2. "cpu" \in Resource
    BY DEF Resource
  <2>3. QED
    BY <2>1, <2>2 DEF CapacityAsConfigured
<1>2. CASE file # {}
  <2>1. PICK content : file = {content}
    BY <1>2 DEF InputInv
  <2> DEFINE config == ConfigOf(content, ThisNode)
  <2>2. starts = IF \A r \in Resource : config[r] \in Quantity THEN {WithDefaults(config)} ELSE {}
    BY <2>1 DEF NewProvider, loadConfig, NewProviderConfig
  <2>3. CASE ThisNode \notin DOMAIN content
    <3>1. \A r \in Resource : named(r) = {}
      BY <2>1, <2>3
    <3>2. "cpu" \in Resource /\ config["cpu"] \notin Quantity
      BY <2>3, QuantityAssumption DEF ConfigOf, Resource
    <3>3. starts = {}
      BY <2>2, <3>2
    <3>4. QED
      BY <3>1, <3>2, <3>3 DEF CapacityAsConfigured
  <2>4. CASE ThisNode \in DOMAIN content
    <3> DEFINE record == content[ThisNode]
    <3>1. \A r \in Resource : named(r) = {record[r]}
      BY <2>1, <2>4
    <3>2. \A r \in Resource : config[r] = IF record[r] = "" THEN Default[r] ELSE record[r]
      BY <2>4 DEF ConfigOf, WithDefaults
    <3> HIDE DEF config, named, record
    <3>3. (\A r \in Resource : config[r] \in Quantity)
            = \A r \in Resource : named(r) # {} /\ named(r) \subseteq Quantity \cup {""}
      <4>1. ASSUME NEW r \in Resource
            PROVE  config[r] \in Quantity <=>
                     named(r) # {} /\ named(r) \subseteq Quantity \cup {""}
        BY <3>1, <3>2, DefaultsParse
      <4>2. QED
        BY <4>1
    <3>4. ASSUME \A r \in Resource : config[r] \in Quantity
          PROVE  \A r \in Resource : /\ WithDefaults(config)[r] = config[r]
                                     /\ {config[r]} = IF named(r) = {""} THEN {Default[r]} ELSE named(r)
      BY <3>1, <3>2, <3>4, DefaultsParse DEF WithDefaults
    <3>5. QED
      <4> HIDE DEF starts
      <4>1. CASE ~ \A r \in Resource : config[r] \in Quantity
        <5>1. starts = {}
          BY <2>2, <4>1
        <5>2. QED
          BY <3>3, <4>1, <5>1 DEF CapacityAsConfigured, named, starts
      <4>2. CASE \A r \in Resource : config[r] \in Quantity
        <5> DEFINE started == WithDefaults(config)
        <5>1. starts = {started}
          BY <2>2, <4>2
        <5>2. capacity(started) = {started}
          BY <3>4, <4>2 DEF capacity
        <5>3. \A r \in Resource : {started[r]} = IF named(r) = {""} THEN {Default[r]} ELSE named(r)
          BY <3>4, <4>2
        <5> HIDE DEF started
        <5>4. QED
          BY <3>3, <4>2, <5>1, <5>2, <5>3 DEF CapacityAsConfigured, named, starts
      <4>3. QED
        BY <4>1, <4>2
  <2>5. QED
    BY <2>3, <2>4
<1>3. QED
  BY <1>1, <1>2

(* Whatever the file holds, the provider starts exactly when its node is   *)
(* named with quantities that parse, and its capacity is then what the     *)
(* file gives or the default: asking for it never ends the process         *)
(* (knoc.go 61-129, 459-465).                                              *)
THEOREM CapacityAsConfiguredHolds == MCSpec => []CapacityAsConfigured
BY InputInvariant, Capacity, PTL

-----------------------------------------------------------------------------
(* Expansion. The environments a string is expanded in are maps from names  *)
(* to values.                                                              *)

Environment == UNION {[names -> String] : names \in SUBSET String}

LEMMA MappingFound ==
  ASSUME NEW context \in Seq(Environment), NEW name \in String
  PROVE  MappingFuncFor(context, name) \in String
<1> DEFINE knows == {i \in DOMAIN context : name \in DOMAIN context[i]}
<1>1. knows \subseteq 1..Len(context) /\ Len(context) \in Nat
  BY LenProperties
<1>2. CASE knows = {}
  <2>1. MappingFuncFor(context, name) = syntaxWrap(name)
    BY <1>2 DEF MappingFuncFor
  <2>2. QED
    BY <2>1 DEF syntaxWrap, String, operator, referenceOpener, referenceCloser
<1>3. CASE knows # {}
  <2> DEFINE first == Min(knows)
  <2>1. MappingFuncFor(context, name) = context[first][name]
    BY <1>3 DEF MappingFuncFor
  <2>2. first \in knows
    <3>1. knows \subseteq Nat
      BY <1>1
    <3> HIDE DEF knows
    <3>2. QED
      BY <1>3, <3>1, MinFacts
  <2> HIDE DEF first
  <2>3. context[first] \in Environment /\ name \in DOMAIN context[first]
    BY <1>1, <2>2, ElementOfSeq
  <2>4. QED
    BY <2>1, <2>3 DEF Environment
<1>4. QED
  BY <1>2, <1>3

(* What is read after an operator, case by case.                           *)
Closers(rest) == {i \in 2..Len(rest) : rest[i] = referenceCloser}

LEMMA ReadEscape ==
  ASSUME NEW rest \in String, rest # <<>>, rest[1] = operator
  PROVE  tryReadVariableName(rest) = [read |-> <<operator>>, isVar |-> FALSE, advance |-> 1]
BY DEF tryReadVariableName, operator, referenceOpener

LEMMA ReadReference ==
  ASSUME NEW rest \in String, rest # <<>>, rest[1] = referenceOpener, Closers(rest) # {}
  PROVE  /\ Min(Closers(rest)) \in 2..Len(rest)
         /\ rest[Min(Closers(rest))] = referenceCloser
         /\ \A i \in 2..Min(Closers(rest))-1 : rest[i] # referenceCloser
         /\ tryReadVariableName(rest) =
              [read |-> SubSeq(rest, 2, Min(Closers(rest)) - 1), isVar |-> TRUE,
               advance |-> Min(Closers(rest))]
<1>1. Len(rest) \in Nat /\ Closers(rest) \subseteq Nat
  BY StringFacts DEF Closers
<1>2. Min(Closers(rest)) \in Closers(rest) /\ \A y \in Closers(rest) : Min(Closers(rest)) <= y
  BY <1>1, MinFacts
<1> DEFINE first == Min(Closers(rest))
<1>3. first \in 2..Len(rest) /\ rest[first] = referenceCloser
  BY <1>2 DEF Closers
<1>4. \A i \in 2..first-1 : rest[i] # referenceCloser
  <2> HIDE DEF first
  <2>1. ASSUME NEW i \in 2..first-1, rest[i] = referenceCloser PROVE FALSE
    <3>1. i \in Closers(rest)
      BY <1>1, <1>3, <2>1 DEF Closers
    <3>2. first <= i
      BY <1>2, <3>1 DEF first
    <3>3. QED
      BY <1>1, <1>3, <3>2
  <2>2. QED
    BY <2>1
<1>5. tryReadVariableName(rest) =
        [read |-> SubSeq(rest, 2, first - 1), isVar |-> TRUE, advance |-> first]
  BY DEF tryReadVariableName, operator, referenceOpener, Closers
<1>6. QED
  BY <1>3, <1>4, <1>5

LEMMA ReadOpen ==
  ASSUME NEW rest \in String, rest # <<>>, rest[1] = referenceOpener, Closers(rest) = {}
  PROVE  tryReadVariableName(rest) =
           [read |-> <<operator, referenceOpener>>, isVar |-> FALSE, advance |-> 1]
BY DEF tryReadVariableName, operator, referenceOpener, Closers

LEMMA RuneTyped ==
  ASSUME NEW b \in 0..255
  PROVE  RuneOf(b) \in String /\ (b < 128 => RuneOf(b) = <<b>>)
<1>1. CASE b < 128
  BY <1>1 DEF RuneOf, String
<1>2. CASE b >= 128
  <2>1. 192 + b \div 64 \in 0..255 /\ 128 + (b % 64) \in 0..255
    BY <1>2
  <2>2. RuneOf(b) = <<192 + b \div 64, 128 + (b % 64)>>
    BY <1>2 DEF RuneOf
  <2>3. QED
    BY <1>2, <2>1, <2>2 DEF String
<1>3. QED
  BY <1>1, <1>2

LEMMA ReadOther ==
  ASSUME NEW rest \in String, rest # <<>>, rest[1] # operator, rest[1] # referenceOpener
  PROVE  /\ tryReadVariableName(rest) =
              [read |-> <<operator>> \o RuneOf(rest[1]), isVar |-> FALSE, advance |-> 1]
         /\ <<operator>> \o RuneOf(rest[1]) \in String
         /\ rest[1] < 128 => <<operator>> \o RuneOf(rest[1]) = <<operator, rest[1]>>
<1>1. rest[1] \in 0..255
  <2>1. 1 \in 1..Len(rest)
    BY StringFacts
  <2>2. QED
    BY <2>1, StringFacts
<1>2. RuneOf(rest[1]) \in String /\ (rest[1] < 128 => RuneOf(rest[1]) = <<rest[1]>>)
  BY <1>1, RuneTyped
<1>3. tryReadVariableName(rest) =
        [read |-> <<operator>> \o RuneOf(rest[1]), isVar |-> FALSE, advance |-> 1]
  BY DEF tryReadVariableName
<1>4. <<operator>> \in String
  BY DEF String, operator
<1>5. <<operator>> \o RuneOf(rest[1]) \in String
  BY <1>2, <1>4, ConcatString
<1>6. <<operator>> \o <<rest[1]>> = <<operator, rest[1]>>
  <2>1. operator \in 0..255
    BY DEF operator
  <2>2. QED
    BY <1>1, <2>1, PairString
<1>7. QED
  BY <1>2, <1>3, <1>5, <1>6

LEMMA ReadTyped ==
  ASSUME NEW rest \in String, rest # <<>>
  PROVE  /\ tryReadVariableName(rest).read \in String
         /\ tryReadVariableName(rest).isVar \in BOOLEAN
         /\ tryReadVariableName(rest).advance \in 1..Len(rest)
<1> DEFINE r == tryReadVariableName(rest)
<1>1. /\ Len(rest) \in Nat \ {0}
      /\ <<operator>> \in String /\ <<operator, referenceOpener>> \in String
  BY StringFacts DEF String, operator, referenceOpener
<1>2. CASE rest[1] = operator
  <2>1. r = [read |-> <<operator>>, isVar |-> FALSE, advance |-> 1]
    BY <1>2, ReadEscape
  <2>2. QED
    BY <1>1, <2>1
<1>3. CASE rest[1] = referenceOpener /\ Closers(rest) # {}
  <2> DEFINE first == Min(Closers(rest))
  <2>1. /\ first \in 2..Len(rest)
        /\ r = [read |-> SubSeq(rest, 2, first - 1), isVar |-> TRUE, advance |-> first]
    BY <1>3, ReadReference
  <2> HIDE DEF first
  <2>2. SubSeq(rest, 2, first - 1) \in String
    BY <1>1, <2>1, SubString
  <2>3. QED
    BY <1>1, <2>1, <2>2
<1>4. CASE rest[1] = referenceOpener /\ Closers(rest) = {}
  <2>1. r = [read |-> <<operator, referenceOpener>>, isVar |-> FALSE, advance |-> 1]
    BY <1>4, ReadOpen
  <2>2. QED
    BY <1>1, <2>1
<1>5. CASE rest[1] # operator /\ rest[1] # referenceOpener
  <2>1. /\ r = [read |-> <<operator>> \o RuneOf(rest[1]), isVar |-> FALSE, advance |-> 1]
        /\ <<operator>> \o RuneOf(rest[1]) \in String
    BY <1>5, ReadOther
  <2>2. QED
    BY <1>1, <2>1
<1>6. QED
  BY <1>2, <1>3, <1>4, <1>5

(* The loop of Expand is defined: each of its states writes a string.      *)
States(s) == (1..Len(s)+1) \X (1..Len(s)+1)

Name(s, cursor) == tryReadVariableName(SubSeq(s, cursor + 1, Len(s)))
After(s, cursor) == cursor + Name(s, cursor).advance + 1
Written(s, context, cursor) ==
  IF Name(s, cursor).isVar THEN MappingFuncFor(context, Name(s, cursor).read)
                           ELSE Name(s, cursor).read
Reads(s, cursor) == s[cursor] = operator /\ cursor < Len(s)

Turn(s, context, loop, at) ==
  IF at[2] > Len(s) THEN SubSeq(s, at[1], Len(s))
  ELSE IF Reads(s, at[2])
  THEN SubSeq(s, at[1], at[2] - 1) \o Written(s, context, at[2])
         \o loop[<<After(s, at[2]), After(s, at[2])>>]
  ELSE loop[<<at[1], at[2] + 1>>]

LEMMA ReadsForward ==
  ASSUME NEW s \in String, NEW context \in Seq(Environment), NEW k \in 1..Len(s), Reads(s, k)
  PROVE  /\ SubSeq(s, k + 1, Len(s)) \in String /\ SubSeq(s, k + 1, Len(s)) # <<>>
         /\ After(s, k) \in k+2..Len(s)+1 /\ Written(s, context, k) \in String
<1> DEFINE rest == SubSeq(s, k + 1, Len(s))
<1>1. Len(s) \in Nat /\ k < Len(s)
  BY StringFacts DEF Reads
<1>2. rest \in String /\ Len(rest) = Len(s) - k
  BY <1>1, SubString
<1> HIDE DEF rest
<1>3. rest # <<>>
  BY <1>1, <1>2
<1>4. /\ tryReadVariableName(rest).read \in String
      /\ tryReadVariableName(rest).isVar \in BOOLEAN
      /\ tryReadVariableName(rest).advance \in 1..Len(rest)
  BY <1>2, <1>3, ReadTyped
<1>5. After(s, k) \in k+2..Len(s)+1
  BY <1>1, <1>2, <1>4 DEF After, Name, rest
<1>6. Written(s, context, k) \in String
  BY <1>4, MappingFound DEF Written, Name, rest
<1>7. QED
  BY <1>2, <1>3, <1>5, <1>6 DEF rest

LEMMA TurnTyped ==
  ASSUME NEW s \in String, NEW context \in Seq(Environment),
         NEW loop \in [States(s) -> String], NEW at \in States(s)
  PROVE  Turn(s, context, loop, at) \in String
<1>1. Len(s) \in Nat /\ at[1] \in 1..Len(s)+1 /\ at[2] \in 1..Len(s)+1
  BY StringFacts DEF States
<1>2. CASE at[2] > Len(s)
  <2>1. Turn(s, context, loop, at) = SubSeq(s, at[1], Len(s))
    BY <1>2 DEF Turn
  <2>2. SubSeq(s, at[1], Len(s)) \in String
    BY <1>1, SubString
  <2>3. QED
    BY <2>1, <2>2
<1>3. CASE at[2] <= Len(s) /\ Reads(s, at[2])
  <2> DEFINE next == After(s, at[2])
             text == SubSeq(s, at[1], at[2] - 1)
  <2>1. next \in at[2]+2..Len(s)+1 /\ Written(s, context, at[2]) \in String
    BY <1>1, <1>3, ReadsForward
  <2>2. text \in String
    BY <1>1, <1>3, SubString
  <2> HIDE DEF next, text
  <2>3. loop[<<next, next>>] \in String
    BY <1>1, <2>1 DEF States
  <2>4. text \o Written(s, context, at[2]) \in String
    BY <2>1, <2>2, ConcatString
  <2>5. (text \o Written(s, context, at[2])) \o loop[<<next, next>>] \in String
    BY <2>3, <2>4, ConcatString
  <2>6. QED
    BY <1>1, <1>3, <2>5 DEF Turn, next, text
<1>4. CASE at[2] <= Len(s) /\ ~Reads(s, at[2])
  <2>1. <<at[1], at[2] + 1>> \in States(s)
    BY <1>1, <1>4 DEF States
  <2>2. QED
    BY <1>1, <1>4, <2>1 DEF Turn
<1>5. QED
  BY <1>1, <1>2, <1>3, <1>4

(* A turn depends on later turns only.                                     *)
LEMMA TurnLater ==
  ASSUME NEW s \in String, NEW context \in Seq(Environment), NEW at \in States(s),
         NEW f, NEW g, \A to \in States(s) : to[2] > at[2] => f[to] = g[to]
  PROVE  Turn(s, context, f, at) = Turn(s, context, g, at)
<1>1. Len(s) \in Nat /\ at[1] \in 1..Len(s)+1 /\ at[2] \in 1..Len(s)+1
  BY StringFacts DEF States
<1>2. CASE at[2] > Len(s)
  BY <1>2 DEF Turn
<1>3. CASE at[2] <= Len(s) /\ Reads(s, at[2])
  <2> DEFINE next == After(s, at[2])  to == <<next, next>>
  <2>1. next \in at[2]+2..Len(s)+1
    BY <1>1, <1>3, ReadsForward
  <2>2. to \in States(s) /\ to[2] > at[2]
    <3> HIDE DEF next
    <3>1. QED
      BY <1>1, <2>1 DEF States
  <2>3. f[to] = g[to]
    <3> HIDE DEF to
    <3>1. QED
      BY <2>2
  <2>4. QED
    BY <1>1, <1>3, <2>3 DEF Turn
<1>4. CASE at[2] <= Len(s) /\ ~Reads(s, at[2])
  <2> DEFINE to == <<at[1], at[2] + 1>>
  <2>1. to \in States(s) /\ to[2] > at[2]
    BY <1>1, <1>4 DEF States
  <2>2. f[to] = g[to]
    <3> HIDE DEF to
    <3>1. QED
      BY <2>1
  <2>3. QED
    BY <1>1, <1>4, <2>2 DEF Turn
<1>5. QED
  BY <1>1, <1>2, <1>3, <1>4

Loops(s, context, k) ==
  {loop \in [States(s) -> String] :
     \A at \in States(s) : at[2] + k > Len(s) + 1 => loop[at] = Turn(s, context, loop, at)}

LEMMA LoopExists ==
  ASSUME NEW s \in String, NEW context \in Seq(Environment)
  PROVE  \E loop \in [States(s) -> String] :
           loop = [at \in States(s) |-> Turn(s, context, loop, at)]
<1> DEFINE T == {k \in Nat : Loops(s, context, k) # {}}
<1>1. Len(s) \in Nat
  BY StringFacts
<1>2. 0 \in T
  <2>1. [at \in States(s) |-> s] \in Loops(s, context, 0)
    BY <1>1 DEF Loops, States
  <2>2. QED
    BY <2>1
<1>3. ASSUME NEW k \in Nat, k \in T PROVE k + 1 \in T
  <2>1. PICK f \in [States(s) -> String] :
          \A at \in States(s) : at[2] + k > Len(s) + 1 => f[at] = Turn(s, context, f, at)
    BY <1>3 DEF Loops
  <2> DEFINE g == [at \in States(s) |-> Turn(s, context, f, at)]
  <2>2. g \in [States(s) -> String]
    BY TurnTyped
  <2>3. ASSUME NEW at \in States(s), at[2] + (k + 1) > Len(s) + 1
        PROVE  g[at] = Turn(s, context, g, at)
    <3>1. g[at] = Turn(s, context, f, at)
      OBVIOUS
    <3> HIDE DEF g
    <3>2. ASSUME NEW to \in States(s), to[2] > at[2] PROVE f[to] = g[to]
      <4>1. to[2] + k > Len(s) + 1
        BY <1>1, <2>3, <3>2 DEF States
      <4>2. f[to] = Turn(s, context, f, to)
        BY <2>1, <4>1
      <4>3. QED
        BY <4>2 DEF g
    <3>3. Turn(s, context, f, at) = Turn(s, context, g, at)
      BY <2>2, <3>2, TurnLater
    <3>4. QED
      BY <3>1, <3>3
  <2> HIDE DEF g
  <2>4. g \in Loops(s, context, k + 1)
    BY <2>2, <2>3 DEF Loops
  <2>5. QED
    BY <2>4
<1>4. Nat \subseteq T
  <2> HIDE DEF T
  <2>1. QED
    BY <1>2, <1>3, SetInduction
<1>5. PICK loop \in Loops(s, context, Len(s) + 1) : TRUE
  BY <1>1, <1>4
<1>6. \A at \in States(s) : loop[at] = Turn(s, context, loop, at)
  BY <1>1, <1>5 DEF Loops, States
<1>7. loop \in [States(s) -> String]
  BY <1>5 DEF Loops
<1>8. loop = [at \in States(s) |-> Turn(s, context, loop, at)]
  BY <1>6, <1>7
<1>9. QED
  BY <1>7, <1>8

LEMMA LoopUnique ==
  ASSUME NEW s \in String, NEW context \in Seq(Environment), NEW f, NEW g,
         f = [at \in States(s) |-> Turn(s, context, f, at)],
         g = [at \in States(s) |-> Turn(s, context, g, at)]
  PROVE  f = g
<1> DEFINE T == {k \in Nat : \A at \in States(s) : at[2] + k > Len(s) + 1 => f[at] = g[at]}
<1>1. Len(s) \in Nat
  BY StringFacts
<1>2. 0 \in T
  BY <1>1 DEF States
<1>3. ASSUME NEW k \in Nat, k \in T PROVE k + 1 \in T
  <2>1. ASSUME NEW at \in States(s), at[2] + (k + 1) > Len(s) + 1 PROVE f[at] = g[at]
    <3>1. \A to \in States(s) : to[2] > at[2] => f[to] = g[to]
      BY <1>1, <1>3, <2>1 DEF States
    <3>2. Turn(s, context, f, at) = Turn(s, context, g, at)
      BY <3>1, TurnLater
    <3>3. f[at] = Turn(s, context, f, at) /\ g[at] = Turn(s, context, g, at)
      BY <2>1
    <3>4. QED
      BY <3>2, <3>3
  <2>2. QED
    BY <2>1
<1>4. Nat \subseteq T
  <2> HIDE DEF T
  <2>1. QED
    BY <1>2, <1>3, SetInduction
<1>5. \A at \in States(s) : f[at] = g[at]
  <2>1. Len(s) + 1 \in T
    BY <1>1, <1>4
  <2>2. \A at \in States(s) : at[2] + (Len(s) + 1) > Len(s) + 1
    BY <1>1 DEF States
  <2>3. QED
    BY <2>1, <2>2
<1>6. /\ f = [at \in States(s) |-> f[at]]
      /\ g = [at \in States(s) |-> g[at]]
  <2>1. DOMAIN f = States(s) /\ DOMAIN g = States(s)
    OBVIOUS
  <2>2. QED
    OBVIOUS
<1>7. QED
  BY <1>5, <1>6

LEMMA ExpandTurns ==
  ASSUME NEW s \in String, NEW context \in Seq(Environment)
  PROVE  \E loop \in [States(s) -> String] :
           /\ Expand(s, context) = loop[<<1, 1>>]
           /\ \A at \in States(s) : loop[at] = Turn(s, context, loop, at)
<1> DEFINE loop == CHOOSE loop : loop = [at \in States(s) |-> Turn(s, context, loop, at)]
<1>1. PICK f \in [States(s) -> String] : f = [at \in States(s) |-> Turn(s, context, f, at)]
  BY LoopExists
<1>2. loop = [at \in States(s) |-> Turn(s, context, loop, at)]
  BY <1>1
<1>3. Expand(s, context) = loop[<<1, 1>>]
  BY DEF Expand, Turn, States, Reads, Written, Name, After
<1> HIDE DEF loop
<1>4. loop = f
  BY <1>1, <1>2, LoopUnique
<1>5. \A at \in States(s) : f[at] = Turn(s, context, f, at)
  BY <1>1
<1>6. QED
  BY <1>3, <1>4, <1>5

LEMMA ExpandTyped ==
  ASSUME NEW s \in String, NEW context \in Seq(Environment)
  PROVE  Expand(s, context) \in String
<1>1. <<1, 1>> \in States(s)
  BY StringFacts DEF States
<1>2. QED
  BY <1>1, ExpandTurns

(* The checkpoint only puts off what is written.                           *)
LEMMA Delayed ==
  ASSUME NEW s \in String, NEW context \in Seq(Environment),
         NEW loop \in [States(s) -> String],
         \A at \in States(s) : loop[at] = Turn(s, context, loop, at),
         NEW k \in 1..Len(s)+1, NEW c \in 1..k
  PROVE  loop[<<c, k>>] = SubSeq(s, c, k - 1) \o loop[<<k, k>>]
<1> DEFINE Puts(i, j) == loop[<<i, j>>] = SubSeq(s, i, j - 1) \o loop[<<j, j>>]
           T == {j \in 1..Len(s)+1 : \A i \in 1..j : Puts(i, j)}
<1>1. Len(s) \in Nat /\ s \in String
  BY StringFacts
<1>2. ASSUME NEW j \in 1..Len(s)+1, j+1..Len(s)+1 \subseteq T PROVE j \in T
  <2>1. ASSUME NEW i \in 1..j PROVE Puts(i, j)
    <3>1. ASSUME j < Len(s) + 1
          PROVE  Puts(i, j + 1) /\ Puts(j, j + 1)
      <4>1. j + 1 \in j+1..Len(s)+1 /\ i \in 1..j+1 /\ j \in 1..j+1
        BY <1>1, <3>1
      <4>2. j + 1 \in T
        BY <1>2, <4>1
      <4>3. QED
        BY <4>1, <4>2
    <3> DEFINE text == SubSeq(s, i, j - 1)
    <3>2. /\ <<i, j>> \in States(s) /\ <<j, j>> \in States(s)
          /\ <<i, j>>[1] = i /\ <<i, j>>[2] = j /\ <<j, j>>[1] = j /\ <<j, j>>[2] = j
      BY <1>1, <2>1 DEF States
    <3>3. /\ loop[<<i, j>>] = Turn(s, context, loop, <<i, j>>)
          /\ loop[<<j, j>>] = Turn(s, context, loop, <<j, j>>)
      BY <3>2
    <3>4. text \in String /\ SubSeq(s, j, j - 1) = <<>> /\ loop[<<j, j>>] \in String
      BY <1>1, <2>1, <3>2, SubString, SubSeqEmpty
    <3> HIDE DEF text, T
    <3>5. CASE j > Len(s)
      <4>1. j = Len(s) + 1
        BY <1>1, <3>5
      <4>2. loop[<<i, j>>] = text /\ loop[<<j, j>>] = <<>>
        <5>1. loop[<<i, j>>] = SubSeq(s, i, Len(s)) /\ loop[<<j, j>>] = SubSeq(s, j, Len(s))
          BY <3>2, <3>3, <3>5 DEF Turn
        <5>2. Len(s) = j - 1
          BY <1>1, <4>1
        <5>3. QED
          BY <3>4, <5>1, <5>2 DEF text
      <4>3. QED
        BY <3>4, <4>2, ConcatStrings DEF text
    <3>6. CASE j <= Len(s) /\ Reads(s, j)
      <4> DEFINE next == After(s, j)  w == Written(s, context, j)
      <4>1. next \in j+2..Len(s)+1 /\ w \in String
        BY <1>1, <3>6, ReadsForward
      <4>2. loop[<<next, next>>] \in String
        BY <1>1, <4>1 DEF States
      <4>3. /\ loop[<<i, j>>] = (text \o w) \o loop[<<next, next>>]
            /\ loop[<<j, j>>] = (<<>> \o w) \o loop[<<next, next>>]
        <5>1. ~(j > Len(s))
          BY <1>1, <3>6
        <5>2. QED
          BY <3>2, <3>3, <3>4, <3>6, <5>1 DEF Turn, text
      <4> HIDE DEF next, w
      <4>4. <<>> \o w = w
        BY <4>1, ConcatStrings
      <4>5. (text \o w) \o loop[<<next, next>>] = text \o (w \o loop[<<next, next>>])
        <5> DEFINE rest == loop[<<next, next>>]
        <5>1. text \in String /\ w \in String /\ rest \in String
          BY <3>4, <4>1, <4>2
        <5> HIDE DEF rest, text
        <5>2. (text \o w) \o rest = text \o (w \o rest)
          <6>1. Associates(text, w, rest)
            BY <5>1, StringsAssociate
          <6>2. QED
            BY <6>1 DEF Associates
        <5>3. QED
          BY <5>2 DEF rest
      <4>6. QED
        BY <4>3, <4>4, <4>5 DEF text
    <3>7. CASE j <= Len(s) /\ ~Reads(s, j)
      <4> DEFINE more == loop[<<j + 1, j + 1>>]
      <4>1. more \in String
        BY <1>1, <3>7 DEF States
      <4>2. loop[<<i, j>>] = loop[<<i, j + 1>>] /\ loop[<<j, j>>] = loop[<<j, j + 1>>]
        <5>1. ~(j > Len(s))
          BY <1>1, <3>7
        <5>2. QED
          BY <3>2, <3>3, <3>7, <5>1 DEF Turn
      <4>3. /\ loop[<<i, j + 1>>] = SubSeq(s, i, j) \o more
            /\ loop[<<j, j + 1>>] = SubSeq(s, j, j) \o more
        <5>1. j < Len(s) + 1 /\ (j + 1) - 1 = j
          BY <1>1, <3>7
        <5>2. QED
          BY <3>1, <5>1
      <4> HIDE DEF more
      <4>4. SubSeq(s, i, j) = text \o SubSeq(s, j, j) /\ SubSeq(s, j, j) \in String
        <5>1. /\ i \in 1..Len(s)+1 /\ j - 1 \in i-1..Len(s) /\ j \in j-1..Len(s)
              /\ (j - 1) + 1 = j /\ j \in Nat \ {0} /\ j \in Nat
          BY <1>1, <2>1, <3>7
        <5>2. SubSeq(s, i, j - 1) \o SubSeq(s, (j - 1) + 1, j) = SubSeq(s, i, j)
          BY <1>1, <5>1, ConcatAdjacentSubSeq DEF String
        <5>3. QED
          BY <1>1, <3>7, <5>1, <5>2, SubString DEF text
      <4>5. (text \o SubSeq(s, j, j)) \o more = text \o (SubSeq(s, j, j) \o more)
        <5> DEFINE byteHere == SubSeq(s, j, j)
        <5>1. byteHere \in String
          BY <4>4
        <5> HIDE DEF byteHere
        <5>2. (text \o byteHere) \o more = text \o (byteHere \o more)
          <6>1. Associates(text, byteHere, more)
            BY <3>4, <4>1, <5>1, StringsAssociate
          <6>2. QED
            BY <6>1 DEF Associates
        <5>3. QED
          BY <5>2 DEF byteHere
      <4>6. QED
        BY <4>2, <4>3, <4>4, <4>5 DEF text
    <3>8. j > Len(s) \/ j <= Len(s)
      BY <1>1
    <3>9. QED
      BY <3>5, <3>6, <3>7, <3>8
  <2>2. QED
    BY <2>1
<1>3. 1..Len(s)+1 \subseteq T
  <2> HIDE DEF T
  <2>1. Len(s) + 1 \in Nat
    BY <1>1
  <2>2. QED
    BY <1>2, <2>1, DownInduction
<1>4. QED
  BY <1>3

(* So Expand is a function of the cursor alone: what it writes from a byte   *)
(* on is what it writes for that byte, then the rest.                      *)
LEMMA ExpandBytes ==
  ASSUME NEW s \in String, NEW context \in Seq(Environment)
  PROVE  \E out \in [1..Len(s)+1 -> String] :
           /\ Expand(s, context) = out[1]
           /\ out[Len(s) + 1] = <<>>
           /\ \A k \in 1..Len(s) :
                out[k] = IF Reads(s, k) THEN Written(s, context, k) \o out[After(s, k)]
                                        ELSE <<s[k]>> \o out[k + 1]
<1>1. Len(s) \in Nat /\ s \in String
  BY StringFacts
<1>2. PICK loop \in [States(s) -> String] :
        /\ Expand(s, context) = loop[<<1, 1>>]
        /\ \A at \in States(s) : loop[at] = Turn(s, context, loop, at)
  BY ExpandTurns
<1> DEFINE out == [k \in 1..Len(s)+1 |-> loop[<<k, k>>]]
<1>3. ASSUME NEW k \in 1..Len(s)+1
      PROVE  /\ <<k, k>> \in States(s) /\ <<k, k>>[1] = k /\ <<k, k>>[2] = k
             /\ loop[<<k, k>>] = Turn(s, context, loop, <<k, k>>) /\ loop[<<k, k>>] \in String
             /\ SubSeq(s, k, k - 1) = <<>>
  <2>1. <<k, k>> \in States(s) /\ <<k, k>>[1] = k /\ <<k, k>>[2] = k
    BY <1>3 DEF States
  <2>2. QED
    BY <1>1, <1>2, <2>1, SubSeqEmpty
<1>4. out \in [1..Len(s)+1 -> String]
  BY <1>3
<1>5. out[1] = Expand(s, context)
  BY <1>1, <1>2
<1>6. out[Len(s) + 1] = <<>>
  <2> DEFINE k == Len(s) + 1
  <2>1. k \in 1..Len(s)+1 /\ k > Len(s) /\ Len(s) = k - 1
    BY <1>1
  <2>2. out[k] = SubSeq(s, k, Len(s))
    <3> HIDE DEF k
    <3>1. QED
      BY <1>3, <2>1 DEF Turn
  <2>3. QED
    BY <1>3, <2>1, <2>2
<1>7. ASSUME NEW k \in 1..Len(s), Reads(s, k)
      PROVE  out[k] = Written(s, context, k) \o out[After(s, k)]
  <2> DEFINE next == After(s, k)  w == Written(s, context, k)
  <2>1. next \in 1..Len(s)+1 /\ w \in String /\ k \in 1..Len(s)+1 /\ ~(k > Len(s))
    BY <1>1, <1>7, ReadsForward
  <2>2. loop[<<k, k>>] = (<<>> \o w) \o loop[<<next, next>>]
    <3>1. /\ SubSeq(s, k, k - 1) = <<>> /\ <<k, k>>[1] = k /\ <<k, k>>[2] = k
          /\ loop[<<k, k>>] = Turn(s, context, loop, <<k, k>>)
      BY <1>3, <2>1
    <3>2. QED
      BY <1>7, <2>1, <3>1 DEF Turn
  <2>3. <<>> \o w = w
    BY <2>1, ConcatStrings
  <2> HIDE DEF next, w
  <2>4. QED
    BY <2>1, <2>2, <2>3 DEF next, w
<1>8. ASSUME NEW k \in 1..Len(s), ~Reads(s, k)
      PROVE  out[k] = <<s[k]>> \o out[k + 1]
  <2>1. k \in 1..Len(s)+1 /\ ~(k > Len(s)) /\ k + 1 \in 1..Len(s)+1 /\ k \in 1..k+1
        /\ (k + 1) - 1 = k
    BY <1>1
  <2>2. loop[<<k, k>>] = loop[<<k, k + 1>>]
    BY <1>3, <1>8, <2>1 DEF Turn
  <2>3. loop[<<k, k + 1>>] = SubSeq(s, k, k) \o loop[<<k + 1, k + 1>>]
    BY <1>1, <1>2, <2>1, Delayed
  <2>4. SubSeq(s, k, k) = <<s[k]>>
    BY <1>1, OneByteString
  <2>5. QED
    BY <2>1, <2>2, <2>3, <2>4
<1> HIDE DEF out
<1>9. \A k \in 1..Len(s) :
        out[k] = IF Reads(s, k) THEN Written(s, context, k) \o out[After(s, k)]
                                ELSE <<s[k]>> \o out[k + 1]
  BY <1>7, <1>8
<1>10. QED
  BY <1>4, <1>5, <1>6, <1>9

(* What an operator makes of the bytes after it.                           *)
ClosersFrom(s, k) == {j \in k+2..Len(s) : s[j] = referenceCloser}

LEMMA RestOf ==
  ASSUME NEW s \in String, NEW k \in 1..Len(s), Reads(s, k)
  PROVE  LET rest == SubSeq(s, k + 1, Len(s))
         IN /\ rest \in String /\ rest # <<>> /\ Len(rest) = Len(s) - k
            /\ \A i \in 1..Len(rest) : rest[i] = s[k + i]
            /\ rest[1] = s[k + 1]
<1> DEFINE rest == SubSeq(s, k + 1, Len(s))
<1>1. Len(s) \in Nat /\ k < Len(s)
  BY StringFacts DEF Reads
<1>2. /\ rest \in String /\ Len(rest) = Len(s) - k
      /\ \A i \in 1..Len(s)-(k+1)+1 : rest[i] = s[(k + 1) + i - 1]
  BY <1>1, SubString
<1> HIDE DEF rest
<1>3. rest # <<>>
  BY <1>1, <1>2
<1>4. \A i \in 1..Len(rest) : rest[i] = s[k + i]
  <2>1. \A i \in 1..Len(rest) : i \in 1..Len(s)-(k+1)+1 /\ (k + 1) + i - 1 = k + i
    BY <1>1, <1>2
  <2>2. QED
    BY <1>2, <2>1
<1>5. 1 \in 1..Len(rest)
  BY <1>1, <1>2
<1>6. QED
  BY <1>2, <1>3, <1>4, <1>5 DEF rest

LEMMA EscapeAt ==
  ASSUME NEW s \in String, NEW context, NEW k \in 1..Len(s), Reads(s, k), s[k + 1] = operator
  PROVE  Written(s, context, k) = <<operator>> /\ After(s, k) = k + 2
<1>1. Name(s, k) = [read |-> <<operator>>, isVar |-> FALSE, advance |-> 1]
  BY RestOf, ReadEscape DEF Name
<1>2. QED
  BY <1>1 DEF Written, After

LEMMA ReferenceAt ==
  ASSUME NEW s \in String, NEW context, NEW k \in 1..Len(s), Reads(s, k),
         s[k + 1] = referenceOpener, ClosersFrom(s, k) # {}
  PROVE  LET j == Min(ClosersFrom(s, k))
         IN /\ j \in k+2..Len(s) /\ s[j] = referenceCloser /\ After(s, k) = j + 1
            /\ SubSeq(s, k + 2, j - 1) \in String
            /\ Written(s, context, k) = MappingFuncFor(context, SubSeq(s, k + 2, j - 1))
<1> DEFINE rest == SubSeq(s, k + 1, Len(s))  i == Min(Closers(rest))
<1>1. Len(s) \in Nat /\ k < Len(s)
  BY StringFacts DEF Reads
<1>2. /\ rest \in String /\ rest # <<>> /\ Len(rest) = Len(s) - k
      /\ \A h \in 1..Len(rest) : rest[h] = s[k + h]
      /\ rest[1] = s[k + 1]
  BY RestOf
<1>3. Name(s, k) = tryReadVariableName(rest)
  BY DEF Name
<1> HIDE DEF rest
<1>4. Closers(rest) # {}
  <2>1. PICK j \in k+2..Len(s) : s[j] = referenceCloser
    BY DEF ClosersFrom
  <2>2. j - k \in 2..Len(rest) /\ j - k \in 1..Len(rest) /\ k + (j - k) = j
    BY <1>1, <1>2, <2>1
  <2>3. rest[j - k] = referenceCloser
    BY <1>2, <2>1, <2>2
  <2>4. QED
    BY <2>2, <2>3 DEF Closers
<1>5. /\ i \in 2..Len(rest) /\ rest[i] = referenceCloser
      /\ \A h \in 2..i-1 : rest[h] # referenceCloser
      /\ tryReadVariableName(rest) =
           [read |-> SubSeq(rest, 2, i - 1), isVar |-> TRUE, advance |-> i]
  BY <1>2, <1>4, ReadReference
<1> HIDE DEF i
<1>6. k + i \in ClosersFrom(s, k)
  <2>1. i \in 1..Len(rest) /\ k + i \in k+2..Len(s)
    BY <1>1, <1>2, <1>5
  <2>2. QED
    BY <1>2, <1>5, <2>1 DEF ClosersFrom
<1>7. ASSUME NEW j \in ClosersFrom(s, k) PROVE k + i <= j
  <2>1. j \in k+2..Len(s) /\ s[j] = referenceCloser
    BY <1>7 DEF ClosersFrom
  <2>2. j - k \in 1..Len(rest) /\ k + (j - k) = j /\ j - k >= 2
    BY <1>1, <1>2, <2>1
  <2>3. rest[j - k] = referenceCloser
    BY <1>2, <2>1, <2>2
  <2>4. ~(j - k \in 2..i-1)
    BY <1>5, <2>3
  <2>5. QED
    BY <1>1, <1>2, <1>5, <2>1, <2>2, <2>4
<1>8. Min(ClosersFrom(s, k)) = k + i
  <2>1. ClosersFrom(s, k) \subseteq Nat
    BY <1>1 DEF ClosersFrom
  <2>2. QED
    BY <1>6, <1>7, <2>1, MinIs
<1>9. SubSeq(rest, 2, i - 1) = SubSeq(s, k + 2, k + i - 1) /\ SubSeq(s, k + 2, k + i - 1) \in String
  <2> DEFINE u == SubSeq(rest, 2, i - 1)  v == SubSeq(s, k + 2, k + i - 1)
  <2>1. /\ 2 \in Nat \ {0} /\ i - 1 \in Nat /\ i - 1 <= Len(rest)
        /\ k + 2 \in Nat \ {0} /\ k + i - 1 \in Nat /\ k + i - 1 <= Len(s)
        /\ (k + i - 1) - (k + 2) + 1 = i - 2 /\ (i - 1) - 2 + 1 = i - 2
    BY <1>1, <1>2, <1>5
  <2>2. /\ u \in String /\ Len(u) = i - 2
        /\ \A h \in 1..(i-1)-2+1 : u[h] = rest[2 + h - 1]
    <3>1. Len(u) = IF 2 <= i - 1 THEN (i - 1) - 2 + 1 ELSE 0
      BY <1>2, <2>1, SubString
    <3>2. Len(u) = i - 2
      BY <1>5, <3>1
    <3>3. u \in String
      BY <1>2, <2>1, SubString
    <3>4. \A h \in 1..(i-1)-2+1 : u[h] = rest[2 + h - 1]
      BY <1>2, <2>1, SubString
    <3>5. QED
      BY <3>2, <3>3, <3>4
  <2>3. /\ v \in String /\ Len(v) = i - 2
        /\ \A h \in 1..(k+i-1)-(k+2)+1 : v[h] = s[(k + 2) + h - 1]
    <3>1. Len(v) = IF k + 2 <= k + i - 1 THEN (k + i - 1) - (k + 2) + 1 ELSE 0
      BY <2>1, SubString
    <3>2. Len(v) = i - 2
      BY <1>5, <3>1
    <3>3. v \in String /\ \A h \in 1..(k+i-1)-(k+2)+1 : v[h] = s[(k + 2) + h - 1]
      BY <2>1, SubString
    <3>4. QED
      BY <3>2, <3>3
  <2> HIDE DEF u, v
  <2>4. ASSUME NEW h \in 1..Len(u) PROVE u[h] = v[h]
    <3>1. /\ h \in 1..(i-1)-2+1 /\ h \in 1..(k+i-1)-(k+2)+1 /\ 2 + h - 1 \in 1..Len(rest)
          /\ (k + 2) + h - 1 = k + (2 + h - 1)
      BY <1>1, <1>2, <1>5, <2>1, <2>2
    <3>2. u[h] = rest[2 + h - 1] /\ v[h] = s[(k + 2) + h - 1]
      BY <2>2, <2>3, <3>1
    <3>3. rest[2 + h - 1] = s[k + (2 + h - 1)]
      BY <1>2, <3>1
    <3>4. QED
      BY <3>1, <3>2, <3>3
  <2>5. u = v
    BY <2>2, <2>3, <2>4, StringEqual
  <2>6. QED
    BY <2>3, <2>5 DEF u, v
<1>10. After(s, k) = k + i + 1
  BY <1>3, <1>5 DEF After
<1>11. Written(s, context, k) = MappingFuncFor(context, SubSeq(s, k + 2, k + i - 1))
  <2>1. Name(s, k).isVar /\ Name(s, k).read = SubSeq(s, k + 2, k + i - 1)
    BY <1>3, <1>5, <1>9
  <2>2. QED
    BY <2>1 DEF Written
<1>12. k + i \in k+2..Len(s) /\ s[k + i] = referenceCloser
  BY <1>6 DEF ClosersFrom
<1> DEFINE j == Min(ClosersFrom(s, k))
<1>13. j = k + i
  BY <1>8
<1> HIDE DEF j
<1>14. /\ j \in k+2..Len(s) /\ s[j] = referenceCloser /\ After(s, k) = j + 1
       /\ SubSeq(s, k + 2, j - 1) \in String
       /\ Written(s, context, k) = MappingFuncFor(context, SubSeq(s, k + 2, j - 1))
  <2>1. j \in k+2..Len(s) /\ s[j] = referenceCloser
    BY <1>12, <1>13
  <2>2. After(s, k) = j + 1
    BY <1>10, <1>13
  <2>3. j - 1 = k + i - 1
    BY <1>1, <1>5, <1>13
  <2>4. SubSeq(s, k + 2, j - 1) \in String
    BY <1>9, <2>3
  <2>5. Written(s, context, k) = MappingFuncFor(context, SubSeq(s, k + 2, j - 1))
    BY <1>11, <2>3
  <2>6. QED
    BY <2>1, <2>2, <2>4, <2>5
<1>15. QED
  BY <1>14 DEF j

LEMMA OpenAt ==
  ASSUME NEW s \in String, NEW context, NEW k \in 1..Len(s), Reads(s, k),
         s[k + 1] = referenceOpener, ClosersFrom(s, k) = {}
  PROVE  Written(s, context, k) = <<operator, referenceOpener>> /\ After(s, k) = k + 2
<1> DEFINE rest == SubSeq(s, k + 1, Len(s))
<1>1. Len(s) \in Nat /\ k < Len(s)
  BY StringFacts DEF Reads
<1>2. /\ rest \in String /\ rest # <<>> /\ Len(rest) = Len(s) - k
      /\ \A h \in 1..Len(rest) : rest[h] = s[k + h]
      /\ rest[1] = s[k + 1]
  BY RestOf
<1>3. Name(s, k) = tryReadVariableName(rest)
  BY DEF Name
<1> HIDE DEF rest
<1>4. ASSUME NEW i \in Closers(rest) PROVE FALSE
  <2>1. i \in 2..Len(rest) /\ rest[i] = referenceCloser
    BY <1>4 DEF Closers
  <2>2. i \in 1..Len(rest) /\ k + i \in k+2..Len(s)
    BY <1>1, <1>2, <2>1
  <2>3. k + i \in ClosersFrom(s, k)
    BY <1>2, <2>1, <2>2 DEF ClosersFrom
  <2>4. QED
    BY <2>3
<1>5. Name(s, k) = [read |-> <<operator, referenceOpener>>, isVar |-> FALSE, advance |-> 1]
  BY <1>2, <1>3, <1>4, ReadOpen
<1>6. QED
  BY <1>5 DEF Written, After

LEMMA OtherAt ==
  ASSUME NEW s \in String, NEW context, NEW k \in 1..Len(s), Reads(s, k),
         s[k + 1] # operator, s[k + 1] # referenceOpener
  PROVE  /\ After(s, k) = k + 2
         /\ Written(s, context, k) = <<operator>> \o RuneOf(s[k + 1])
         /\ s[k + 1] < 128 => Written(s, context, k) = <<operator, s[k + 1]>>
<1> DEFINE rest == SubSeq(s, k + 1, Len(s))
<1>1. rest \in String /\ rest # <<>> /\ rest[1] = s[k + 1]
  BY RestOf
<1>2. Name(s, k) = tryReadVariableName(rest)
  BY DEF Name
<1> HIDE DEF rest
<1>3. /\ Name(s, k) = [read |-> <<operator>> \o RuneOf(rest[1]), isVar |-> FALSE, advance |-> 1]
      /\ rest[1] < 128 => <<operator>> \o RuneOf(rest[1]) = <<operator, rest[1]>>
  BY <1>1, <1>2, ReadOther
<1>4. ~Name(s, k).isVar /\ Name(s, k).read = <<operator>> \o RuneOf(rest[1])
  BY <1>3
<1>5. QED
  BY <1>1, <1>3, <1>4 DEF Written, After

(* Cutting a string at a byte, after two bytes, and around a reference.    *)
LEMMA CutAt ==
  ASSUME NEW s \in String, NEW i \in 1..Len(s)+1, NEW j \in 1..Len(s)+1, i <= j
  PROVE  /\ SubSeq(s, i, Len(s)) = SubSeq(s, i, j - 1) \o SubSeq(s, j, Len(s))
         /\ SubSeq(s, i, j - 1) \in String /\ SubSeq(s, j, Len(s)) \in String
<1>1. Len(s) \in Nat
  BY StringFacts
<1>2. /\ j - 1 \in i-1..Len(s) /\ Len(s) \in j-1..Len(s) /\ (j - 1) + 1 = j
      /\ i \in Nat \ {0} /\ j \in Nat \ {0} /\ j - 1 \in Nat /\ j - 1 <= Len(s)
  BY <1>1
<1>3. SubSeq(s, i, j - 1) \o SubSeq(s, (j - 1) + 1, Len(s)) = SubSeq(s, i, Len(s))
  BY <1>2, ConcatAdjacentSubSeq DEF String
<1>4. SubSeq(s, i, j - 1) \in String /\ SubSeq(s, j, Len(s)) \in String
  BY <1>1, <1>2, SubString
<1>5. QED
  BY <1>2, <1>3, <1>4

LEMMA CutByte ==
  ASSUME NEW s \in String, NEW k \in 1..Len(s)
  PROVE  SubSeq(s, k, Len(s)) = <<s[k]>> \o SubSeq(s, k + 1, Len(s))
<1>1. Len(s) \in Nat /\ k + 1 \in 1..Len(s)+1 /\ k \in 1..Len(s)+1 /\ k <= k + 1 /\ (k + 1) - 1 = k
  BY StringFacts
<1>2. SubSeq(s, k, Len(s)) = SubSeq(s, k, (k + 1) - 1) \o SubSeq(s, k + 1, Len(s))
  BY <1>1, CutAt
<1>3. QED
  BY <1>1, <1>2, OneByteString

LEMMA CutPair ==
  ASSUME NEW s \in String, NEW k \in 1..Len(s), k < Len(s)
  PROVE  SubSeq(s, k, Len(s)) = <<s[k], s[k + 1]>> \o SubSeq(s, k + 2, Len(s))
<1>1. /\ Len(s) \in Nat /\ k + 1 \in 1..Len(s) /\ (k + 1) + 1 = k + 2
      /\ k + 2 \in 1..Len(s)+1 /\ k + 2 <= k + 2
  BY StringFacts
<1>2. SubSeq(s, k, Len(s)) = <<s[k]>> \o (<<s[k + 1]>> \o SubSeq(s, k + 2, Len(s)))
  BY <1>1, CutByte
<1>3. /\ <<s[k]>> \in String /\ <<s[k + 1]>> \in String /\ SubSeq(s, k + 2, Len(s)) \in String
      /\ s[k] \in 0..255 /\ s[k + 1] \in 0..255
  <2>1. s[k] \in 0..255 /\ s[k + 1] \in 0..255
    BY <1>1, StringFacts
  <2>2. <<s[k]>> \in String /\ <<s[k + 1]>> \in String
    BY <2>1 DEF String
  <2>3. QED
    BY <1>1, <2>1, <2>2, CutAt
<1>4. <<s[k]>> \o <<s[k + 1]>> = <<s[k], s[k + 1]>>
  BY <1>3, PairString
<1> DEFINE first == <<s[k]>>  second == <<s[k + 1]>>  rest == SubSeq(s, k + 2, Len(s))
<1>5. first \in String /\ second \in String /\ rest \in String
  BY <1>3
<1> HIDE DEF first, second, rest
<1>6. first \o (second \o rest) = (first \o second) \o rest
  <2>1. Associates(first, second, rest)
    BY <1>5, StringsAssociate
  <2>2. QED
    BY <2>1 DEF Associates
<1>7. QED
  BY <1>2, <1>4, <1>6 DEF first, second, rest

LEMMA CutReference ==
  ASSUME NEW s \in String, NEW k \in 1..Len(s), k < Len(s), NEW j \in k+2..Len(s),
         s[k] = operator, s[k + 1] = referenceOpener, s[j] = referenceCloser
  PROVE  SubSeq(s, k, Len(s)) = syntaxWrap(SubSeq(s, k + 2, j - 1)) \o SubSeq(s, j + 1, Len(s))
<1> DEFINE front == <<operator, referenceOpener>>  name == SubSeq(s, k + 2, j - 1)
           last == <<referenceCloser>>  rest == SubSeq(s, j + 1, Len(s))
<1>1. /\ Len(s) \in Nat /\ k + 2 \in 1..Len(s)+1 /\ j \in 1..Len(s)+1 /\ j \in 1..Len(s)
      /\ k + 2 <= j /\ j + 1 \in 1..Len(s)+1 /\ j + 1 <= j + 1
  BY StringFacts
<1>2. SubSeq(s, k, Len(s)) = front \o SubSeq(s, k + 2, Len(s))
  BY CutPair
<1>3. SubSeq(s, k + 2, Len(s)) = name \o SubSeq(s, j, Len(s)) /\ name \in String
  BY <1>1, CutAt
<1>4. SubSeq(s, j, Len(s)) = last \o rest /\ rest \in String
  BY <1>1, CutByte, CutAt
<1>5. front \in String /\ last \in String
  BY DEF String, operator, referenceOpener, referenceCloser
<1>6. syntaxWrap(name) = (front \o name) \o last
  BY DEF syntaxWrap
<1> HIDE DEF front, name, last, rest
<1> DEFINE start == front \o name  end == last \o rest
<1>7. front \o (name \o end) = start \o end
  <2>1. end \in String
    BY <1>4, <1>5, ConcatString
  <2> HIDE DEF end
  <2>2. front \in String /\ name \in String
    BY <1>3, <1>5
  <2>3. front \o (name \o end) = (front \o name) \o end
    <3>1. Associates(front, name, end)
      BY <2>1, <2>2, StringsAssociate
    <3>2. QED
      BY <3>1 DEF Associates
  <2>4. QED
    BY <2>3
<1>8. start \o end = (start \o last) \o rest
  <2>1. start \in String
    BY <1>3, <1>5, ConcatString
  <2> HIDE DEF start
  <2>2. Associates(start, last, rest)
    BY <1>4, <1>5, <2>1, StringsAssociate
  <2>3. QED
    BY <2>2 DEF Associates
<1>9. QED
  BY <1>2, <1>3, <1>4, <1>6, <1>7, <1>8 DEF name, rest

LEMMA UnknownKept ==
  ASSUME NEW s \in String, \A i \in 1..Len(s) : s[i] < 128,
         \A i \in 1..Len(s)-1 : s[i] = operator => s[i + 1] # operator
  PROVE  Expand(s, <<>>) = s
<1>1. Len(s) \in Nat
  BY StringFacts
<1>2. <<>> \in Seq(Environment)
  OBVIOUS
<1>3. PICK out \in [1..Len(s)+1 -> String] :
        /\ Expand(s, <<>>) = out[1]
        /\ out[Len(s) + 1] = <<>>
        /\ \A k \in 1..Len(s) :
             out[k] = IF Reads(s, k) THEN Written(s, <<>>, k) \o out[After(s, k)]
                                     ELSE <<s[k]>> \o out[k + 1]
  BY <1>2, ExpandBytes
<1> DEFINE T == {k \in 1..Len(s)+1 : out[k] = SubSeq(s, k, Len(s))}
<1>4. ASSUME NEW k \in 1..Len(s)+1, k+1..Len(s)+1 \subseteq T PROVE k \in T
  <2>0. \A m \in k+1..Len(s)+1 : out[m] = SubSeq(s, m, Len(s))
    BY <1>4
  <2> SUFFICES out[k] = SubSeq(s, k, Len(s))
    OBVIOUS
  <2> HIDE DEF T
  <2>1. CASE k = Len(s) + 1
    <3>1. SubSeq(s, Len(s) + 1, Len(s)) = <<>>
      BY <1>1, SubSeqEmpty
    <3>2. QED
      BY <1>3, <2>1, <3>1
  <2>2. CASE k \in 1..Len(s) /\ ~Reads(s, k)
    <3>1. k + 1 \in k+1..Len(s)+1
      BY <1>1, <2>2
    <3>2. out[k] = <<s[k]>> \o SubSeq(s, k + 1, Len(s))
      BY <1>3, <2>0, <2>2, <3>1
    <3>3. QED
      BY <2>2, <3>2, CutByte
  <2>3. CASE k \in 1..Len(s) /\ Reads(s, k)
    <3>1. k < Len(s) /\ s[k] = operator /\ k + 1 \in 1..Len(s) /\ k \in 1..Len(s)-1
      BY <1>1, <2>3 DEF Reads
    <3>2. s[k + 1] # operator /\ s[k + 1] < 128
      BY <3>1
    <3>3. out[k] = Written(s, <<>>, k) \o out[After(s, k)]
      BY <1>3, <2>3
    <3>4. CASE s[k + 1] = referenceOpener /\ ClosersFrom(s, k) # {}
      <4>1. PICK j \in k+2..Len(s) :
              /\ s[j] = referenceCloser /\ After(s, k) = j + 1
              /\ SubSeq(s, k + 2, j - 1) \in String
              /\ Written(s, <<>>, k) = MappingFuncFor(<<>>, SubSeq(s, k + 2, j - 1))
        BY <2>3, <3>4, ReferenceAt
      <4>2. MappingFuncFor(<<>>, SubSeq(s, k + 2, j - 1)) = syntaxWrap(SubSeq(s, k + 2, j - 1))
        BY DEF MappingFuncFor
      <4>3. j + 1 \in k+1..Len(s)+1
        BY <1>1, <3>1
      <4>4. out[k] = syntaxWrap(SubSeq(s, k + 2, j - 1)) \o SubSeq(s, j + 1, Len(s))
        BY <2>0, <3>3, <4>1, <4>2, <4>3
      <4>5. QED
        BY <2>3, <3>1, <3>4, <4>1, <4>4, CutReference
    <3>5. CASE ~(s[k + 1] = referenceOpener /\ ClosersFrom(s, k) # {})
      <4>1. Written(s, <<>>, k) = <<s[k], s[k + 1]>> /\ After(s, k) = k + 2
        BY <2>3, <3>1, <3>2, <3>5, OpenAt, OtherAt
      <4>2. k + 2 \in k+1..Len(s)+1
        BY <1>1, <3>1
      <4>3. out[k] = <<s[k], s[k + 1]>> \o SubSeq(s, k + 2, Len(s))
        BY <2>0, <3>3, <4>1, <4>2
      <4>4. QED
        BY <2>3, <3>1, <4>3, CutPair
    <3>6. QED
      BY <3>4, <3>5
  <2>4. QED
    BY <1>1, <2>1, <2>2, <2>3
<1>5. 1 \in T
  <2>1. Len(s) + 1 \in Nat /\ 1 \in 1..Len(s)+1
    BY <1>1
  <2> HIDE DEF T
  <2>2. QED
    BY <1>4, <2>1, DownInduction
<1>6. QED
  BY <1>3, <1>5, SubSeqFull DEF String

LEMMA UnknownIs ==
  ASSUME InputInv
  PROVE  UnknownIsKept
<1>1. input \in String /\ DOMAIN input = 1..Len(input)
  BY StringFacts DEF InputInv
<1>2. QED
  BY <1>1, UnknownKept DEF UnknownIsKept

(* Nothing is lost or doubled where the loop finds no value: ASCII text of   *)
(* any length without an escape is written as it was read, whatever the    *)
(* references in it look like (expand.go 18-102).                          *)
THEOREM UnknownIsKeptHolds == MCSpec => []UnknownIsKept
BY InputInvariant, UnknownIs, PTL

(* A function defined from left to right over a sequence is defined.       *)
Along(V, n, base, step) ==
  {f \in [0..n -> V] : f[0] = base /\ \A i \in 1..n : f[i] = step[i][f[i - 1]]}

LEMMA FoldExists ==
  ASSUME NEW V, NEW n \in Nat, NEW base \in V, NEW step \in [1..n -> [V -> V]]
  PROVE  Along(V, n, base, step) # {}
<1> DEFINE Is(f, m) == f[0] = base /\ \A i \in 1..m : f[i] = step[i][f[i - 1]]
           T == {m \in 0..n : \E f \in [0..n -> V] : Is(f, m)}
<1>1. 0 \in T
  <2> DEFINE c == [i \in 0..n |-> base]
  <2>1. c \in [0..n -> V] /\ Is(c, 0) /\ 0 \in 0..n
    OBVIOUS
  <2> HIDE DEF c
  <2>2. QED
    BY <2>1
<1>2. ASSUME NEW m \in 1..n, m - 1 \in T PROVE m \in T
  <2>1. PICK f \in [0..n -> V] : Is(f, m - 1)
    BY <1>2
  <2> DEFINE g == [i \in 0..n |-> IF i = m THEN step[m][f[m - 1]] ELSE f[i]]
  <2>2. m - 1 \in 0..n /\ step[m] \in [V -> V]
    OBVIOUS
  <2>3. step[m][f[m - 1]] \in V
    BY <2>2
  <2>4. g \in [0..n -> V]
    BY <2>3
  <2>5. g[0] = base
    BY <2>1
  <2>6. ASSUME NEW i \in 1..m PROVE g[i] = step[i][g[i - 1]]
    <3>1. i - 1 \in 0..n /\ i - 1 # m /\ i \in 0..n
      OBVIOUS
    <3>2. g[i - 1] = f[i - 1]
      BY <3>1
    <3>3. CASE i = m
      BY <3>1, <3>2, <3>3
    <3>4. CASE i # m
      <4>1. i \in 1..m-1
        BY <3>4
      <4>2. f[i] = step[i][f[i - 1]]
        BY <2>1, <4>1
      <4>3. g[i] = f[i]
        BY <3>1, <3>4
      <4> HIDE DEF g
      <4>4. QED
        BY <3>2, <4>2, <4>3
    <3>5. QED
      BY <3>3, <3>4
  <2> HIDE DEF g
  <2>7. Is(g, m)
    BY <2>5, <2>6
  <2>8. QED
    BY <2>4, <2>7
<1>3. 0..n \subseteq T
  <2> HIDE DEF T
  <2>1. QED
    BY <1>1, <1>2, UpInduction
<1>4. n \in T
  <2>1. n \in 0..n
    OBVIOUS
  <2> HIDE DEF T
  <2>2. QED
    BY <1>3, <2>1
<1>5. QED
  BY <1>4 DEF Along

LEMMA FoldStrings ==
  ASSUME NEW n \in Nat, NEW step \in [1..n -> [String -> String]]
  PROVE  \E f \in [0..n -> String] : f[0] = <<>> /\ \A i \in 1..n : f[i] = step[i][f[i - 1]]
<1> DEFINE V == String  base == <<>>
<1>1. base \in V
  BY DEF String
<1>2. step \in [1..n -> [V -> V]]
  OBVIOUS
<1> HIDE DEF V, base
<1>3. Along(V, n, base, step) # {}
  BY <1>1, <1>2, FoldExists
<1>4. QED
  BY <1>3 DEF V, base, Along

Escaped(b1) == IF b1 = operator THEN <<operator, operator>> ELSE <<b1>>

LEMMA EscapedTyped ==
  ASSUME NEW b1 \in 0..255
  PROVE  Escaped(b1) \in String
<1>1. <<operator, operator>> \in String /\ <<b1>> \in String
  BY DEF String, operator
<1>2. QED
  BY <1>1 DEF Escaped

LEMMA EscapeBytes ==
  ASSUME NEW s \in String
  PROVE  \E upto \in [0..Len(s) -> String] :
           /\ Escape(s) = upto[Len(s)] /\ upto[0] = <<>>
           /\ \A i \in 1..Len(s) : upto[i] = upto[i - 1] \o Escaped(s[i])
<1> DEFINE n == Len(s)
           Is(f) == f = [i \in 0..n |-> IF i = 0 THEN <<>> ELSE f[i - 1] \o Escaped(s[i])]
           upto == CHOOSE f : Is(f)
           step == [i \in 1..n |-> [v \in String |-> v \o Escaped(s[i])]]
<1>1. n \in Nat /\ <<>> \in String /\ \A i \in 1..n : Escaped(s[i]) \in String
  <2>1. n \in Nat /\ \A i \in 1..n : s[i] \in 0..255
    BY StringFacts
  <2>2. <<>> \in String
    BY DEF String
  <2>3. QED
    BY <2>1, <2>2, EscapedTyped
<1>2. step \in [1..n -> [String -> String]]
  <2>1. ASSUME NEW i \in 1..n, NEW v \in String PROVE v \o Escaped(s[i]) \in String
    BY <1>1, ConcatString
  <2>2. QED
    BY <2>1
<1>3. PICK f \in [0..n -> String] : f[0] = <<>> /\ \A i \in 1..n : f[i] = step[i][f[i - 1]]
  <2>1. n \in Nat /\ <<>> \in String
    BY <1>1
  <2> HIDE DEF n, step
  <2>2. QED
    BY <1>2, <2>1, FoldStrings
<1>4. \A i \in 1..n : f[i] = f[i - 1] \o Escaped(s[i])
  <2>1. ASSUME NEW i \in 1..n PROVE f[i] = f[i - 1] \o Escaped(s[i])
    <3>1. i - 1 \in 0..n
      BY <1>1
    <3>2. QED
      BY <1>3, <3>1
  <2>2. QED
    BY <2>1
<1>5. Is(f)
  <2>1. ASSUME NEW i \in 0..n
        PROVE  f[i] = IF i = 0 THEN <<>> ELSE f[i - 1] \o Escaped(s[i])
    <3>1. f[0] = <<>>
      BY <1>3
    <3>2. i = 0 \/ i \in 1..n
      BY <1>1
    <3> HIDE DEF n, step
    <3>3. QED
      BY <1>4, <3>1, <3>2
  <2>2. f = [i \in 0..n |-> f[i]]
    OBVIOUS
  <2>3. QED
    BY <2>1, <2>2
<1>6. Is(upto)
  BY <1>5
<1>7. Escape(s) = upto[n]
  BY DEF Escape, Escaped
<1> HIDE DEF upto
<1>8. upto[0] = <<>> /\ \A i \in 1..n : upto[i] = upto[i - 1] \o Escaped(s[i])
  BY <1>1, <1>6
<1> DEFINE T == {i \in 0..n : upto[i] \in String}
<1>9. 0..n \subseteq T
  <2>1. 0 \in T
    BY <1>1, <1>8
  <2>2. ASSUME NEW i \in 1..n, i - 1 \in T PROVE i \in T
    <3>1. upto[i - 1] \in String /\ Escaped(s[i]) \in String /\ i \in 0..n
      BY <1>1, <2>2
    <3>2. upto[i - 1] \o Escaped(s[i]) \in String
      BY <3>1, ConcatString
    <3>3. QED
      BY <1>8, <3>1, <3>2
  <2> HIDE DEF T
  <2>3. QED
    BY <1>1, <2>1, <2>2, UpInduction
<1>10. upto \in [0..n -> String]
  <2>1. DOMAIN upto = 0..n /\ upto = [i \in 0..n |-> upto[i]]
    BY <1>6
  <2>2. QED
    BY <1>9, <2>1
<1>11. QED
  BY <1>7, <1>8, <1>10

(* What is escaped up to a byte begins the whole.                          *)
LEMMA EscapePrefix ==
  ASSUME NEW n \in Nat, NEW upto \in [0..n -> String], NEW byte \in [1..n -> 0..255],
         \A i \in 1..n : upto[i] = upto[i - 1] \o Escaped(byte[i]),
         NEW j \in 1..n+1
  PROVE  /\ Len(upto[j - 1]) <= Len(upto[n])
         /\ \A p \in 1..Len(upto[j - 1]) : upto[n][p] = upto[j - 1][p]
<1> DEFINE Begins(i) == /\ Len(upto[i]) <= Len(upto[n])
                        /\ \A p \in 1..Len(upto[i]) : upto[n][p] = upto[i][p]
           T == {i \in 1..n+1 : Begins(i - 1)}
<1>1. ASSUME NEW i \in 1..n+1, i+1..n+1 \subseteq T PROVE i \in T
  <2>0. \A m \in i+1..n+1 : Begins(m - 1)
    BY <1>1
  <2> SUFFICES Begins(i - 1)
    OBVIOUS
  <2> HIDE DEF T
  <2>1. CASE i = n + 1
    <3>1. i - 1 = n /\ upto[n] \in String
      BY <2>1
    <3>2. Len(upto[n]) \in Nat
      BY <3>1, StringFacts
    <3>3. QED
      BY <3>1, <3>2
  <2>2. CASE i \in 1..n
    <3>1. i - 1 \in 0..n /\ i \in 0..n /\ i + 1 \in i+1..n+1 /\ (i + 1) - 1 = i /\ n \in 0..n
      BY <2>2
    <3>2. Begins(i)
      <4> HIDE DEF Begins
      <4>1. QED
        BY <2>0, <3>1
    <3>3. upto[i - 1] \in String /\ upto[i] \in String /\ upto[n] \in String
          /\ Escaped(byte[i]) \in String
      BY <2>2, <3>1, EscapedTyped
    <3>4. /\ Len(upto[i]) = Len(upto[i - 1]) + Len(Escaped(byte[i]))
          /\ \A p \in 1..Len(upto[i - 1]) : upto[i][p] = upto[i - 1][p]
      <4> DEFINE front == upto[i - 1]  e == Escaped(byte[i])
      <4>1. upto[i] = front \o e /\ front \in String /\ e \in String
        BY <2>2, <3>3
      <4> HIDE DEF front, e
      <4>2. /\ Len(front \o e) = Len(front) + Len(e)
            /\ \A p \in 1..Len(front) : (front \o e)[p] = front[p]
        BY <4>1, ConcatString
      <4>3. QED
        BY <4>1, <4>2 DEF front, e
    <3>5. /\ Len(upto[i]) \in Nat /\ Len(upto[i - 1]) \in Nat /\ Len(upto[n]) \in Nat
          /\ Len(Escaped(byte[i])) \in Nat
      BY <3>3, StringFacts
    <3>6. Len(upto[i - 1]) <= Len(upto[i]) /\ Len(upto[i]) <= Len(upto[n])
      BY <3>2, <3>4, <3>5
    <3>7. ASSUME NEW p \in 1..Len(upto[i - 1]) PROVE upto[n][p] = upto[i - 1][p]
      <4>1. p \in 1..Len(upto[i])
        BY <3>5, <3>6
      <4>2. upto[n][p] = upto[i][p]
        BY <3>2, <4>1
      <4>3. QED
        BY <3>4, <4>2
    <3>8. QED
      BY <3>5, <3>6, <3>7
  <2>3. QED
    BY <2>1, <2>2
<1>2. j \in T
  <2>1. n + 1 \in Nat
    OBVIOUS
  <2> HIDE DEF T
  <2>2. QED
    BY <1>1, <2>1, DownInduction
<1>3. QED
  BY <1>2

(* Where the escape of a byte lies in the whole.                           *)
LEMMA EscapeLies ==
  ASSUME NEW n \in Nat, NEW upto \in [0..n -> String], NEW byte \in [1..n -> 0..255],
         \A i \in 1..n : upto[i] = upto[i - 1] \o Escaped(byte[i]),
         NEW j \in 1..n
  PROVE  LET k == Len(upto[j - 1]) + 1
         IN /\ k \in 1..Len(upto[n]) /\ upto[n][k] = byte[j]
            /\ byte[j] = operator => /\ k < Len(upto[n]) /\ upto[n][k + 1] = operator
                                     /\ Len(upto[j]) + 1 = k + 2
            /\ byte[j] # operator => Len(upto[j]) + 1 = k + 1
<1> DEFINE front == upto[j - 1]  k == Len(front) + 1  e == Escaped(byte[j])
<1>1. j - 1 \in 0..n /\ j \in 0..n /\ n \in 0..n /\ j + 1 \in 1..n+1 /\ (j + 1) - 1 = j
      /\ byte[j] \in 0..255
  OBVIOUS
<1>2. front \in String /\ upto[j] \in String /\ upto[n] \in String /\ e \in String
  BY <1>1, EscapedTyped
<1>3. upto[j] = front \o e
  OBVIOUS
<1>4. Len(upto[j]) <= Len(upto[n]) /\ \A p \in 1..Len(upto[j]) : upto[n][p] = upto[j][p]
  <2> DEFINE m == j + 1
  <2>1. m \in 1..n+1 /\ m - 1 = j
    BY <1>1
  <2> HIDE DEF m
  <2>2. /\ Len(upto[m - 1]) <= Len(upto[n])
        /\ \A p \in 1..Len(upto[m - 1]) : upto[n][p] = upto[m - 1][p]
    BY <2>1, EscapePrefix
  <2>3. QED
    BY <2>1, <2>2
<1>5. Len(front) \in Nat /\ Len(upto[n]) \in Nat
  BY <1>2, StringFacts
<1>6. e[1] = byte[j] /\ IF byte[j] = operator THEN Len(e) = 2 /\ e[2] = operator ELSE Len(e) = 1
  BY DEF Escaped
<1> HIDE DEF front, e
<1>7. Len(upto[j]) = Len(front) + Len(e) /\ \A p \in 1..Len(e) : upto[j][Len(front) + p] = e[p]
  BY <1>2, <1>3, ConcatString
<1>8. CASE byte[j] = operator
  <2>1. Len(e) = 2 /\ e[1] = byte[j] /\ e[2] = operator
    BY <1>6, <1>8
  <2>2. upto[j][Len(front) + 1] = byte[j] /\ upto[j][Len(front) + 2] = operator
    BY <1>7, <2>1
  <2>3. Len(upto[j]) = Len(front) + 2 /\ k + 1 = Len(front) + 2
    BY <1>5, <1>7, <2>1
  <2>4. Len(front) + 1 \in 1..Len(upto[j]) /\ Len(front) + 2 \in 1..Len(upto[j])
    BY <1>5, <2>3
  <2>5. k \in 1..Len(upto[n])
    BY <1>4, <1>5, <2>3
  <2>6. Len(upto[j]) + 1 = k + 2 /\ k < Len(upto[n])
    BY <1>4, <1>5, <2>3
  <2>7. upto[n][k] = byte[j] /\ upto[n][k + 1] = operator
    BY <2>3, <1>4, <2>2, <2>4
  <2> HIDE DEF k
  <2>8. QED
    BY <1>8, <2>5, <2>6, <2>7 DEF k, front
<1>9. CASE byte[j] # operator
  <2>1. Len(e) = 1 /\ e[1] = byte[j]
    BY <1>6, <1>9
  <2>2. upto[j][Len(front) + 1] = byte[j]
    BY <1>7, <2>1
  <2>3. Len(upto[j]) = Len(front) + 1
    BY <1>5, <1>7, <2>1
  <2>4. Len(front) + 1 \in 1..Len(upto[j])
    BY <1>5, <2>3
  <2>5. k \in 1..Len(upto[n])
    BY <1>4, <1>5, <2>3
  <2>6. Len(upto[j]) + 1 = k + 1
    BY <1>5, <2>3
  <2>7. upto[n][k] = byte[j]
    BY <1>4, <2>2, <2>4
  <2> HIDE DEF k
  <2>8. QED
    BY <1>9, <2>5, <2>6, <2>7 DEF k, front
<1>10. QED
  BY <1>8, <1>9

(* Escaped text is read back, whatever the maps know.                      *)
LEMMA EscapeKept ==
  ASSUME NEW s \in String, NEW context \in Seq(Environment)
  PROVE  Expand(Escape(s), context) = s
<1> DEFINE n == Len(s)
<1>1. n \in Nat /\ s \in [1..n -> 0..255]
  BY StringFacts
<1>2. PICK upto \in [0..n -> String] :
        /\ Escape(s) = upto[n] /\ upto[0] = <<>>
        /\ \A i \in 1..n : upto[i] = upto[i - 1] \o Escaped(s[i])
  BY EscapeBytes
<1> DEFINE E == upto[n]  At(j) == Len(upto[j - 1]) + 1
<1>3. E \in String /\ 0 \in 0..n /\ n \in 0..n
  BY <1>1
<1>4. PICK out \in [1..Len(E)+1 -> String] :
        /\ Expand(E, context) = out[1]
        /\ out[Len(E) + 1] = <<>>
        /\ \A k \in 1..Len(E) :
             out[k] = IF Reads(E, k) THEN Written(E, context, k) \o out[After(E, k)]
                                     ELSE <<E[k]>> \o out[k + 1]
  BY <1>3, ExpandBytes
<1>5. ASSUME NEW j \in 1..n PROVE out[At(j)] = <<s[j]>> \o out[At(j + 1)]
  <2> DEFINE k == At(j)
  <2>1. /\ k \in 1..Len(E) /\ E[k] = s[j]
        /\ s[j] = operator => /\ k < Len(E) /\ E[k + 1] = operator
                              /\ Len(upto[j]) + 1 = k + 2
        /\ s[j] # operator => Len(upto[j]) + 1 = k + 1
    BY <1>1, <1>2, EscapeLies
  <2>2. At(j + 1) = Len(upto[j]) + 1
    BY <1>1
  <2> HIDE DEF k, At, E, n
  <2>3. CASE s[j] = operator
    <3>1. Reads(E, k) /\ E[k + 1] = operator
      BY <2>1, <2>3 DEF Reads
    <3>2. Written(E, context, k) = <<operator>> /\ After(E, k) = k + 2
      BY <1>3, <2>1, <3>1, EscapeAt
    <3>3. out[k] = Written(E, context, k) \o out[After(E, k)]
      BY <1>4, <2>1, <3>1
    <3>4. QED
      BY <2>1, <2>2, <2>3, <3>2, <3>3 DEF k
  <2>4. CASE s[j] # operator
    <3>1. ~Reads(E, k)
      BY <2>1, <2>4 DEF Reads
    <3>2. out[k] = <<E[k]>> \o out[k + 1]
      BY <1>4, <2>1, <3>1
    <3>3. QED
      BY <2>1, <2>2, <2>4, <3>2 DEF k
  <2>5. QED
    BY <2>3, <2>4
<1> DEFINE T == {j \in 1..n+1 : out[At(j)] = SubSeq(s, j, n)}
<1>6. ASSUME NEW j \in 1..n+1, j+1..n+1 \subseteq T PROVE j \in T
  <2>0. \A m \in j+1..n+1 : out[At(m)] = SubSeq(s, m, n)
    BY <1>6
  <2> SUFFICES out[At(j)] = SubSeq(s, j, n)
    OBVIOUS
  <2> HIDE DEF T
  <2>1. CASE j = n + 1
    <3>1. SubSeq(s, n + 1, n) = <<>>
      BY <1>1, SubSeqEmpty
    <3>2. j - 1 = n
      BY <1>1, <2>1
    <3>3. QED
      BY <1>4, <2>1, <3>1, <3>2
  <2>2. CASE j \in 1..n
    <3>1. j + 1 \in j+1..n+1
      BY <1>1, <2>2
    <3> HIDE DEF At
    <3>2. out[At(j)] = <<s[j]>> \o SubSeq(s, j + 1, n)
      BY <1>5, <2>0, <2>2, <3>1
    <3>3. QED
      BY <2>2, <3>2, CutByte
  <2>3. QED
    BY <1>1, <2>1, <2>2
<1>7. 1 \in T
  <2>1. n + 1 \in Nat /\ 1 \in 1..n+1
    BY <1>1
  <2> HIDE DEF T, n
  <2>2. QED
    BY <1>6, <2>1, DownInduction
<1>8. At(1) = 1
  <2>1. 1 - 1 = 0 /\ Len(<<>>) = 0
    OBVIOUS
  <2>2. QED
    BY <1>2, <2>1
<1>9. out[1] = SubSeq(s, 1, n)
  <2> HIDE DEF At
  <2>1. QED
    BY <1>7, <1>8
<1>10. QED
  BY <1>2, <1>4, <1>9, SubSeqFull DEF String

LEMMA ContextTyped == Context \in Seq(Environment)
<1>1. /\ <<>> \in String /\ <<Letter>> \in String /\ <<operator>> \in String
      /\ <<referenceOpener, Letter>> \in String
      /\ <<operator, referenceOpener, Letter, referenceCloser>> \in String
  BY DEF String, Letter, operator, referenceOpener, referenceCloser
<1> DEFINE names == {<<Letter>>, <<>>, <<referenceOpener, Letter>>}
           first == [name \in {<<Letter>>} |-> <<operator, referenceOpener, Letter, referenceCloser>>]
           second == [name \in names |-> IF name = <<Letter>> THEN <<Letter>>
                                         ELSE IF name = <<>> THEN <<operator>> ELSE <<>>]
<1>2. Context = <<first, second>>
  BY DEF Context
<1>3. first \in [{<<Letter>>} -> String] /\ {<<Letter>>} \subseteq String
  BY <1>1
<1>4. names \subseteq String
  BY <1>1
<1> HIDE DEF names
<1>5. second \in [names -> String]
  BY <1>1
<1> HIDE DEF first, second
<1>6. first \in Environment /\ second \in Environment
  BY <1>3, <1>4, <1>5 DEF Environment
<1>7. QED
  BY <1>2, <1>6

LEMMA EscapeIs ==
  ASSUME InputInv
  PROVE  EscapeProtects
BY ContextTyped, EscapeKept DEF InputInv, EscapeProtects

(* Doubling each operator protects a text of any length, in any encoding,    *)
(* wherever the steps of the loop fall in it (expand.go 49-66, 83-85).       *)
THEOREM EscapeProtectsHolds == MCSpec => []EscapeProtects
BY InputInvariant, EscapeIs, PTL

-----------------------------------------------------------------------------
(* The tokens of a string, and where the next one begins.                  *)
Token == [kind : {"text", "name", "escape"}, text : String]

TokenAt(s, i) ==
  IF ~Reads(s, i) THEN [kind |-> "text", text |-> <<s[i]>>]
  ELSE IF s[i + 1] = referenceOpener /\ ClosersFrom(s, i) # {}
  THEN [kind |-> "name", text |-> SubSeq(s, i + 2, Min(ClosersFrom(s, i)) - 1)]
  ELSE [kind |-> IF s[i + 1] = operator THEN "escape" ELSE "text",
        text |-> <<operator>> \o RuneOf(s[i + 1])]

NextAt(s, i) ==
  IF ~Reads(s, i) THEN i + 1
  ELSE IF s[i + 1] = referenceOpener /\ ClosersFrom(s, i) # {}
  THEN Min(ClosersFrom(s, i)) + 1
  ELSE i + 2

LEMMA TokenTyped ==
  ASSUME NEW s \in String, NEW i \in 1..Len(s)
  PROVE  TokenAt(s, i) \in Token /\ NextAt(s, i) \in i+1..Len(s)+1
<1>1. Len(s) \in Nat /\ s[i] \in 0..255
  BY StringFacts
<1>2. CASE ~Reads(s, i)
  <2>1. <<s[i]>> \in String
    BY <1>1 DEF String
  <2>2. QED
    BY <1>1, <1>2, <2>1 DEF TokenAt, NextAt, Token
<1>3. CASE Reads(s, i) /\ s[i + 1] = referenceOpener /\ ClosersFrom(s, i) # {}
  <2> DEFINE j == Min(ClosersFrom(s, i))
  <2>1. j \in i+2..Len(s) /\ SubSeq(s, i + 2, j - 1) \in String
    BY <1>3, ReferenceAt
  <2>2. /\ TokenAt(s, i) = [kind |-> "name", text |-> SubSeq(s, i + 2, j - 1)]
        /\ NextAt(s, i) = j + 1
    BY <1>3 DEF TokenAt, NextAt
  <2> HIDE DEF j
  <2>3. j + 1 \in i+1..Len(s)+1
    BY <1>1, <2>1
  <2>4. QED
    BY <2>1, <2>2, <2>3 DEF Token
<1>4. CASE Reads(s, i) /\ ~(s[i + 1] = referenceOpener /\ ClosersFrom(s, i) # {})
  <2> DEFINE text == <<operator>> \o RuneOf(s[i + 1])
  <2>1. i + 1 \in 1..Len(s)
    BY <1>1, <1>4 DEF Reads
  <2>2. RuneOf(s[i + 1]) \in String /\ <<operator>> \in String
    <3>1. s[i + 1] \in 0..255
      BY <2>1, StringFacts
    <3>2. <<operator>> \in String
      BY DEF String, operator
    <3>3. QED
      BY <3>1, <3>2, RuneTyped
  <2>3. text \in String
    BY <2>2, ConcatString
  <2>4. /\ TokenAt(s, i) = [kind |-> IF s[i + 1] = operator THEN "escape" ELSE "text",
                            text |-> text]
        /\ NextAt(s, i) = i + 2
    BY <1>4 DEF TokenAt, NextAt
  <2>5. i + 2 \in i+1..Len(s)+1
    BY <1>1, <2>1
  <2> HIDE DEF text
  <2>6. QED
    BY <2>3, <2>4, <2>5 DEF Token
<1>5. QED
  BY <1>2, <1>3, <1>4

LEMMA MeaningTyped ==
  ASSUME NEW t \in Token
  PROVE  Meaning(t) \in String
<1>1. t.kind \in {"text", "name", "escape"} /\ t.text \in String /\ <<operator>> \in String
  BY DEF Token, String, operator
<1>2. CASE t.kind = "text"
  BY <1>1, <1>2 DEF Meaning
<1>3. CASE t.kind = "escape"
  BY <1>1, <1>3 DEF Meaning
<1>4. CASE t.kind = "name"
  <2>1. Meaning(t) = MappingFuncFor(Context, t.text)
    BY <1>4 DEF Meaning, MappingFuncFor
  <2>2. QED
    BY <1>1, <2>1, ContextTyped, MappingFound
<1>5. QED
  BY <1>1, <1>2, <1>3, <1>4

(* What the loop does at a token: it writes its meaning and goes behind it. *)
LEMMA TokenWritten ==
  ASSUME NEW s \in String, NEW i \in 1..Len(s)
  PROVE  IF Reads(s, i)
         THEN Written(s, Context, i) = Meaning(TokenAt(s, i)) /\ After(s, i) = NextAt(s, i)
         ELSE <<s[i]>> = Meaning(TokenAt(s, i)) /\ NextAt(s, i) = i + 1
<1>1. CASE ~Reads(s, i)
  BY <1>1 DEF TokenAt, NextAt, Meaning
<1>2. CASE Reads(s, i) /\ s[i + 1] = referenceOpener /\ ClosersFrom(s, i) # {}
  <2> DEFINE j == Min(ClosersFrom(s, i))  name == SubSeq(s, i + 2, j - 1)
  <2>1. After(s, i) = j + 1 /\ Written(s, Context, i) = MappingFuncFor(Context, name)
    BY <1>2, ReferenceAt
  <2>2. TokenAt(s, i) = [kind |-> "name", text |-> name] /\ NextAt(s, i) = j + 1
    BY <1>2 DEF TokenAt, NextAt
  <2> HIDE DEF j, name
  <2>3. TokenAt(s, i).kind = "name" /\ TokenAt(s, i).text = name
    BY <2>2
  <2>4. Meaning(TokenAt(s, i)) = MappingFuncFor(Context, name)
    BY <2>3 DEF Meaning, MappingFuncFor
  <2>5. QED
    BY <1>2, <2>1, <2>2, <2>4
<1>3. CASE Reads(s, i) /\ s[i + 1] = operator
  <2>1. TokenAt(s, i).kind = "escape" /\ NextAt(s, i) = i + 2
    BY <1>3 DEF TokenAt, NextAt, operator, referenceOpener
  <2>2. Meaning(TokenAt(s, i)) = <<operator>>
    BY <2>1 DEF Meaning
  <2>3. QED
    BY <1>3, <2>1, <2>2, EscapeAt
<1>4. CASE Reads(s, i) /\ s[i + 1] # operator
           /\ ~(s[i + 1] = referenceOpener /\ ClosersFrom(s, i) # {})
  <2>1. /\ TokenAt(s, i).kind = "text" /\ NextAt(s, i) = i + 2
        /\ TokenAt(s, i).text = <<operator>> \o RuneOf(s[i + 1])
    BY <1>4 DEF TokenAt, NextAt
  <2>2. Meaning(TokenAt(s, i)) = <<operator>> \o RuneOf(s[i + 1])
    BY <2>1 DEF Meaning
  <2>3. CASE s[i + 1] = referenceOpener
    <3>1. RuneOf(s[i + 1]) = <<referenceOpener>>
      BY <2>3 DEF RuneOf, referenceOpener
    <3>2. operator \in 0..255 /\ referenceOpener \in 0..255
      BY DEF operator, referenceOpener
    <3>3. <<operator>> \o <<referenceOpener>> = <<operator, referenceOpener>>
      BY <3>2, PairString
    <3>4. QED
      BY <1>4, <2>1, <2>2, <2>3, <3>1, <3>3, OpenAt
  <2>4. CASE s[i + 1] # referenceOpener
    BY <1>4, <2>1, <2>2, <2>4, OtherAt
  <2>5. QED
    BY <2>3, <2>4
<1>5. QED
  BY <1>1, <1>2, <1>3, <1>4 DEF operator, referenceOpener

(* Tokens listed from the end by links that go forward are defined.        *)
LEMMA TokensExist ==
  ASSUME NEW n \in Nat, NEW item \in [1..n -> Token], NEW next \in [1..n -> 1..n+1],
         \A i \in 1..n : next[i] > i
  PROVE  \E from \in [1..n+1 -> Seq(Token)] :
           from[n + 1] = <<>> /\ \A i \in 1..n : from[i] = <<item[i]>> \o from[next[i]]
<1> DEFINE Is(f, k) == /\ f[n + 1] = <<>>
                       /\ \A i \in 1..n : i > n - k => f[i] = <<item[i]>> \o f[next[i]]
           T == {k \in 0..n : \E f \in [1..n+1 -> Seq(Token)] : Is(f, k)}
<1>1. 0 \in T
  <2> DEFINE c == [i \in 1..n+1 |-> <<>>]
  <2>1. c \in [1..n+1 -> Seq(Token)] /\ Is(c, 0) /\ 0 \in 0..n
    OBVIOUS
  <2> HIDE DEF c, Is
  <2>2. QED
    BY <2>1
<1>2. ASSUME NEW k \in 1..n, k - 1 \in T PROVE k \in T
  <2> DEFINE m == n + 1 - k
  <2>1. PICK f \in [1..n+1 -> Seq(Token)] : Is(f, k - 1)
    BY <1>2
  <2>2. m \in 1..n /\ m \in 1..n+1 /\ m # n + 1 /\ n + 1 \in 1..n+1
    OBVIOUS
  <2>3. \A i \in 1..n : i > n - k => i = m \/ i > n - (k - 1)
    OBVIOUS
  <2>4. \A i \in 1..n : i > n - k => next[i] # m /\ next[i] \in 1..n+1 /\ i \in 1..n+1
    OBVIOUS
  <2> HIDE DEF m
  <2> DEFINE g == [i \in 1..n+1 |-> IF i = m THEN <<item[m]>> \o f[next[m]] ELSE f[i]]
  <2>5. g \in [1..n+1 -> Seq(Token)]
    <3>1. item[m] \in Token /\ f[next[m]] \in Seq(Token)
      BY <2>2
    <3>2. <<item[m]>> \o f[next[m]] \in Seq(Token)
      BY <3>1
    <3>3. QED
      BY <3>2
  <2>6. g[n + 1] = <<>>
    BY <2>1, <2>2
  <2>7. ASSUME NEW i \in 1..n, i > n - k PROVE g[i] = <<item[i]>> \o g[next[i]]
    <3>1. g[next[i]] = f[next[i]]
      BY <2>4, <2>7
    <3>2. CASE i = m
      BY <2>2, <3>1, <3>2
    <3>3. CASE i # m
      <4>1. f[i] = <<item[i]>> \o f[next[i]]
        BY <2>1, <2>3, <2>7, <3>3
      <4>2. g[i] = f[i]
        BY <2>4, <2>7, <3>3
      <4> HIDE DEF g
      <4>3. QED
        BY <3>1, <4>1, <4>2
    <3>4. QED
      BY <3>2, <3>3
  <2> HIDE DEF g
  <2>8. Is(g, k) /\ k \in 0..n
    BY <2>6, <2>7
  <2> HIDE DEF Is
  <2>9. QED
    BY <2>5, <2>8
<1>3. 0..n \subseteq T
  <2> HIDE DEF T
  <2>1. QED
    BY <1>1, <1>2, UpInduction
<1>4. n \in T
  <2>1. n \in 0..n
    OBVIOUS
  <2> HIDE DEF T
  <2>2. QED
    BY <1>3, <2>1
<1>5. PICK f \in [1..n+1 -> Seq(Token)] : Is(f, n)
  BY <1>4
<1>6. \A i \in 1..n : i > n - n
  OBVIOUS
<1>7. QED
  BY <1>5, <1>6

(* The tokens from each byte on.                                           *)
LEMMA TokensFrom ==
  ASSUME NEW s \in String
  PROVE  \E from \in [1..Len(s)+1 -> Seq(Token)] :
           /\ Tokens(s) = from[1] /\ from[Len(s) + 1] = <<>>
           /\ \A i \in 1..Len(s) : from[i] = <<TokenAt(s, i)>> \o from[NextAt(s, i)]
<1> DEFINE n == Len(s)
           close(i) == {j \in i+2..n : s[j] = referenceCloser}
           Body(f, i) ==
             IF i > n THEN <<>>
             ELSE IF s[i] # operator \/ i = n
             THEN <<[kind |-> "text", text |-> <<s[i]>>]>> \o f[i + 1]
             ELSE IF s[i + 1] = referenceOpener /\ close(i) # {}
             THEN <<[kind |-> "name", text |-> SubSeq(s, i + 2, Min(close(i)) - 1)]>>
                    \o f[Min(close(i)) + 1]
             ELSE <<[kind |-> IF s[i + 1] = operator THEN "escape" ELSE "text",
                     text |-> <<operator>> \o RuneOf(s[i + 1])]>> \o f[i + 2]
           Is(f) == f = [i \in 1..n+1 |-> Body(f, i)]
           from == CHOOSE f : Is(f)
           item == [i \in 1..n |-> TokenAt(s, i)]
           next == [i \in 1..n |-> NextAt(s, i)]
<1>1. n \in Nat
  BY StringFacts
<1>2. ASSUME NEW f, NEW i \in 1..n
      PROVE  Body(f, i) = <<TokenAt(s, i)>> \o f[NextAt(s, i)]
  <2>1. close(i) = ClosersFrom(s, i)
    BY DEF ClosersFrom
  <2>2. i <= n /\ (Reads(s, i) <=> ~(s[i] # operator \/ i = n))
    BY <1>1 DEF Reads
  <2> HIDE DEF close, n
  <2>3. CASE ~Reads(s, i)
    BY <1>1, <2>2, <2>3 DEF TokenAt, NextAt
  <2>4. CASE Reads(s, i) /\ s[i + 1] = referenceOpener /\ ClosersFrom(s, i) # {}
    BY <1>1, <2>1, <2>2, <2>4 DEF TokenAt, NextAt
  <2>5. CASE Reads(s, i) /\ ~(s[i + 1] = referenceOpener /\ ClosersFrom(s, i) # {})
    <3> DEFINE t == [kind |-> IF s[i + 1] = operator THEN "escape" ELSE "text",
                     text |-> <<operator>> \o RuneOf(s[i + 1])]
    <3>1. TokenAt(s, i) = t /\ NextAt(s, i) = i + 2
      BY <2>5 DEF TokenAt, NextAt
    <3>2. Body(f, i) = <<t>> \o f[i + 2]
      BY <1>1, <2>1, <2>2, <2>5
    <3> HIDE DEF t, Body
    <3>3. QED
      BY <3>1, <3>2
  <2>6. QED
    BY <2>3, <2>4, <2>5
<1>3. Body(from, n + 1) = <<>> /\ \A f : Body(f, n + 1) = <<>>
  BY <1>1
<1>4. item \in [1..n -> Token] /\ next \in [1..n -> 1..n+1] /\ \A i \in 1..n : next[i] > i
  <2>1. ASSUME NEW i \in 1..n
        PROVE  TokenAt(s, i) \in Token /\ NextAt(s, i) \in 1..n+1 /\ NextAt(s, i) > i
    <3>1. TokenAt(s, i) \in Token /\ NextAt(s, i) \in i+1..n+1
      BY TokenTyped
    <3>2. QED
      BY <1>1, <3>1
  <2> HIDE DEF n
  <2>2. QED
    BY <2>1
<1>5. PICK f \in [1..n+1 -> Seq(Token)] :
        f[n + 1] = <<>> /\ \A i \in 1..n : f[i] = <<item[i]>> \o f[next[i]]
  <2> HIDE DEF n, item, next
  <2>1. QED
    BY <1>1, <1>4, TokensExist
<1>6. \A i \in 1..n : f[i] = <<TokenAt(s, i)>> \o f[NextAt(s, i)]
  BY <1>5
<1> HIDE DEF Body
<1>7. Is(f)
  <2>1. ASSUME NEW i \in 1..n+1 PROVE f[i] = Body(f, i)
    <3>1. i = n + 1 \/ i \in 1..n
      BY <1>1
    <3> HIDE DEF n, item, next
    <3>2. QED
      BY <1>2, <1>3, <1>5, <1>6, <3>1
  <2>2. f = [i \in 1..n+1 |-> f[i]]
    BY <1>5
  <2>3. QED
    BY <2>1, <2>2
<1>8. Is(from)
  BY <1>7
<1>9. Tokens(s) = from[1]
  BY DEF Tokens, Body
<1> HIDE DEF from
<1>10. /\ from[n + 1] = <<>>
       /\ \A i \in 1..n : from[i] = <<TokenAt(s, i)>> \o from[NextAt(s, i)]
  <2>1. n + 1 \in 1..n+1 /\ \A i \in 1..n : i \in 1..n+1
    BY <1>1
  <2>2. \A i \in 1..n+1 : from[i] = Body(from, i)
    BY <1>8
  <2> HIDE DEF n, item, next
  <2>3. QED
    BY <1>2, <1>3, <2>1, <2>2
<1> DEFINE T == {i \in 1..n+1 : from[i] \in Seq(Token)}
<1>11. 1..n+1 \subseteq T
  <2>1. ASSUME NEW i \in 1..n+1, i+1..n+1 \subseteq T PROVE i \in T
    <3>0. \A m \in i+1..n+1 : from[m] \in Seq(Token)
      BY <2>1
    <3> SUFFICES from[i] \in Seq(Token)
      OBVIOUS
    <3> HIDE DEF T, item, next
    <3>1. CASE i = n + 1
      <4>1. <<>> \in Seq(Token)
        OBVIOUS
      <4>2. QED
        BY <1>10, <3>1, <4>1
    <3>2. CASE i \in 1..n
      <4>1. TokenAt(s, i) \in Token /\ NextAt(s, i) \in i+1..n+1
        BY <3>2, TokenTyped
      <4>2. from[NextAt(s, i)] \in Seq(Token)
        BY <3>0, <4>1
      <4>3. <<TokenAt(s, i)>> \o from[NextAt(s, i)] \in Seq(Token)
        BY <4>1, <4>2
      <4>4. QED
        BY <1>10, <3>2, <4>3
    <3>3. QED
      BY <1>1, <3>1, <3>2
  <2>2. n + 1 \in Nat
    BY <1>1
  <2> HIDE DEF T
  <2>3. QED
    BY <2>1, <2>2, DownInduction
<1>12. from \in [1..n+1 -> Seq(Token)]
  <2>1. from = [i \in 1..n+1 |-> from[i]]
    BY <1>8
  <2>2. QED
    BY <1>11, <2>1
<1>13. QED
  BY <1>9, <1>10, <1>12

(* The meanings of the tokens, joined up to each of them.                  *)
LEMMA JoinedUpto ==
  ASSUME NEW s \in String, NEW ts \in Seq(Token), ts = Tokens(s)
  PROVE  \E upto \in [0..Len(ts) -> String] :
           /\ Joined(s) = upto[Len(ts)] /\ upto[0] = <<>>
           /\ \A i \in 1..Len(ts) : upto[i] = upto[i - 1] \o Meaning(ts[i])
<1> DEFINE n == Len(ts)
           Is(f) == f = [i \in 0..n |-> IF i = 0 THEN <<>> ELSE f[i - 1] \o Meaning(ts[i])]
           upto == CHOOSE f : Is(f)
           step == [i \in 1..n |-> [v \in String |-> v \o Meaning(ts[i])]]
<1>1. n \in Nat /\ <<>> \in String /\ \A i \in 1..n : Meaning(ts[i]) \in String
  <2>1. n \in Nat /\ \A i \in 1..n : ts[i] \in Token
    OBVIOUS
  <2>2. <<>> \in String
    BY DEF String
  <2>3. QED
    BY <2>1, <2>2, MeaningTyped
<1>2. step \in [1..n -> [String -> String]]
  <2>1. ASSUME NEW i \in 1..n, NEW v \in String PROVE v \o Meaning(ts[i]) \in String
    BY <1>1, ConcatString
  <2>2. QED
    BY <2>1
<1>3. PICK f \in [0..n -> String] : f[0] = <<>> /\ \A i \in 1..n : f[i] = step[i][f[i - 1]]
  <2>1. n \in Nat
    BY <1>1
  <2> HIDE DEF n, step
  <2>2. QED
    BY <1>2, <2>1, FoldStrings
<1>4. \A i \in 1..n : f[i] = f[i - 1] \o Meaning(ts[i])
  <2>1. ASSUME NEW i \in 1..n PROVE f[i] = f[i - 1] \o Meaning(ts[i])
    <3>1. i - 1 \in 0..n
      BY <1>1
    <3>2. QED
      BY <1>3, <3>1
  <2>2. QED
    BY <2>1
<1>5. Is(f)
  <2>1. ASSUME NEW i \in 0..n
        PROVE  f[i] = IF i = 0 THEN <<>> ELSE f[i - 1] \o Meaning(ts[i])
    <3>1. f[0] = <<>>
      BY <1>3
    <3>2. i = 0 \/ i \in 1..n
      BY <1>1
    <3> HIDE DEF n, step
    <3>3. QED
      BY <1>4, <3>1, <3>2
  <2>2. f = [i \in 0..n |-> f[i]]
    OBVIOUS
  <2>3. QED
    BY <2>1, <2>2
<1>6. Is(upto)
  BY <1>5
<1>7. Joined(s) = upto[n]
  BY DEF Joined
<1> HIDE DEF upto
<1>8. upto[0] = <<>> /\ \A i \in 1..n : upto[i] = upto[i - 1] \o Meaning(ts[i])
  BY <1>1, <1>6
<1> DEFINE T == {i \in 0..n : upto[i] \in String}
<1>9. 0..n \subseteq T
  <2>1. 0 \in T
    BY <1>1, <1>8
  <2>2. ASSUME NEW i \in 1..n, i - 1 \in T PROVE i \in T
    <3>1. upto[i - 1] \in String /\ Meaning(ts[i]) \in String /\ i \in 0..n
      BY <1>1, <2>2
    <3>2. upto[i - 1] \o Meaning(ts[i]) \in String
      BY <3>1, ConcatString
    <3>3. QED
      BY <1>8, <3>1, <3>2
  <2> HIDE DEF T
  <2>3. QED
    BY <1>1, <2>1, <2>2, UpInduction
<1>10. upto \in [0..n -> String]
  <2>1. DOMAIN upto = 0..n /\ upto = [i \in 0..n |-> upto[i]]
    BY <1>6
  <2>2. QED
    BY <1>9, <2>1
<1>11. QED
  BY <1>7, <1>8, <1>10

(* What the loop writes from a byte on is what its tokens mean from there on. *)
LEMMA LoopJoins ==
  ASSUME NEW s \in String
  PROVE  Expand(s, Context) = Joined(s)
<1> DEFINE n == Len(s)  ts == Tokens(s)
<1>1. n \in Nat
  BY StringFacts
<1>2. PICK from \in [1..n+1 -> Seq(Token)] :
        /\ ts = from[1] /\ from[n + 1] = <<>>
        /\ \A i \in 1..n : from[i] = <<TokenAt(s, i)>> \o from[NextAt(s, i)]
  BY TokensFrom
<1>3. ts \in Seq(Token) /\ 1 \in 1..n+1
  BY <1>1, <1>2
<1>4. PICK upto \in [0..Len(ts) -> String] :
        /\ Joined(s) = upto[Len(ts)] /\ upto[0] = <<>>
        /\ \A i \in 1..Len(ts) : upto[i] = upto[i - 1] \o Meaning(ts[i])
  BY <1>3, JoinedUpto
<1>5. PICK out \in [1..n+1 -> String] :
        /\ Expand(s, Context) = out[1]
        /\ out[n + 1] = <<>>
        /\ \A k \in 1..n :
             out[k] = IF Reads(s, k) THEN Written(s, Context, k) \o out[After(s, k)]
                                     ELSE <<s[k]>> \o out[k + 1]
  BY ContextTyped, ExpandBytes
<1>6. ASSUME NEW i \in 1..n
      PROVE  /\ TokenAt(s, i) \in Token /\ NextAt(s, i) \in i+1..n+1
             /\ out[i] = Meaning(TokenAt(s, i)) \o out[NextAt(s, i)]
  <2>1. TokenAt(s, i) \in Token /\ NextAt(s, i) \in i+1..n+1
    BY TokenTyped
  <2>2. IF Reads(s, i)
        THEN Written(s, Context, i) = Meaning(TokenAt(s, i)) /\ After(s, i) = NextAt(s, i)
        ELSE <<s[i]>> = Meaning(TokenAt(s, i)) /\ NextAt(s, i) = i + 1
    BY TokenWritten
  <2> HIDE DEF n
  <2>3. QED
    BY <1>5, <2>1, <2>2
<1> HIDE DEF ts, n
<1> DEFINE Rest(i, m) == /\ Len(ts) = m + Len(from[i])
                         /\ \A q \in 1..Len(from[i]) : ts[m + q] = from[i][q]
           Ends(i) == \A m \in 0..Len(ts) : Rest(i, m) => upto[Len(ts)] = upto[m] \o out[i]
           T == {i \in 1..n+1 : Ends(i)}
<1>7. Len(ts) \in Nat
  BY <1>3
<1>8. ASSUME NEW i \in 1..n+1, i+1..n+1 \subseteq T PROVE i \in T
  <2>0. \A j \in i+1..n+1 : Ends(j)
    BY <1>8
  <2> SUFFICES ASSUME NEW m \in 0..Len(ts), Rest(i, m)
               PROVE  upto[Len(ts)] = upto[m] \o out[i]
    OBVIOUS
  <2> HIDE DEF T
  <2>1. CASE i = n + 1
    <3>1. Len(from[i]) = 0 /\ out[i] = <<>>
      BY <1>2, <1>5, <2>1
    <3>2. Len(ts) = m
      BY <1>7, <3>1
    <3>3. upto[m] \in String
      OBVIOUS
    <3>4. upto[m] \o <<>> = upto[m]
      BY <3>3, ConcatStrings
    <3>5. QED
      BY <3>1, <3>2, <3>4
  <2>2. CASE i \in 1..n
    <3> DEFINE t == TokenAt(s, i)  j == NextAt(s, i)
    <3>1. /\ t \in Token /\ j \in i+1..n+1 /\ j \in 1..n+1
          /\ out[i] = Meaning(t) \o out[j] /\ from[i] = <<t>> \o from[j]
      <4>1. t \in Token /\ j \in i+1..n+1 /\ out[i] = Meaning(t) \o out[j]
        BY <1>6, <2>2
      <4>2. from[i] = <<t>> \o from[j]
        BY <1>2, <2>2
      <4> HIDE DEF t, j
      <4>3. j \in 1..n+1
        BY <1>1, <4>1
      <4>4. QED
        BY <4>1, <4>2, <4>3
    <3> HIDE DEF t, j
    <3>2. from[j] \in Seq(Token) /\ out[j] \in String
      BY <3>1
    <3>3. /\ Len(from[i]) = Len(from[j]) + 1 /\ from[i][1] = t /\ Len(from[j]) \in Nat
          /\ \A q \in 1..Len(from[j]) : from[i][q + 1] = from[j][q]
      BY <3>1, <3>2
    <3>4. m + 1 \in 1..Len(ts) /\ m + 1 \in 0..Len(ts) /\ (m + 1) - 1 = m
      BY <1>7, <3>3
    <3>5. ts[m + 1] = t
      <4>1. 1 \in 1..Len(from[i])
        BY <3>3
      <4>2. QED
        BY <3>3, <4>1
    <3>6. Rest(j, m + 1)
      <4>1. Len(ts) = (m + 1) + Len(from[j])
        <5>1. Len(ts) = m + Len(from[i]) /\ m \in Nat
          BY <1>7
        <5> DEFINE a == Len(from[i])  b == Len(from[j])  c == Len(ts)
        <5>2. a = b + 1 /\ b \in Nat /\ c = m + a /\ m \in Nat
          BY <3>3, <5>1
        <5> HIDE DEF a, b, c
        <5>3. c = (m + 1) + b
          BY <5>2
        <5>4. QED
          BY <5>3 DEF b, c
      <4>2. ASSUME NEW q \in 1..Len(from[j]) PROVE ts[(m + 1) + q] = from[j][q]
        <5>1. q + 1 \in 1..Len(from[i]) /\ m + (q + 1) = (m + 1) + q
          BY <3>3
        <5>2. ts[m + (q + 1)] = from[i][q + 1]
          BY <5>1
        <5>3. QED
          BY <3>3, <5>1, <5>2
      <4>3. QED
        BY <4>1, <4>2
    <3> HIDE DEF Rest
    <3>7. upto[Len(ts)] = upto[m + 1] \o out[j]
      BY <2>0, <3>1, <3>4, <3>6
    <3> HIDE DEF Ends
    <3>8. upto[m + 1] = upto[m] \o Meaning(t)
      BY <1>4, <3>4, <3>5
    <3> DEFINE u == upto[m]  w == Meaning(t)  o == out[j]
    <3>9. u \in String /\ w \in String /\ o \in String
      BY <3>1, <3>2, MeaningTyped
    <3>10. upto[Len(ts)] = (u \o w) \o o /\ out[i] = w \o o
      BY <3>1, <3>7, <3>8
    <3> HIDE DEF u, w, o
    <3>11. (u \o w) \o o = u \o (w \o o)
      <4>1. Associates(u, w, o)
        BY <3>9, StringsAssociate
      <4>2. QED
        BY <4>1 DEF Associates
    <3>12. QED
      BY <3>10, <3>11 DEF u
  <2>3. QED
    BY <1>1, <2>1, <2>2
<1>9. 1 \in T
  <2>1. n + 1 \in Nat
    BY <1>1
  <2> HIDE DEF T
  <2>2. QED
    BY <1>3, <1>8, <2>1, DownInduction
<1>10. Rest(1, 0) /\ 0 \in 0..Len(ts)
  BY <1>2, <1>7
<1>11. upto[Len(ts)] = upto[0] \o out[1]
  <2>1. Ends(1)
    BY <1>9
  <2> HIDE DEF Rest
  <2>2. QED
    BY <1>10, <2>1
<1>12. <<>> \o out[1] = out[1]
  <2>1. out[1] \in String
    BY <1>3
  <2>2. QED
    BY <2>1, ConcatStrings
<1>13. QED
  BY <1>4, <1>5, <1>11, <1>12

LEMMA ExpandsIs ==
  ASSUME InputInv
  PROVE  ExpandsTokens
BY LoopJoins DEF InputInv, ExpandsTokens

(* The loop with its cursor and checkpoint expands each token of a text of   *)
(* any length by itself, in order, and never what it has written, in any     *)
(* encoding (expand.go 38-102).                                            *)
THEOREM ExpandsTokensHolds == MCSpec => []ExpandsTokens
BY InputInvariant, ExpandsIs, PTL

-----------------------------------------------------------------------------
(* A line cut at the separators it was joined with.                          *)

-----------------------------------------------------------------------------
(* Command lines. A sequence of sequences written out, one after the other. *)

Strung(E, ss) ==
  {f \in [0..Len(ss) -> Seq(E)] : f[0] = <<>> /\ \A i \in 1..Len(ss) : f[i] = f[i - 1] \o ss[i]}

LEMMA StrungExists ==
  ASSUME NEW E, NEW ss \in Seq(Seq(E))
  PROVE  Strung(E, ss) # {}
<1> DEFINE n == Len(ss)  V == Seq(E)  step == [i \in 1..n |-> [v \in V |-> v \o ss[i]]]
<1>1. n \in Nat /\ \A i \in 1..n : ss[i] \in V
  OBVIOUS
<1>2. \A v, w \in V : v \o w \in V
  BY ConcatProperties
<1>3. <<>> \in V
  OBVIOUS
<1>4. Len(ss) = n
  OBVIOUS
<1> HIDE DEF n
<1> DEFINE base == <<>>
<1>5. base \in V
  BY <1>3
<1> HIDE DEF V, base
<1>6. step \in [1..n -> [V -> V]]
  BY <1>1, <1>2
<1> HIDE DEF step
<1>7. Along(V, n, base, step) # {}
  BY <1>1, <1>5, <1>6, FoldExists
<1>8. PICK f \in [0..n -> V] : f[0] = base /\ \A i \in 1..n : f[i] = step[i][f[i - 1]]
  BY <1>7 DEF Along
<1>9. ASSUME NEW i \in 1..n PROVE f[i] = f[i - 1] \o ss[i]
  <2>1. i - 1 \in 0..n
    BY <1>1
  <2>2. f[i - 1] \in V
    BY <2>1
  <2>3. QED
    BY <1>8, <2>2 DEF step
<1>10. f \in Strung(E, ss)
  BY <1>4, <1>8, <1>9 DEF Strung, V, base
<1>11. QED
  BY <1>10

LEMMA StrungIs ==
  ASSUME NEW E, NEW ss \in Seq(Seq(E)), NEW f \in Strung(E, ss)
  PROVE  FlattenSeq(ss) = f[Len(ss)] /\ FlattenSeq(ss) \in Seq(E)
<1> DEFINE n == Len(ss)
           Is(h) == h = [i \in 1..n |-> IF i = 1 THEN ss[i] ELSE h[i - 1] \o ss[i]]
           flatten == CHOOSE h : Is(h)
<1>1. n \in Nat /\ \A i \in 1..n : ss[i] \in Seq(E)
  OBVIOUS
<1>2. f \in [0..n -> Seq(E)] /\ f[0] = <<>> /\ \A i \in 1..n : f[i] = f[i - 1] \o ss[i]
  BY DEF Strung
<1>3. f[n] \in Seq(E)
  BY <1>1, <1>2
<1>4. CASE n = 0
  <2>1. ss = <<>>
    BY <1>4
  <2>2. FlattenSeq(ss) = <<>>
    BY <1>4, <2>1 DEF FlattenSeq
  <2>3. QED
    BY <1>2, <1>3, <1>4, <2>2
<1>5. CASE n # 0
  <2> DEFINE g == [i \in 1..n |-> f[i]]
  <2>1. Is(g)
    <3>1. ASSUME NEW i \in 1..n PROVE f[i] = IF i = 1 THEN ss[i] ELSE g[i - 1] \o ss[i]
      <4>1. CASE i = 1
        <5>1. f[1] = f[0] \o ss[1]
          <6>1. 1 \in 1..n /\ 1 - 1 = 0
            BY <4>1
          <6> HIDE DEF n, g
          <6>2. QED
            BY <1>2, <6>1
        <5>2. <<>> \o ss[1] = ss[1]
          <6>1. ss[1] \in Seq(E)
            BY <1>1, <4>1
          <6>2. QED
            BY <6>1, ConcatEmptySeq
        <5>3. QED
          BY <1>2, <4>1, <5>1, <5>2
      <4>2. CASE i # 1
        <5>1. i - 1 \in 1..n
          BY <1>1, <4>2
        <5>2. g[i - 1] = f[i - 1]
          BY <5>1
        <5> HIDE DEF g, n
        <5>3. QED
          BY <1>2, <4>2, <5>2
      <4>3. QED
        BY <4>1, <4>2
    <3> HIDE DEF n
    <3>2. QED
      BY <3>1
  <2>2. Is(flatten)
    BY <2>1
  <2>3. FlattenSeq(ss) = flatten[n]
    BY <1>5 DEF FlattenSeq
  <2> HIDE DEF flatten, n, g
  <2>4. \A i \in 1..n : flatten[i] = IF i = 1 THEN ss[i] ELSE flatten[i - 1] \o ss[i]
    BY <2>2
  <2> DEFINE T == {i \in 0..n : i = 0 \/ flatten[i] = f[i]}
  <2>5. 0 \in T
    BY <1>1
  <2>6. ASSUME NEW i \in 1..n, i - 1 \in T PROVE i \in T
    <3>1. i \in 0..n /\ f[i] = f[i - 1] \o ss[i] /\ ss[i] \in Seq(E)
      <4>1. i \in 0..n
        BY <1>1
      <4>2. f[i] = f[i - 1] \o ss[i] /\ ss[i] \in Seq(E)
        BY <1>1, <1>2
      <4>3. QED
        BY <4>1, <4>2
    <3>2. CASE i = 1
      <4>1. <<>> \o ss[i] = ss[i]
        BY <3>1, ConcatEmptySeq
      <4>2. flatten[i] = f[i]
        <5>1. i - 1 = 0 /\ f[0] = <<>>
          BY <1>2, <3>2
        <5>2. f[i] = ss[i]
          BY <3>1, <4>1, <5>1
        <5>3. QED
          BY <2>4, <3>2, <5>2
      <4>3. QED
        BY <3>1, <4>2
    <3>3. CASE i # 1
      <4>1. flatten[i - 1] = f[i - 1]
        BY <1>1, <2>6, <3>3
      <4>2. flatten[i] = f[i]
        BY <2>4, <3>1, <3>3, <4>1
      <4>3. QED
        BY <3>1, <4>2
    <3>4. QED
      BY <3>2, <3>3
  <2>7. 0..n \subseteq T
    <3> HIDE DEF T
    <3>1. QED
      BY <1>1, <2>5, <2>6, UpInduction
  <2>8. flatten[n] = f[n]
    <3>1. n \in 0..n
      BY <1>1
    <3>2. QED
      BY <1>5, <2>7, <3>1
  <2>9. QED
    BY <1>3, <2>3, <2>8 DEF n
<1>6. QED
  BY <1>4, <1>5

LEMMA AppendFacts ==
  ASSUME NEW E, NEW ss \in Seq(E), NEW tt \in Seq(E), NEW s \in E
  PROVE  /\ Append(ss, s) = ss \o <<s>> /\ <<s>> \in Seq(E)
         /\ ss \o Append(tt, s) = Append(ss \o tt, s)
<1>1. \A pp \in Seq(E) : Append(pp, s) = pp \o <<s>>
  <2> TAKE pp \in Seq(E)
  <2> DEFINE q == Append(pp, s)  r == pp \o <<s>>
  <2>1. <<s>> \in Seq(E) /\ Len(<<s>>) = 1 /\ <<s>>[1] = s /\ Len(pp) \in Nat
    OBVIOUS
  <2>2. /\ r \in Seq(E) /\ Len(r) = Len(pp) + 1
        /\ \A i \in 1..Len(pp)+1 : r[i] = IF i <= Len(pp) THEN pp[i] ELSE <<s>>[i - Len(pp)]
    BY <2>1, ConcatProperties
  <2>3. /\ q \in Seq(E) /\ Len(q) = Len(pp) + 1
        /\ \A i \in 1..Len(pp) : q[i] = pp[i]
        /\ q[Len(pp) + 1] = s
    OBVIOUS
  <2> HIDE DEF q, r
  <2>4. ASSUME NEW i \in 1..Len(q) PROVE q[i] = r[i]
    <3>1. CASE i <= Len(pp)
      <4>1. i \in 1..Len(pp) /\ i \in 1..Len(pp)+1
        BY <2>1, <3>1
      <4>2. r[i] = pp[i]
        BY <2>2, <3>1, <4>1
      <4>3. q[i] = pp[i]
        BY <2>3, <4>1
      <4>4. QED
        BY <4>2, <4>3
    <3>2. CASE i = Len(pp) + 1
      BY <2>1, <2>2, <2>3, <3>2
    <3>3. QED
      BY <2>1, <2>3, <3>1, <3>2
  <2>5. q = r
    BY <2>2, <2>3, <2>4, SeqEqual
  <2>6. QED
    BY <2>5 DEF q, r
<1>2. <<s>> \in Seq(E) /\ ss \o tt \in Seq(E)
  BY ConcatProperties
<1>3. (ss \o tt) \o <<s>> = ss \o (tt \o <<s>>)
  <2> DEFINE u == <<s>>
  <2>1. u \in Seq(E)
    BY <1>2
  <2> HIDE DEF u
  <2>2. (ss \o tt) \o u = ss \o (tt \o u)
    BY <2>1, ConcatAssociative
  <2>3. QED
    BY <2>2 DEF u
<1>4. QED
  BY <1>1, <1>2, <1>3

LEMMA FlattenOne ==
  ASSUME NEW E, NEW ss \in Seq(Seq(E)), NEW s \in Seq(E)
  PROVE  /\ FlattenSeq(ss) \in Seq(E)
         /\ FlattenSeq(Append(ss, s)) = FlattenSeq(ss) \o s
<1> DEFINE n == Len(ss)  tt == Append(ss, s)
<1>1. /\ n \in Nat /\ tt \in Seq(Seq(E)) /\ Len(tt) = n + 1 /\ tt[n + 1] = s
      /\ \A i \in 1..n : tt[i] = ss[i]
  OBVIOUS
<1>2. PICK f : f \in Strung(E, tt)
  BY <1>1, StrungExists
<1> HIDE DEF tt
<1>3. /\ f \in [0..n+1 -> Seq(E)] /\ f[0] = <<>>
      /\ \A i \in 1..n+1 : f[i] = f[i - 1] \o tt[i]
  BY <1>1, <1>2 DEF Strung
<1> DEFINE g == [i \in 0..n |-> f[i]]
<1>4. g \in Strung(E, ss)
  <2>1. g \in [0..n -> Seq(E)]
    <3>1. \A i \in 0..n : i \in 0..n+1
      BY <1>1
    <3>2. QED
      BY <1>3, <3>1
  <2>2. g[0] = <<>>
    BY <1>1, <1>3
  <2>3. ASSUME NEW i \in 1..n PROVE g[i] = g[i - 1] \o ss[i]
    <3>1. i \in 1..n+1 /\ i \in 0..n /\ i - 1 \in 0..n
      BY <1>1
    <3>2. g[i] = f[i] /\ g[i - 1] = f[i - 1]
      BY <3>1
    <3> HIDE DEF g, n
    <3>3. QED
      BY <1>1, <1>3, <3>1, <3>2
  <2> HIDE DEF g
  <2>4. QED
    BY <2>1, <2>2, <2>3 DEF Strung
<1>5. FlattenSeq(ss) = g[n] /\ FlattenSeq(ss) \in Seq(E)
  <2> HIDE DEF g
  <2>1. QED
    BY <1>4, StrungIs
<1>6. g[n] = f[n]
  BY <1>1
<1>7. FlattenSeq(tt) = f[n + 1]
  BY <1>1, <1>2, StrungIs
<1>8. f[n + 1] = f[n] \o s
  <2> HIDE DEF n
  <2>1. n + 1 \in 1..n+1 /\ (n + 1) - 1 = n
    BY <1>1
  <2>2. QED
    BY <1>1, <1>3, <2>1
<1>9. QED
  BY <1>5, <1>6, <1>7, <1>8 DEF tt

(* Induction over the parts of a sequence from the left.                   *)
Part(ss, i) == [j \in 1..i |-> ss[j]]

LEMMA Parts ==
  ASSUME NEW E, NEW ss \in Seq(E)
  PROVE  /\ Part(ss, 0) = <<>> /\ Part(ss, Len(ss)) = ss
         /\ \A i \in 1..Len(ss) : Part(ss, i) = Append(Part(ss, i - 1), ss[i])
         /\ \A i \in 0..Len(ss) : Part(ss, i) \in Seq(E) /\ Len(Part(ss, i)) = i
<1> DEFINE n == Len(ss)
<1>1. n \in Nat /\ \A i \in 1..n : ss[i] \in E
  OBVIOUS
<1>2. Part(ss, 0) = <<>>
  BY DEF Part
<1>3. ASSUME NEW i \in 0..n PROVE Part(ss, i) \in Seq(E) /\ Len(Part(ss, i)) = i
  BY <1>1 DEF Part
<1>4. ASSUME NEW i \in 1..n PROVE Part(ss, i) = Append(Part(ss, i - 1), ss[i])
  <2> DEFINE p == Part(ss, i - 1)  q == Part(ss, i)  r == Append(p, ss[i])
  <2>1. i - 1 \in 0..n /\ i \in 0..n
    BY <1>1
  <2>2. p \in Seq(E) /\ Len(p) = i - 1 /\ q \in Seq(E) /\ Len(q) = i
    BY <1>3, <2>1
  <2>3. \A j \in 1..i-1 : p[j] = ss[j]
    BY DEF Part
  <2>4. \A j \in 1..i : q[j] = ss[j]
    BY DEF Part
  <2> HIDE DEF p, q
  <2>5. r \in Seq(E) /\ Len(r) = i /\ r[i] = ss[i] /\ \A j \in 1..i-1 : r[j] = p[j]
    BY <1>1, <2>2
  <2> HIDE DEF r
  <2>6. \A j \in 1..i : q[j] = r[j]
    <3>1. \A j \in 1..i : j = i \/ j \in 1..i-1
      BY <1>1
    <3>2. QED
      BY <2>3, <2>4, <2>5, <3>1
  <2>7. q = r
    BY <2>2, <2>5, <2>6, SeqEqual
  <2>8. QED
    BY <2>7 DEF p, q, r
<1>5. Part(ss, n) = ss
  <2>1. n \in 0..n
    BY <1>1
  <2> DEFINE q == Part(ss, n)
  <2>2. q \in Seq(E) /\ Len(q) = Len(ss)
    BY <1>3, <2>1
  <2>3. \A j \in 1..Len(q) : q[j] = ss[j]
    BY <2>2 DEF Part
  <2> HIDE DEF q, n
  <2>4. q = ss
    BY <2>2, <2>3, SeqEqual
  <2>5. QED
    BY <2>4 DEF q, n
<1>6. QED
  BY <1>2, <1>3, <1>4, <1>5

-----------------------------------------------------------------------------
(* Words: what has been read after each byte of a line.                    *)

Reading == [words : Seq(String), word : String]
AddTo(words, word) == IF word = NoWord THEN words ELSE Append(words, word)
ReadByte(r, byte, separator) ==
  IF byte = separator THEN [words |-> AddTo(r.words, r.word), word |-> NoWord]
  ELSE [r EXCEPT !.word = Append(@, byte)]

Readings(line, separator) ==
  {f \in [0..Len(line) -> Reading] :
     /\ f[0] = [words |-> <<>>, word |-> NoWord]
     /\ \A i \in 1..Len(line) : f[i] = ReadByte(f[i - 1], line[i], separator)}

LEMMA AddToTyped ==
  ASSUME NEW words \in Seq(String), NEW word \in String
  PROVE  AddTo(words, word) \in Seq(String)
BY DEF AddTo

LEMMA ReadByteTyped ==
  ASSUME NEW r \in Reading, NEW byte \in 0..255, NEW separator
  PROVE  ReadByte(r, byte, separator) \in Reading
<1>1. r.words \in Seq(String) /\ r.word \in String
  BY DEF Reading
<1>2. AddTo(r.words, r.word) \in Seq(String)
  BY <1>1, AddToTyped
<1>3. NoWord \in String
  BY DEF NoWord, String
<1>4. Append(r.word, byte) \in String
  BY <1>1 DEF String
<1>5. QED
  BY <1>1, <1>2, <1>3, <1>4 DEF Reading, ReadByte

LEMMA ReadingsExist ==
  ASSUME NEW line \in String, NEW separator
  PROVE  Readings(line, separator) # {}
<1> DEFINE n == Len(line)  V == Reading
           step == [i \in 1..n |-> [v \in V |-> ReadByte(v, line[i], separator)]]
           base == [words |-> <<>>, word |-> NoWord]
<1>1. n \in Nat /\ \A i \in 1..n : line[i] \in 0..255
  BY StringFacts
<1>2. base \in V
  BY DEF Reading, NoWord, String
<1>3. ASSUME NEW i \in 1..n PROVE step[i] \in [V -> V]
  <2>1. line[i] \in 0..255
    BY <1>1
  <2>2. \A v \in V : ReadByte(v, line[i], separator) \in V
    BY <2>1, ReadByteTyped
  <2>3. QED
    BY <2>2
<1>4. step \in [1..n -> [V -> V]]
  BY <1>3
<1> HIDE DEF V, base, step
<1>5. Along(V, n, base, step) # {}
  BY <1>1, <1>2, <1>4, FoldExists
<1>6. PICK f \in [0..n -> V] : f[0] = base /\ \A i \in 1..n : f[i] = step[i][f[i - 1]]
  BY <1>5 DEF Along
<1>7. ASSUME NEW i \in 1..n PROVE f[i] = ReadByte(f[i - 1], line[i], separator)
  <2>1. i - 1 \in 0..n
    BY <1>1
  <2>2. f[i - 1] \in V
    BY <2>1
  <2>3. QED
    BY <1>6, <2>2 DEF step
<1>8. f \in Readings(line, separator)
  BY <1>6, <1>7 DEF Readings, V, base
<1>9. QED
  BY <1>8

LEMMA ReadingsAre ==
  ASSUME NEW line \in String, NEW separator, NEW f \in Readings(line, separator)
  PROVE  /\ Words(line, separator) = AddTo(f[Len(line)].words, f[Len(line)].word)
         /\ Words(line, separator) \in Seq(String)
<1> DEFINE n == Len(line)
           start == [words |-> <<>>, word |-> NoWord]
           Is(h) == h = [i \in 0..n |-> IF i = 0 THEN start
                                        ELSE ReadByte(h[i - 1], line[i], separator)]
           upto == CHOOSE h : Is(h)
<1>1. n \in Nat
  BY StringFacts
<1>2. /\ f \in [0..n -> Reading] /\ f[0] = start
      /\ \A i \in 1..n : f[i] = ReadByte(f[i - 1], line[i], separator)
  BY DEF Readings
<1>3. Is(f)
  <2>1. \A i \in 0..n : i = 0 \/ i \in 1..n
    BY <1>1
  <2> HIDE DEF n, start
  <2>2. QED
    BY <1>2, <2>1
<1>4. Is(upto)
  BY <1>3
<1>5. Words(line, separator) = AddTo(upto[n].words, upto[n].word)
  BY DEF Words, AddTo, ReadByte
<1> HIDE DEF upto, n, start
<1>6. upto[0] = start /\ \A i \in 1..n : upto[i] = ReadByte(upto[i - 1], line[i], separator)
  <2>1. 0 \in 0..n /\ \A i \in 1..n : i \in 0..n /\ i # 0
    BY <1>1
  <2>2. QED
    BY <1>4, <2>1
<1> DEFINE T == {i \in 0..n : upto[i] = f[i]}
<1>7. 0 \in T
  BY <1>1, <1>2, <1>6
<1>8. ASSUME NEW i \in 1..n, i - 1 \in T PROVE i \in T
  <2>1. i \in 0..n
    BY <1>1
  <2>2. QED
    BY <1>2, <1>6, <1>8, <2>1
<1>9. 0..n \subseteq T
  <2> HIDE DEF T
  <2>1. QED
    BY <1>1, <1>7, <1>8, UpInduction
<1>10. upto[n] = f[n] /\ f[n] \in Reading
  <2>1. n \in 0..n
    BY <1>1
  <2>2. QED
    BY <1>2, <1>9, <2>1
<1>11. f[n].words \in Seq(String) /\ f[n].word \in String
  BY <1>10 DEF Reading
<1>12. AddTo(f[n].words, f[n].word) \in Seq(String)
  BY <1>11, AddToTyped
<1>13. QED
  BY <1>5, <1>10, <1>12 DEF n

LEMMA WordsTyped ==
  ASSUME NEW line \in String, NEW separator
  PROVE  Words(line, separator) \in Seq(String)
BY ReadingsExist, ReadingsAre

(* What is read after more words have been read before.                    *)
LEMMA AddToAfter ==
  ASSUME NEW before \in Seq(String), NEW words \in Seq(String), NEW word \in String
  PROVE  AddTo(before \o words, word) = before \o AddTo(words, word)
<1>1. Append(before \o words, word) = before \o Append(words, word)
  BY AppendFacts
<1>2. CASE word = NoWord
  BY <1>2 DEF AddTo
<1>3. CASE word # NoWord
  BY <1>1, <1>3 DEF AddTo
<1>4. QED
  BY <1>2, <1>3

LEMMA ReadLetter ==
  ASSUME NEW words, NEW word, NEW byte, NEW separator, byte # separator
  PROVE  ReadByte([words |-> words, word |-> word], byte, separator) =
           [words |-> words, word |-> Append(word, byte)]
BY DEF ReadByte

LEMMA ReadSeparator ==
  ASSUME NEW words, NEW word, NEW separator
  PROVE  ReadByte([words |-> words, word |-> word], separator, separator) =
           [words |-> AddTo(words, word), word |-> NoWord]
BY DEF ReadByte

(* The words on both sides of a separator.                                 *)
LEMMA WordsCut ==
  ASSUME NEW left \in String, NEW right \in String, NEW separator \in 0..255
  PROVE  Words(left \o <<separator>> \o right, separator) =
           Words(left, separator) \o Words(right, separator)
<1> DEFINE m == Len(left)  n == Len(right)  all == left \o <<separator>> \o right
           before == Words(left, separator)
<1>1. m \in Nat /\ n \in Nat
  BY StringFacts
<1>2. /\ all \in String /\ Len(all) = m + 1 + n
      /\ \A i \in 1..m : all[i] = left[i]
      /\ all[m + 1] = separator
      /\ \A i \in 1..n : all[m + 1 + i] = right[i]
  <2> DEFINE mid == <<separator>>  front == left \o mid
  <2>1. mid \in String /\ Len(mid) = 1 /\ mid[1] = separator
    BY DEF String
  <2> HIDE DEF mid
  <2>2. /\ front \in String /\ Len(front) = m + 1
        /\ \A i \in 1..m : front[i] = left[i]
        /\ front[m + 1] = separator
    <3>1. /\ front \in String /\ Len(front) = m + Len(mid)
          /\ \A i \in 1..m : front[i] = left[i]
          /\ \A i \in 1..Len(mid) : front[m + i] = mid[i]
      BY <2>1, ConcatString
    <3> HIDE DEF front, m
    <3>2. 1 \in 1..Len(mid)
      BY <2>1
    <3>3. QED
      BY <2>1, <3>1, <3>2
  <2> DEFINE whole == front \o right
  <2> HIDE DEF front
  <2>3. /\ whole \in String /\ Len(whole) = m + 1 + n
        /\ \A i \in 1..m+1 : whole[i] = front[i]
        /\ \A i \in 1..n : whole[m + 1 + i] = right[i]
    <3>1. /\ whole \in String /\ Len(whole) = Len(front) + n
          /\ \A i \in 1..Len(front) : whole[i] = front[i]
          /\ \A i \in 1..n : whole[Len(front) + i] = right[i]
      BY <2>2, ConcatString
    <3> HIDE DEF whole, n, m
    <3>2. QED
      BY <2>2, <3>1
  <2>4. (\A i \in 1..m : i \in 1..m+1) /\ m + 1 \in 1..m+1
    BY <1>1
  <2> HIDE DEF whole, m, n
  <2>5. (\A i \in 1..m : whole[i] = left[i]) /\ whole[m + 1] = separator
    BY <2>2, <2>3, <2>4
  <2>6. QED
    BY <2>3, <2>5 DEF whole, front, mid
<1>3. before \in Seq(String)
  BY WordsTyped
<1>4. PICK f : f \in Readings(all, separator)
  BY <1>2, ReadingsExist
<1>5. PICK g : g \in Readings(right, separator)
  BY ReadingsExist
<1>6. Words(all, separator) = AddTo(f[Len(all)].words, f[Len(all)].word)
  <2> HIDE DEF all
  <2>1. QED
    BY <1>2, <1>4, ReadingsAre
<1>7. Words(right, separator) = AddTo(g[n].words, g[n].word)
  BY <1>5, ReadingsAre
<1> HIDE DEF all
<1>8. /\ f \in [0..m+1+n -> Reading] /\ f[0] = [words |-> <<>>, word |-> NoWord]
      /\ \A i \in 1..m+1+n : f[i] = ReadByte(f[i - 1], all[i], separator)
  BY <1>2, <1>4 DEF Readings
<1>9. /\ g \in [0..n -> Reading] /\ g[0] = [words |-> <<>>, word |-> NoWord]
      /\ \A i \in 1..n : g[i] = ReadByte(g[i - 1], right[i], separator)
  BY <1>5 DEF Readings
<1> DEFINE h == [i \in 0..m |-> f[i]]
<1>10. h \in Readings(left, separator)
  <2>1. \A i \in 0..m : i \in 0..m+1+n
    BY <1>1
  <2>2. h \in [0..m -> Reading]
    BY <1>8, <2>1
  <2>3. h[0] = [words |-> <<>>, word |-> NoWord]
    BY <1>1, <1>8
  <2>4. ASSUME NEW i \in 1..m PROVE h[i] = ReadByte(h[i - 1], left[i], separator)
    <3>1. i \in 0..m /\ i - 1 \in 0..m /\ i \in 1..m+1+n
      BY <1>1
    <3>2. h[i] = f[i] /\ h[i - 1] = f[i - 1]
      BY <3>1
    <3> HIDE DEF h, m, n
    <3>3. QED
      BY <1>2, <1>8, <3>1, <3>2
  <2> HIDE DEF h
  <2>5. QED
    BY <2>2, <2>3, <2>4 DEF Readings
<1>11. before = AddTo(f[m].words, f[m].word)
  <2>1. h[m] = f[m]
    BY <1>1
  <2> HIDE DEF h
  <2>2. before = AddTo(h[m].words, h[m].word)
    BY <1>10, ReadingsAre
  <2>3. QED
    BY <2>1, <2>2
<1> HIDE DEF before, m, n, h
<1>12. f[m + 1] = [words |-> before, word |-> NoWord]
  <2>1. m + 1 \in 1..m+1+n /\ (m + 1) - 1 = m
    BY <1>1
  <2>2. f[m + 1] = ReadByte(f[m], separator, separator)
    BY <1>2, <1>8, <2>1
  <2>3. QED
    BY <1>11, <2>2 DEF ReadByte
<1> DEFINE T == {i \in 0..n : f[m + 1 + i] = [words |-> before \o g[i].words, word |-> g[i].word]}
<1>13. 0 \in T
  <2>1. before \o <<>> = before
    BY <1>3, ConcatEmptySeq
  <2>2. m + 1 + 0 = m + 1 /\ 0 \in 0..n
    BY <1>1
  <2>3. f[m + 1 + 0] = [words |-> before \o g[0].words, word |-> g[0].word]
    BY <1>9, <1>12, <2>1, <2>2
  <2>4. QED
    BY <2>2, <2>3
<1>14. ASSUME NEW i \in 1..n, i - 1 \in T PROVE i \in T
  <2> DEFINE r == g[i - 1]
  <2>1. /\ i \in 0..n /\ i - 1 \in 0..n /\ m + 1 + i \in 1..m+1+n
        /\ (m + 1 + i) - 1 = m + 1 + (i - 1)
    BY <1>1
  <2>2. r \in Reading
    BY <1>9, <2>1
  <2>3. f[m + 1 + (i - 1)] = [words |-> before \o r.words, word |-> r.word]
    BY <1>14
  <2>4. g[i] = ReadByte(r, right[i], separator)
    BY <1>9
  <2> HIDE DEF r
  <2>5. f[m + 1 + i] = ReadByte(f[m + 1 + (i - 1)], right[i], separator)
    BY <1>2, <1>8, <2>1
  <2>6. r.words \in Seq(String) /\ r.word \in String /\ r = [words |-> r.words, word |-> r.word]
    BY <2>2 DEF Reading
  <2>7. AddTo(before \o r.words, r.word) = before \o AddTo(r.words, r.word)
    BY <1>3, <2>6, AddToAfter
  <2>8. CASE right[i] = separator
    <3>1. g[i] = [words |-> AddTo(r.words, r.word), word |-> NoWord]
      <4>1. ReadByte([words |-> r.words, word |-> r.word], separator, separator) =
              [words |-> AddTo(r.words, r.word), word |-> NoWord]
        BY ReadSeparator
      <4>2. QED
        BY <2>4, <2>6, <2>8, <4>1
    <3>2. f[m + 1 + i] = [words |-> AddTo(before \o r.words, r.word), word |-> NoWord]
      <4>1. ReadByte([words |-> before \o r.words, word |-> r.word], separator, separator) =
              [words |-> AddTo(before \o r.words, r.word), word |-> NoWord]
        BY ReadSeparator
      <4>2. QED
        BY <2>3, <2>5, <2>8, <4>1
    <3>3. g[i].words = AddTo(r.words, r.word) /\ g[i].word = NoWord
      BY <3>1
    <3>4. f[m + 1 + i] = [words |-> before \o g[i].words, word |-> g[i].word]
      BY <2>7, <3>2, <3>3
    <3>5. QED
      BY <2>1, <3>4
  <2>9. CASE right[i] # separator
    <3>1. g[i] = [words |-> r.words, word |-> Append(r.word, right[i])]
      <4>1. ReadByte([words |-> r.words, word |-> r.word], right[i], separator) =
              [words |-> r.words, word |-> Append(r.word, right[i])]
        BY <2>9, ReadLetter
      <4>2. QED
        BY <2>4, <2>6, <4>1
    <3>2. f[m + 1 + i] = [words |-> before \o r.words, word |-> Append(r.word, right[i])]
      <4>1. ReadByte([words |-> before \o r.words, word |-> r.word], right[i], separator) =
              [words |-> before \o r.words, word |-> Append(r.word, right[i])]
        BY <2>9, ReadLetter
      <4>2. QED
        BY <2>3, <2>5, <4>1
    <3>3. g[i].words = r.words /\ g[i].word = Append(r.word, right[i])
      BY <3>1
    <3>4. f[m + 1 + i] = [words |-> before \o g[i].words, word |-> g[i].word]
      BY <3>2, <3>3
    <3>5. QED
      BY <2>1, <3>4
  <2>10. QED
    BY <2>8, <2>9
<1>15. 0..n \subseteq T
  <2> HIDE DEF T
  <2>1. QED
    BY <1>1, <1>13, <1>14, UpInduction
<1>16. f[m + 1 + n] = [words |-> before \o g[n].words, word |-> g[n].word]
  <2>1. n \in 0..n
    BY <1>1
  <2>2. QED
    BY <1>15, <2>1
<1>17. AddTo(before \o g[n].words, g[n].word) = before \o AddTo(g[n].words, g[n].word)
  <2>1. n \in 0..n
    BY <1>1
  <2>2. g[n].words \in Seq(String) /\ g[n].word \in String
    BY <1>9, <2>1 DEF Reading
  <2>3. QED
    BY <1>3, <2>2, AddToAfter
<1>18. Len(all) = m + 1 + n
  BY <1>2
<1>19. Words(all, separator) = before \o Words(right, separator)
  <2>1. f[Len(all)].words = before \o g[n].words /\ f[Len(all)].word = g[n].word
    BY <1>16, <1>18
  <2>2. QED
    BY <1>6, <1>7, <1>17, <2>1
<1>20. QED
  BY <1>19 DEF all, before

(* A word without separators is read as it is.                             *)
LEMMA WordsOne ==
  ASSUME NEW word \in String, NEW separator, \A i \in 1..Len(word) : word[i] # separator
  PROVE  Words(word, separator) = IF word = NoWord THEN <<>> ELSE <<word>>
<1> DEFINE n == Len(word)
<1>1. n \in Nat
  BY StringFacts
<1>2. PICK f : f \in Readings(word, separator)
  BY ReadingsExist
<1>3. Words(word, separator) = AddTo(f[n].words, f[n].word)
  BY <1>2, ReadingsAre
<1>4. /\ f \in [0..n -> Reading] /\ f[0] = [words |-> <<>>, word |-> NoWord]
      /\ \A i \in 1..n : f[i] = ReadByte(f[i - 1], word[i], separator)
  BY <1>2 DEF Readings
<1>5. /\ Part(word, 0) = <<>> /\ Part(word, n) = word
      /\ \A i \in 1..n : Part(word, i) = Append(Part(word, i - 1), word[i])
  BY Parts DEF String
<1> DEFINE T == {i \in 0..n : f[i] = [words |-> <<>>, word |-> Part(word, i)]}
<1> HIDE DEF n
<1>6. 0 \in T
  BY <1>1, <1>4, <1>5 DEF NoWord
<1>7. ASSUME NEW i \in 1..n, i - 1 \in T PROVE i \in T
  <2>1. i \in 0..n
    BY <1>1
  <2>2. f[i] = ReadByte(f[i - 1], word[i], separator) /\ word[i] # separator
    BY <1>4 DEF n
  <2>3. f[i - 1] = [words |-> <<>>, word |-> Part(word, i - 1)]
    BY <1>7
  <2>4. f[i] = [words |-> <<>>, word |-> Append(Part(word, i - 1), word[i])]
    <3>1. ReadByte([words |-> <<>>, word |-> Part(word, i - 1)], word[i], separator) =
            [words |-> <<>>, word |-> Append(Part(word, i - 1), word[i])]
      BY <2>2, ReadLetter
    <3>2. QED
      BY <2>2, <2>3, <3>1
  <2>5. QED
    BY <1>5, <2>1, <2>4
<1>8. 0..n \subseteq T
  <2> HIDE DEF T
  <2>1. QED
    BY <1>1, <1>6, <1>7, UpInduction
<1>9. f[n] = [words |-> <<>>, word |-> word]
  <2>1. n \in 0..n
    BY <1>1
  <2>2. QED
    BY <1>5, <1>8, <2>1
<1>10. Append(<<>>, word) = <<word>>
  OBVIOUS
<1>11. QED
  BY <1>3, <1>9, <1>10 DEF AddTo

(* Lines without the byte. What is read of one, and what is read between      *)
(* separators, is without it.                                                *)
Without(byte) == {s \in String : \A i \in 1..Len(s) : s[i] # byte}

LEMMA WithoutAppend ==
  ASSUME NEW byte, NEW s \in Without(byte), NEW b1 \in 0..255, b1 # byte
  PROVE  Append(s, b1) \in Without(byte)
<1> DEFINE t == Append(s, b1)
<1>1. s \in String /\ \A k \in 1..Len(s) : s[k] # byte
  BY DEF Without
<1>2. /\ t \in String /\ Len(t) = Len(s) + 1 /\ t[Len(s) + 1] = b1 /\ Len(s) \in Nat
      /\ \A k \in 1..Len(s) : t[k] = s[k]
  BY <1>1 DEF String
<1> HIDE DEF t
<1>3. ASSUME NEW k \in 1..Len(t) PROVE t[k] # byte
  <2>1. k \in 1..Len(s) \/ k = Len(s) + 1
    BY <1>2
  <2>2. QED
    BY <1>1, <1>2, <2>1
<1>4. t \in Without(byte)
  BY <1>2, <1>3 DEF Without
<1>5. QED
  BY <1>4 DEF t

LEMMA WordsWithout ==
  ASSUME NEW line \in String, NEW separator, NEW byte,
         byte = separator \/ \A i \in 1..Len(line) : line[i] # byte
  PROVE  Words(line, separator) \in Seq(Without(byte))
<1> DEFINE n == Len(line)  W == Without(byte)
<1>1. n \in Nat /\ \A i \in 1..n : line[i] \in 0..255
  BY StringFacts
<1>2. PICK f : f \in Readings(line, separator)
  BY ReadingsExist
<1>3. Words(line, separator) = AddTo(f[n].words, f[n].word)
  BY <1>2, ReadingsAre
<1>4. /\ f \in [0..n -> Reading] /\ f[0] = [words |-> <<>>, word |-> NoWord]
      /\ \A i \in 1..n : f[i] = ReadByte(f[i - 1], line[i], separator)
  BY <1>2 DEF Readings
<1>5. <<>> \in W /\ NoWord = <<>>
  BY DEF Without, String, NoWord
<1>6. ASSUME NEW words \in Seq(W), NEW word \in W PROVE AddTo(words, word) \in Seq(W)
  <2> HIDE DEF W
  <2>1. QED
    BY <1>6 DEF AddTo
<1> DEFINE T == {i \in 0..n : f[i].words \in Seq(W) /\ f[i].word \in W}
<1>7. 0 \in T
  <2>1. f[0].words = <<>> /\ f[0].word = <<>>
    BY <1>4, <1>5
  <2> HIDE DEF W, n
  <2>2. <<>> \in Seq(W) /\ 0 \in 0..n
    BY <1>1
  <2>3. QED
    BY <1>5, <2>1, <2>2
<1>8. ASSUME NEW i \in 1..n, i - 1 \in T PROVE i \in T
  <2> DEFINE r == f[i - 1]
  <2>1. i \in 0..n /\ i - 1 \in 0..n
    BY <1>1
  <2>2. r \in Reading /\ r.words \in Seq(W) /\ r.word \in W
    BY <1>4, <1>8, <2>1
  <2>3. f[i] = ReadByte(r, line[i], separator)
    BY <1>4
  <2> HIDE DEF r
  <2>4. CASE line[i] = separator
    <3>1. f[i] = [words |-> AddTo(r.words, r.word), word |-> NoWord]
      BY <2>3, <2>4 DEF ReadByte
    <3>2. AddTo(r.words, r.word) \in Seq(W)
      BY <1>6, <2>2
    <3>3. QED
      BY <1>5, <2>1, <3>1, <3>2
  <2>5. CASE line[i] # separator
    <3>1. f[i] = [r EXCEPT !.word = Append(@, line[i])]
      BY <2>3, <2>5 DEF ReadByte
    <3>2. f[i].words = r.words /\ f[i].word = Append(r.word, line[i])
      BY <2>2, <3>1 DEF Reading
    <3>3. line[i] \in 0..255 /\ line[i] # byte
      BY <1>1, <2>5
    <3>4. Append(r.word, line[i]) \in W
      BY <2>2, <3>3, WithoutAppend
    <3>5. QED
      BY <2>1, <2>2, <3>2, <3>4
  <2>6. QED
    BY <2>4, <2>5
<1>9. 0..n \subseteq T
  <2> HIDE DEF T
  <2>1. QED
    BY <1>1, <1>7, <1>8, UpInduction
<1>10. f[n].words \in Seq(W) /\ f[n].word \in W
  <2>1. n \in 0..n
    BY <1>1
  <2>2. QED
    BY <1>9, <2>1
<1>11. QED
  BY <1>3, <1>6, <1>10

(* What Join writes, one word at a time.                                   *)
Marked(words, separator) == [i \in DOMAIN words |-> <<separator>> \o words[i]]

LEMMA MarkedTyped ==
  ASSUME NEW words \in Seq(String), NEW word \in String, NEW separator \in 0..255
  PROVE  /\ Marked(words, separator) \in Seq(String)
         /\ Marked(Append(words, word), separator) =
              Append(Marked(words, separator), <<separator>> \o word)
         /\ <<separator>> \o word \in String
<1> DEFINE n == Len(words)  more == Append(words, word)  mark == <<separator>>
<1>1. mark \in String
  BY DEF String
<1> HIDE DEF mark
<1>2. \A w \in String : mark \o w \in String
  BY <1>1, ConcatString
<1>3. /\ n \in Nat /\ DOMAIN words = 1..n /\ DOMAIN more = 1..n+1 /\ more[n + 1] = word
      /\ \A i \in 1..n : words[i] \in String /\ more[i] = words[i]
  OBVIOUS
<1> DEFINE p == Marked(words, separator)  q == Marked(more, separator)
           r == Append(p, mark \o word)
<1>4. p = [i \in 1..n |-> mark \o words[i]] /\ q = [i \in 1..n+1 |-> mark \o more[i]]
  BY <1>3 DEF Marked, mark
<1> HIDE DEF n, more
<1>5. /\ p \in Seq(String) /\ Len(p) = n /\ \A i \in 1..n : p[i] = mark \o words[i]
  <2> HIDE DEF p
  <2>1. p \in [1..n -> String]
    BY <1>2, <1>3, <1>4
  <2>2. p \in Seq(String) /\ Len(p) = n
    BY <1>3, <2>1
  <2>3. \A i \in 1..n : p[i] = mark \o words[i]
    BY <1>4
  <2>4. QED
    BY <2>2, <2>3
<1>6. /\ q \in Seq(String) /\ Len(q) = n + 1 /\ \A i \in 1..n+1 : q[i] = mark \o more[i]
  <2> HIDE DEF q
  <2>1. \A i \in 1..n+1 : more[i] \in String
    <3>1. \A i \in 1..n+1 : i \in 1..n \/ i = n + 1
      BY <1>3
    <3>2. QED
      BY <1>3, <3>1
  <2>2. q \in [1..n+1 -> String]
    BY <1>2, <1>4, <2>1
  <2>3. n + 1 \in Nat
    BY <1>3
  <2> DEFINE N == n + 1
  <2>4. N \in Nat /\ q \in [1..N -> String]
    BY <2>2, <2>3
  <2> HIDE DEF N
  <2>5. q \in Seq(String) /\ Len(q) = N
    BY <2>4
  <2>6. \A i \in 1..n+1 : q[i] = mark \o more[i]
    BY <1>4
  <2>7. QED
    BY <2>5, <2>6 DEF N
<1> HIDE DEF p, q
<1>7. /\ r \in Seq(String) /\ Len(r) = n + 1 /\ r[n + 1] = mark \o word
      /\ \A i \in 1..n : r[i] = p[i]
  <2> DEFINE w == mark \o word
  <2>1. w \in String
    BY <1>2
  <2> HIDE DEF w
  <2>2. /\ Append(p, w) \in Seq(String) /\ Len(Append(p, w)) = n + 1 /\ Append(p, w)[n + 1] = w
        /\ \A i \in 1..n : Append(p, w)[i] = p[i]
    BY <1>3, <1>5, <2>1
  <2>3. QED
    BY <2>2 DEF w
<1> HIDE DEF r
<1>8. ASSUME NEW i \in 1..n+1 PROVE q[i] = r[i]
  <2>1. q[i] = mark \o more[i]
    BY <1>6
  <2>2. CASE i \in 1..n
    BY <1>3, <1>5, <1>7, <2>1, <2>2
  <2>3. CASE i = n + 1
    BY <1>3, <1>7, <2>1, <2>3
  <2>4. QED
    BY <1>3, <2>2, <2>3
<1>9. q = r
  BY <1>6, <1>7, <1>8, SeqEqual
<1>10. QED
  BY <1>2, <1>5, <1>9 DEF p, q, r, more, mark

LEMMA FlattenString ==
  ASSUME NEW words \in Seq(String)
  PROVE  /\ FlattenSeq(words) \in String
         /\ \A word \in String : FlattenSeq(Append(words, word)) = FlattenSeq(words) \o word
BY FlattenOne DEF String

LEMMA TailOf ==
  ASSUME NEW s \in String, s # <<>>, NEW t \in String
  PROVE  Tail(s) \in String /\ Tail(s \o t) = Tail(s) \o t
<1>1. Len(s) \in Nat /\ Len(t) \in Nat /\ Len(s) > 0
  BY StringFacts DEF String
<1> DEFINE u == s \o t  p == Tail(u)  q == Tail(s) \o t
<1>2. /\ u \in String /\ Len(u) = Len(s) + Len(t)
      /\ \A i \in 1..Len(s) : u[i] = s[i]
      /\ \A i \in 1..Len(t) : u[Len(s) + i] = t[i]
  BY ConcatString
<1>3. Tail(s) \in String /\ Len(Tail(s)) = Len(s) - 1 /\ \A i \in 1..Len(s)-1 : Tail(s)[i] = s[i + 1]
  BY HeadTailProperties DEF String
<1> HIDE DEF u
<1>4. u # <<>>
  BY <1>1, <1>2
<1>5. p \in String /\ Len(p) = Len(u) - 1 /\ \A i \in 1..Len(u)-1 : p[i] = u[i + 1]
  BY <1>2, <1>4, HeadTailProperties DEF String
<1> DEFINE v == Tail(s)
<1> HIDE DEF v
<1>6. /\ q \in String /\ Len(q) = Len(v) + Len(t)
      /\ \A i \in 1..Len(v) : q[i] = v[i]
      /\ \A i \in 1..Len(t) : q[Len(v) + i] = t[i]
  BY <1>3, ConcatString DEF v
<1> HIDE DEF p, q
<1>7. Len(p) = Len(q)
  BY <1>1, <1>2, <1>3, <1>5, <1>6 DEF v
<1>8. ASSUME NEW i \in 1..Len(p) PROVE p[i] = q[i]
  <2>1. p[i] = u[i + 1]
    BY <1>5
  <2>2. CASE i < Len(s)
    <3>1. i \in 1..Len(s)-1 /\ i + 1 \in 1..Len(s) /\ i \in 1..Len(v)
      BY <1>1, <1>3, <2>2 DEF v
    <3>2. QED
      BY <1>2, <1>3, <1>6, <2>1, <3>1 DEF v
  <2>3. CASE i >= Len(s)
    <3> DEFINE k == i - Len(v)
    <3>1. k \in 1..Len(t) /\ i = Len(v) + k /\ i + 1 = Len(s) + k
      BY <1>1, <1>2, <1>3, <1>5, <2>3 DEF v
    <3> HIDE DEF k
    <3>2. QED
      BY <1>2, <1>6, <2>1, <3>1
  <2>4. QED
    BY <1>1, <2>2, <2>3
<1>9. p = q
  BY <1>5, <1>6, <1>7, <1>8, StringEqual
<1>10. QED
  BY <1>3, <1>9 DEF p, q, u

Beyond(words, word, separator) == Join(words, separator) \o <<separator>> \o word

LEMMA JoinMore ==
  ASSUME NEW words \in Seq(String), NEW word \in String, NEW separator \in 0..255
  PROVE  /\ Join(<<>>, separator) = <<>>
         /\ Join(words, separator) \in String
         /\ words = <<>> => Join(Append(words, word), separator) = word
         /\ words # <<>> => Join(Append(words, word), separator) = Beyond(words, word, separator)
<1> DEFINE mark == <<separator>>  flat == FlattenSeq(Marked(words, separator))
           more == Append(words, word)
<1>1. mark \in String /\ mark \o word \in String /\ mark # <<>>
  <2>1. mark \in String /\ mark # <<>>
    BY DEF String
  <2>2. mark \o word \in String
    BY MarkedTyped
  <2>3. QED
    BY <2>1, <2>2
<1>2. Tail(mark \o word) = word
  <2>1. Tail(mark) = <<>>
    OBVIOUS
  <2> HIDE DEF mark
  <2>2. Tail(mark \o word) = <<>> \o word
    BY <1>1, <2>1, TailOf
  <2>3. QED
    BY <2>2, ConcatStrings
<1> HIDE DEF mark
<1>3. \A w \in String : mark \o w \in String /\ mark \o w # <<>>
  <2> TAKE w \in String
  <2>1. mark \o w \in String /\ Len(mark \o w) = Len(mark) + Len(w)
    BY <1>1, ConcatString
  <2>2. Len(mark) \in Nat /\ Len(mark) > 0 /\ Len(w) \in Nat
    BY <1>1, StringFacts DEF mark
  <2>3. Len(mark \o w) # 0
    BY <2>1, <2>2
  <2>4. QED
    BY <2>1, <2>3
<1>4. flat \in String /\ FlattenSeq(Marked(more, separator)) = flat \o (mark \o word)
  <2>1. Marked(words, separator) \in Seq(String)
    BY MarkedTyped
  <2>2. Marked(more, separator) = Append(Marked(words, separator), mark \o word)
    BY MarkedTyped DEF mark
  <2>3. QED
    BY <1>1, <2>1, <2>2, FlattenString
<1>5. /\ words = <<>> => flat = <<>>
      /\ words # <<>> => flat # <<>>
  <2>1. CASE words = <<>>
    <3>1. Marked(words, separator) = <<>>
      BY <2>1 DEF Marked
    <3>2. FlattenSeq(<<>>) = <<>>
      BY DEF FlattenSeq
    <3>3. QED
      BY <2>1, <3>1, <3>2
  <2>2. CASE words # <<>>
    <3> DEFINE n == Len(words)  front == Part(words, n - 1)  last == words[n]
    <3>1. n \in Nat /\ n # 0 /\ n \in 1..n /\ n - 1 \in 0..n /\ last \in String
      BY <2>2
    <3>2. words = Append(front, last) /\ front \in Seq(String)
      BY <3>1, Parts
    <3> HIDE DEF front, last, n
    <3>3. /\ Marked(front, separator) \in Seq(String)
          /\ Marked(words, separator) = Append(Marked(front, separator), mark \o last)
          /\ mark \o last \in String /\ mark \o last # <<>>
      BY <1>3, <3>1, <3>2, MarkedTyped DEF mark
    <3>4. /\ FlattenSeq(Marked(front, separator)) \in String
          /\ flat = FlattenSeq(Marked(front, separator)) \o (mark \o last)
      BY <3>3, FlattenString
    <3> DEFINE t == mark \o last  u == FlattenSeq(Marked(front, separator))
    <3> HIDE DEF t, u, flat
    <3>5. t \in String /\ t # <<>> /\ u \in String /\ flat = u \o t
      BY <3>3, <3>4 DEF t, u
    <3>6. Len(flat) = Len(u) + Len(t) /\ Len(u) \in Nat /\ Len(t) \in Nat /\ Len(t) # 0
      BY <3>5, ConcatString, StringFacts DEF String
    <3>7. Len(flat) # 0
      BY <3>6
    <3>8. QED
      BY <2>2, <3>7
  <2>3. QED
    BY <2>1, <2>2
<1>6. Join(<<>>, separator) = <<>>
  BY DEF Join, NoWord
<1>7. more # <<>> /\ Join(more, separator) = Tail(flat \o (mark \o word))
  <2>1. more # <<>>
    <3>1. Len(more) = Len(words) + 1 /\ Len(words) \in Nat
      OBVIOUS
    <3> HIDE DEF more
    <3>2. Len(more) # 0
      BY <3>1
    <3>3. QED
      BY <3>2
  <2> HIDE DEF more, flat
  <2>2. QED
    BY <1>4, <2>1 DEF Join, Marked
<1>8. CASE words = <<>>
  <2>1. <<>> \o (mark \o word) = mark \o word
    BY <1>1, ConcatStrings
  <2>2. Join(more, separator) = word
    BY <1>2, <1>5, <1>7, <1>8, <2>1
  <2>3. <<>> \in String
    BY DEF String
  <2>4. QED
    BY <1>6, <1>8, <2>2, <2>3
<1>9. CASE words # <<>>
  <2>1. Join(words, separator) = Tail(flat)
    BY <1>9 DEF Join, Marked
  <2> HIDE DEF flat, more
  <2>2. Tail(flat) \in String /\ Tail(flat \o (mark \o word)) = Tail(flat) \o (mark \o word)
    BY <1>1, <1>4, <1>5, <1>9, TailOf
  <2> DEFINE joined == Join(words, separator)
  <2>3. joined \in String /\ Join(more, separator) = joined \o (mark \o word)
    BY <1>7, <2>1, <2>2
  <2> HIDE DEF joined
  <2>4. (joined \o mark) \o word = joined \o (mark \o word)
    <3>1. Associates(joined, mark, word)
      BY <1>1, <2>3, StringsAssociate
    <3>2. QED
      BY <3>1 DEF Associates
  <2>5. QED
    BY <1>6, <1>9, <2>3, <2>4 DEF joined, mark, more, Beyond
<1>10. QED
  BY <1>8, <1>9

(* The words of several lines, one after the other.                        *)
Each(lines, separator) == [i \in DOMAIN lines |-> Words(lines[i], separator)]
AllWords(lines, separator) == FlattenSeq(Each(lines, separator))

LEMMA EachMore ==
  ASSUME NEW lines \in Seq(String), NEW line \in String, NEW separator
  PROVE  /\ Each(lines, separator) \in Seq(Seq(String))
         /\ Each(Append(lines, line), separator) =
              Append(Each(lines, separator), Words(line, separator))
<1> DEFINE n == Len(lines)  more == Append(lines, line)  W == Seq(String)
           p == Each(lines, separator)  q == Each(more, separator)  N == n + 1
           r == Append(p, Words(line, separator))
<1>1. \A w \in String : Words(w, separator) \in W
  BY WordsTyped
<1>2. /\ n \in Nat /\ DOMAIN lines = 1..n /\ DOMAIN more = 1..n+1 /\ more[n + 1] = line
      /\ \A i \in 1..n : lines[i] \in String /\ more[i] = lines[i]
  OBVIOUS
<1>3. N \in Nat /\ N = n + 1
  BY <1>2
<1> HIDE DEF N
<1>4. p = [i \in 1..n |-> Words(lines[i], separator)] /\ q = [i \in 1..N |-> Words(more[i], separator)]
  BY <1>2, <1>3 DEF Each
<1> HIDE DEF n, more, W, p, q
<1>5. p \in Seq(W) /\ Len(p) = n /\ \A i \in 1..n : p[i] = Words(lines[i], separator)
  <2>1. p \in [1..n -> W]
    BY <1>1, <1>2, <1>4
  <2>2. QED
    BY <1>2, <1>4, <2>1
<1>6. q \in Seq(W) /\ Len(q) = N /\ \A i \in 1..N : q[i] = Words(more[i], separator)
  <2>1. \A i \in 1..N : i \in 1..n \/ i = n + 1
    BY <1>2, <1>3
  <2>2. \A i \in 1..N : more[i] \in String
    BY <1>2, <2>1
  <2>3. q \in [1..N -> W]
    BY <1>1, <1>4, <2>2
  <2>4. QED
    BY <1>3, <1>4, <2>3
<1>7. /\ r \in Seq(W) /\ Len(r) = N /\ r[N] = Words(line, separator)
      /\ \A i \in 1..n : r[i] = p[i]
  <2> DEFINE w == Words(line, separator)
  <2>1. w \in W
    BY <1>1
  <2> HIDE DEF w
  <2>2. /\ Append(p, w) \in Seq(W) /\ Len(Append(p, w)) = N /\ Append(p, w)[N] = w
        /\ \A i \in 1..n : Append(p, w)[i] = p[i]
    BY <1>2, <1>3, <1>5, <2>1
  <2>3. QED
    BY <2>2 DEF w
<1> HIDE DEF r
<1>8. ASSUME NEW i \in 1..N PROVE q[i] = r[i]
  <2>1. i \in 1..n \/ i = N
    BY <1>2, <1>3
  <2>2. QED
    BY <1>2, <1>3, <1>5, <1>6, <1>7, <2>1
<1>9. q = r
  BY <1>6, <1>7, <1>8, SeqEqual
<1>10. QED
  BY <1>5, <1>9 DEF p, q, r, more, W

LEMMA AllWordsNone == ASSUME NEW separator PROVE AllWords(<<>>, separator) = <<>>
<1>1. Each(<<>>, separator) = <<>>
  BY DEF Each
<1>2. FlattenSeq(<<>>) = <<>>
  BY DEF FlattenSeq
<1>3. QED
  BY <1>1, <1>2 DEF AllWords

LEMMA AllWordsMore ==
  ASSUME NEW lines \in Seq(String), NEW line \in String, NEW separator
  PROVE  /\ AllWords(lines, separator) \in Seq(String)
         /\ AllWords(Append(lines, line), separator) =
              AllWords(lines, separator) \o Words(line, separator)
<1> DEFINE ss == Each(lines, separator)  s == Words(line, separator)
<1>1. ss \in Seq(Seq(String)) /\ s \in Seq(String)
  BY EachMore, WordsTyped
<1>2. Each(Append(lines, line), separator) = Append(ss, s)
  BY EachMore
<1> HIDE DEF ss, s
<1>3. FlattenSeq(ss) \in Seq(String) /\ FlattenSeq(Append(ss, s)) = FlattenSeq(ss) \o s
  BY <1>1, FlattenOne
<1>4. QED
  BY <1>2, <1>3 DEF AllWords, ss, s

LEMMA AllWordsTyped ==
  ASSUME NEW lines \in Seq(String), NEW separator
  PROVE  AllWords(lines, separator) \in Seq(String)
<1>1. <<>> \in String
  BY EmptySeq DEF String
<1>2. QED
  BY <1>1, AllWordsMore

LEMMA AllWordsTwo ==
  ASSUME NEW left \in Seq(String), NEW right \in Seq(String), NEW separator
  PROVE  AllWords(left \o right, separator) =
           AllWords(left, separator) \o AllWords(right, separator)
<1> DEFINE n == Len(right)  A == AllWords(left, separator)
           Is(i) == AllWords(left \o Part(right, i), separator) =
                      A \o AllWords(Part(right, i), separator)
           T == {i \in 0..n : Is(i)}
<1>1. n \in Nat /\ \A i \in 1..n : right[i] \in String
  OBVIOUS
<1>2. A \in Seq(String)
  BY AllWordsTyped
<1>3. /\ Part(right, 0) = <<>> /\ Part(right, n) = right
      /\ \A i \in 1..n : Part(right, i) = Append(Part(right, i - 1), right[i])
      /\ \A i \in 0..n : Part(right, i) \in Seq(String)
  BY Parts
<1> HIDE DEF A, n
<1>4. 0 \in T
  <2>1. left \o <<>> = left /\ A \o <<>> = A
    BY <1>2, ConcatEmptySeq
  <2>2. AllWords(<<>>, separator) = <<>>
    BY AllWordsNone
  <2>3. Is(0)
    BY <1>3, <2>1, <2>2 DEF A
  <2>4. 0 \in 0..n
    BY <1>1
  <2>5. QED
    BY <2>3, <2>4
<1>5. ASSUME NEW i \in 1..n, i - 1 \in T PROVE i \in T
  <2> DEFINE p == Part(right, i - 1)  w == right[i]  P == AllWords(p, separator)
             W == Words(w, separator)
  <2>1. i - 1 \in 0..n /\ i \in 0..n /\ w \in String
    BY <1>1
  <2>2. p \in Seq(String) /\ Part(right, i) = Append(p, w)
    BY <1>3, <2>1
  <2>3. AllWords(left \o p, separator) = A \o P
    BY <1>5
  <2> HIDE DEF p, w
  <2>4. AllWords(Append(p, w), separator) = P \o W /\ P \in Seq(String) /\ W \in Seq(String)
    BY <2>1, <2>2, AllWordsMore, WordsTyped
  <2>5. left \o p \in Seq(String) /\ left \o Append(p, w) = Append(left \o p, w)
    BY <2>1, <2>2, AppendFacts, ConcatProperties
  <2> DEFINE u == left \o p
  <2> HIDE DEF P, W, u
  <2>6. AllWords(Append(u, w), separator) = AllWords(u, separator) \o W
    BY <2>1, <2>5, AllWordsMore DEF u, W
  <2>7. (A \o P) \o W = A \o (P \o W)
    <3>1. A \in Seq(String) /\ P \in Seq(String) /\ W \in Seq(String)
      BY <1>2, <2>4 DEF W
    <3>2. QED
      <4>1. Associates(A, P, W)
        BY <3>1, ListsAssociate
      <4>2. QED
        BY <4>1 DEF Associates
  <2>8. Is(i)
    BY <2>2, <2>3, <2>4, <2>5, <2>6, <2>7 DEF u
  <2>9. QED
    BY <2>1, <2>8
<1>6. 0..n \subseteq T
  <2> HIDE DEF T
  <2>1. QED
    BY <1>1, <1>4, <1>5, UpInduction
<1>7. n \in 0..n
  BY <1>1
<1>8. Is(n)
  BY <1>6, <1>7
<1>9. QED
  BY <1>3, <1>8 DEF A

(* Joining lines with a separator keeps the words between separators.      *)
LEMMA JoinWords ==
  ASSUME NEW lines \in Seq(String), NEW separator \in 0..255
  PROVE  Words(Join(lines, separator), separator) = AllWords(lines, separator)
<1> DEFINE n == Len(lines)
           Is(i) == Words(Join(Part(lines, i), separator), separator) =
                      AllWords(Part(lines, i), separator)
           T == {i \in 0..n : Is(i)}
<1>1. n \in Nat /\ \A i \in 1..n : lines[i] \in String
  OBVIOUS
<1>2. /\ Part(lines, 0) = <<>> /\ Part(lines, n) = lines
      /\ \A i \in 1..n : Part(lines, i) = Append(Part(lines, i - 1), lines[i])
      /\ \A i \in 0..n : Part(lines, i) \in Seq(String)
  BY Parts
<1>3. <<>> \in String /\ <<>> \in Seq(String)
  BY DEF String
<1>4. /\ Join(<<>>, separator) = <<>> /\ AllWords(<<>>, separator) = <<>>
      /\ Words(<<>>, separator) = <<>>
  <2>1. Join(<<>>, separator) = <<>> /\ AllWords(<<>>, separator) = <<>>
    BY AllWordsNone DEF Join, NoWord
  <2>2. Words(<<>>, separator) = <<>>
    BY <1>3, WordsOne DEF NoWord
  <2>3. QED
    BY <2>1, <2>2
<1> HIDE DEF n
<1>5. 0 \in T
  <2>1. Is(0)
    BY <1>2, <1>4
  <2>2. 0 \in 0..n
    BY <1>1
  <2>3. QED
    BY <2>1, <2>2
<1>6. ASSUME NEW i \in 1..n, i - 1 \in T PROVE i \in T
  <2> DEFINE p == Part(lines, i - 1)  w == lines[i]  J == Join(p, separator)
             A == AllWords(p, separator)  W == Words(w, separator)
  <2>1. i - 1 \in 0..n /\ i \in 0..n /\ w \in String
    BY <1>1
  <2>2. p \in Seq(String) /\ Part(lines, i) = Append(p, w)
    BY <1>2, <2>1
  <2>3. Words(J, separator) = A
    BY <1>6
  <2> HIDE DEF p, w
  <2>4. /\ J \in String
        /\ p = <<>> => Join(Append(p, w), separator) = w
        /\ p # <<>> => Join(Append(p, w), separator) = J \o <<separator>> \o w
    <3>1. J \in String
      BY <2>1, <2>2, JoinMore
    <3>2. p = <<>> => Join(Append(p, w), separator) = w
      BY <2>1, <2>2, JoinMore
    <3>3. p # <<>> => Join(Append(p, w), separator) = J \o <<separator>> \o w
      <4>1. p # <<>> => Join(Append(p, w), separator) = Beyond(p, w, separator)
        BY <2>1, <2>2, JoinMore
      <4>2. QED
        BY <4>1 DEF Beyond
    <3>4. QED
      BY <3>1, <3>2, <3>3
  <2>5. AllWords(Append(p, w), separator) = A \o W /\ W \in Seq(String)
    BY <2>1, <2>2, AllWordsMore, WordsTyped
  <2>6. Words(J \o <<separator>> \o w, separator) = A \o W
    <3> HIDE DEF J, A
    <3>1. Words(J \o <<separator>> \o w, separator) = Words(J, separator) \o W
      BY <2>1, <2>4, WordsCut
    <3>2. QED
      BY <2>3, <3>1
  <2>7. p = <<>> => A \o W = W
    <3> HIDE DEF W
    <3>1. <<>> \o W = W
      BY <2>5, ConcatEmptySeq
    <3>2. QED
      BY <1>4, <3>1
  <2> HIDE DEF A, J
  <2>8. Words(Join(Append(p, w), separator), separator) = A \o W
    <3>1. CASE p = <<>>
      BY <2>4, <2>7, <3>1
    <3>2. CASE p # <<>>
      BY <2>4, <2>6, <3>2
    <3>3. QED
      BY <3>1, <3>2
  <2>9. Is(i)
    BY <2>2, <2>5, <2>8
  <2>10. QED
    BY <2>1, <2>9
<1>7. 0..n \subseteq T
  <2> HIDE DEF T
  <2>1. QED
    BY <1>1, <1>5, <1>6, UpInduction
<1>8. n \in 0..n
  BY <1>1
<1>9. Is(n)
  BY <1>7, <1>8
<1>10. QED
  BY <1>2, <1>9

(* Words have at least one byte.                                           *)
LEMMA WordsOfWords ==
  ASSUME NEW separator \in 0..255, NEW words \in Seq(Without(separator) \ {<<>>})
  PROVE  Words(Join(words, separator), separator) = words
<1> DEFINE n == Len(words)
           T == {i \in 0..n : AllWords(Part(words, i), separator) = Part(words, i)}
<1>1. n \in Nat /\ \A i \in 1..n : words[i] \in Without(separator) \ {<<>>}
  OBVIOUS
<1>2. words \in Seq(String)
  <2>1. Without(separator) \ {<<>>} \subseteq String
    BY DEF Without
  <2>2. QED
    BY <2>1, SeqMonotonic
<1>3. /\ Part(words, 0) = <<>> /\ Part(words, n) = words
      /\ \A i \in 1..n : Part(words, i) = Append(Part(words, i - 1), words[i])
      /\ \A i \in 0..n : Part(words, i) \in Seq(String)
  BY <1>2, Parts
<1> HIDE DEF n
<1>4. 0 \in T
  <2>1. AllWords(<<>>, separator) = <<>>
    BY AllWordsNone
  <2>2. 0 \in 0..n
    BY <1>1
  <2>3. QED
    BY <1>3, <2>1, <2>2
<1>5. ASSUME NEW i \in 1..n, i - 1 \in T PROVE i \in T
  <2> DEFINE p == Part(words, i - 1)  w == words[i]
  <2>1. i - 1 \in 0..n /\ i \in 0..n
    BY <1>1
  <2>2. p \in Seq(String) /\ Part(words, i) = Append(p, w) /\ AllWords(p, separator) = p
    BY <1>3, <1>5, <2>1
  <2>3. w \in String /\ w # <<>> /\ \A k \in 1..Len(w) : w[k] # separator
    BY <1>1 DEF Without
  <2> HIDE DEF p, w
  <2>4. Words(w, separator) = <<w>>
    BY <2>3, WordsOne DEF NoWord
  <2>5. AllWords(Append(p, w), separator) = p \o <<w>>
    BY <2>2, <2>3, <2>4, AllWordsMore
  <2>6. Append(p, w) = p \o <<w>>
    BY <2>2, <2>3, AppendFacts
  <2>7. QED
    BY <2>1, <2>2, <2>5, <2>6
<1>6. 0..n \subseteq T
  <2> HIDE DEF T
  <2>1. QED
    BY <1>1, <1>4, <1>5, UpInduction
<1>7. n \in 0..n
  BY <1>1
<1>8. AllWords(words, separator) = words
  BY <1>3, <1>6, <1>7
<1>9. QED
  BY <1>2, <1>8, JoinWords

LEMMA WithoutConcat ==
  ASSUME NEW byte, NEW s \in Without(byte), NEW t \in Without(byte)
  PROVE  /\ s \o t \in Without(byte)
         /\ t # <<>> => s \o t # <<>>
         /\ s # <<>> => s \o t # <<>> /\ (s \o t)[1] = s[1]
<1> DEFINE u == s \o t
<1>1. /\ s \in String /\ \A k \in 1..Len(s) : s[k] # byte
      /\ t \in String /\ \A k \in 1..Len(t) : t[k] # byte
  BY DEF Without
<1>2. Len(s) \in Nat /\ Len(t) \in Nat /\ (s # <<>> => Len(s) # 0) /\ (t # <<>> => Len(t) # 0)
  BY <1>1, StringFacts DEF String
<1>3. /\ u \in String /\ Len(u) = Len(s) + Len(t)
      /\ \A k \in 1..Len(s) : u[k] = s[k]
      /\ \A k \in 1..Len(t) : u[Len(s) + k] = t[k]
  BY <1>1, ConcatString
<1> HIDE DEF u
<1>4. ASSUME NEW k \in 1..Len(u) PROVE u[k] # byte
  <2>1. CASE k \in 1..Len(s)
    BY <1>1, <1>3, <2>1
  <2>2. CASE k \notin 1..Len(s)
    <3> DEFINE l == k - Len(s)
    <3>1. l \in 1..Len(t) /\ k = Len(s) + l
      BY <1>2, <1>3, <2>2
    <3> HIDE DEF l
    <3>2. QED
      BY <1>1, <1>3, <3>1
  <2>3. QED
    BY <2>1, <2>2
<1>5. u \in Without(byte)
  BY <1>3, <1>4 DEF Without
<1>6. ASSUME s # <<>> \/ t # <<>> PROVE u # <<>>
  <2>1. Len(u) # 0
    BY <1>2, <1>3, <1>6
  <2>2. QED
    BY <2>1
<1>7. ASSUME s # <<>> PROVE u[1] = s[1]
  <2>1. 1 \in 1..Len(s)
    BY <1>2, <1>7
  <2>2. QED
    BY <1>3, <2>1
<1>8. QED
  BY <1>5, <1>6, <1>7 DEF u

(* Joining with another byte makes one word of several.                    *)
LEMMA JoinOneWord ==
  ASSUME NEW byte, NEW separator \in 0..255, separator # byte,
         NEW words \in Seq(Without(byte) \ {<<>>})
  PROVE  /\ Join(words, separator) \in Without(byte)
         /\ words # <<>> => Join(words, separator) # <<>>
<1> DEFINE n == Len(words)
           Is(i) == /\ Join(Part(words, i), separator) \in Without(byte)
                    /\ i # 0 => Join(Part(words, i), separator) # <<>>
           T == {i \in 0..n : Is(i)}
<1>1. n \in Nat /\ \A i \in 1..n : words[i] \in Without(byte) \ {<<>>}
  OBVIOUS
<1>2. words \in Seq(String)
  <2>1. Without(byte) \ {<<>>} \subseteq String
    BY DEF Without
  <2>2. QED
    BY <2>1, SeqMonotonic
<1>3. /\ Part(words, 0) = <<>> /\ Part(words, n) = words
      /\ \A i \in 1..n : Part(words, i) = Append(Part(words, i - 1), words[i])
      /\ \A i \in 0..n : Part(words, i) \in Seq(String)
  BY <1>2, Parts
<1>4. words # <<>> => n # 0
  OBVIOUS
<1> HIDE DEF n
<1>5. 0 \in T
  <2>1. Join(<<>>, separator) = <<>>
    BY DEF Join, NoWord
  <2>2. <<>> \in Without(byte)
    BY DEF Without, String
  <2>3. 0 \in 0..n
    BY <1>1
  <2>4. QED
    BY <1>3, <2>1, <2>2, <2>3
<1>6. ASSUME NEW i \in 1..n, i - 1 \in T PROVE i \in T
  <2> DEFINE p == Part(words, i - 1)  w == words[i]  J == Join(p, separator)
             mark == <<separator>>
  <2>1. i - 1 \in 0..n /\ i \in 0..n
    BY <1>1
  <2>2. p \in Seq(String) /\ Part(words, i) = Append(p, w) /\ J \in Without(byte)
    BY <1>3, <1>6, <2>1
  <2>3. w \in String /\ w # <<>> /\ (\A k \in 1..Len(w) : w[k] # byte) /\ w \in Without(byte)
    BY <1>1 DEF Without
  <2> HIDE DEF p, w
  <2>4. /\ J \in String
        /\ p = <<>> => Join(Append(p, w), separator) = w
        /\ p # <<>> => Join(Append(p, w), separator) = J \o mark \o w
    <3>1. J \in String
      BY <2>2, <2>3, JoinMore
    <3>2. p = <<>> => Join(Append(p, w), separator) = w
      BY <2>2, <2>3, JoinMore
    <3>3. p # <<>> => Join(Append(p, w), separator) = J \o mark \o w
      <4>1. p # <<>> => Join(Append(p, w), separator) = Beyond(p, w, separator)
        BY <2>2, <2>3, JoinMore
      <4>2. QED
        BY <4>1 DEF Beyond
    <3>4. QED
      BY <3>1, <3>2, <3>3
  <2>5. mark \in Without(byte)
    BY DEF Without, String
  <2> DEFINE f == J \o mark  g == f \o w
  <2> HIDE DEF mark, J
  <2>6. f \in Without(byte)
    BY <2>2, <2>5, WithoutConcat
  <2> HIDE DEF f
  <2>7. g \in Without(byte) /\ g # <<>>
    BY <2>3, <2>6, WithoutConcat
  <2>8. Join(Append(p, w), separator) \in {w, g}
    BY <2>4 DEF g, f
  <2>9. QED
    BY <2>1, <2>2, <2>3, <2>7, <2>8
<1>7. 0..n \subseteq T
  <2> HIDE DEF T
  <2>1. QED
    BY <1>1, <1>5, <1>6, UpInduction
<1>8. n \in 0..n
  BY <1>1
<1>9. Is(n)
  BY <1>7, <1>8
<1>10. QED
  BY <1>3, <1>4, <1>9

-----------------------------------------------------------------------------
(* How singularity reads a word: a flag takes the next one, and then what   *)
(* is read from the word after that.                                       *)
Equals(word) == {i \in DOMAIN word : word[i] = equals}

WordAt(words, i) == IF i \in DOMAIN words THEN words[i] ELSE NoWord
TakesEnv(words, later, i) ==
  {[r EXCEPT !.env = data \o @] : r \in later, data \in Assignments(WordAt(words, i + 1))}
TakesBind(words, later, i) ==
  {[r EXCEPT !.bind = Words(WordAt(words, i + 1), comma) \o @] : r \in later}
TakesImage(words, i) ==
  IF IsFlag(WordAt(words, i)) \/ i >= Len(words) THEN {}
  ELSE {[env |-> <<>>, bind |-> <<>>, image |-> WordAt(words, i),
         args |-> SubSeq(words, i + 1, Len(words))]}
FlagAt(words, read, i) ==
  CASE WordAt(words, i) = EnvFlag -> TakesEnv(words, read[i + 2], i)
    [] WordAt(words, i) = BindFlag -> TakesBind(words, read[i + 2], i)
    [] OTHER -> TakesImage(words, i)

LEMMA FlagsDiffer ==
  /\ EnvFlag \in String /\ BindFlag \in String
  /\ EnvFlag # NoWord /\ BindFlag # NoWord /\ EnvFlag # BindFlag
<1>1. EnvFlag \in String /\ BindFlag \in String
  BY DEF EnvFlag, BindFlag, String
<1>2. Len(EnvFlag) = 5 /\ Len(BindFlag) = 6 /\ Len(NoWord) = 0
  BY DEF EnvFlag, BindFlag, NoWord
<1>3. EnvFlag # NoWord
  BY <1>2
<1>4. BindFlag # NoWord
  BY <1>2
<1>5. EnvFlag # BindFlag
  BY DEF EnvFlag, BindFlag
<1>6. QED
  BY <1>1, <1>3, <1>4, <1>5

LEMMA FlagsAreFlags == IsFlag(EnvFlag) /\ IsFlag(BindFlag) /\ ~IsFlag(NoWord)
BY DEF IsFlag, EnvFlag, BindFlag, NoWord, dash

LEMMA FlagLater ==
  ASSUME NEW words, NEW f, NEW g, NEW i, i \in DOMAIN words => f[i + 2] = g[i + 2]
  PROVE  FlagAt(words, f, i) = FlagAt(words, g, i)
<1>1. CASE i \in DOMAIN words
  <2>1. f[i + 2] = g[i + 2]
    BY <1>1
  <2>2. TakesEnv(words, f[i + 2], i) = TakesEnv(words, g[i + 2], i)
    BY <2>1
  <2>3. TakesBind(words, f[i + 2], i) = TakesBind(words, g[i + 2], i)
    BY <2>1
  <2>4. QED
    BY <2>2, <2>3, Zenon DEF FlagAt
<1>2. CASE i \notin DOMAIN words
  <2>1. WordAt(words, i) = NoWord
    BY <1>2 DEF WordAt
  <2>2. WordAt(words, i) # EnvFlag /\ WordAt(words, i) # BindFlag
    BY <2>1, FlagsDiffer
  <2>3. QED
    BY <2>2 DEF FlagAt
<1>3. QED
  BY <1>1, <1>2

LEMMA FlagsExist ==
  ASSUME NEW words \in Seq(String)
  PROVE  \E read : read = [i \in 1..Len(words)+2 |-> FlagAt(words, read, i)]
<1> DEFINE n == Len(words)+2
           Ok(f, j) == f = [i \in 1..n |-> f[i]] /\ \A i \in j..n : f[i] = FlagAt(words, f, i)
           T == {j \in 1..n : \E f : Ok(f, j)}
<1>1. /\ n \in Nat /\ 1 \in 1..n
      /\ \A i \in DOMAIN words : i \in 1..n /\ i + 2 \in 1..n
  <2>1. Len(words) \in Nat /\ DOMAIN words = 1..Len(words)
    OBVIOUS
  <2>2. QED
    BY <2>1
<1> HIDE DEF n
<1>2. ASSUME NEW j \in 1..n, j+1..n \subseteq T PROVE j \in T
  <2>1. \E f : Ok(f, j + 1)
    <3>1. CASE j = n
      <4> DEFINE f == [i \in 1..n |-> <<>>]
      <4>1. f = [i \in 1..n |-> f[i]]
        OBVIOUS
      <4>2. j+1..n = {}
        BY <1>1, <3>1
      <4> HIDE DEF f
      <4>3. Ok(f, j + 1)
        BY <4>1, <4>2
      <4>4. QED
        BY <4>3
    <3>2. CASE j # n
      <4>1. j + 1 \in j+1..n
        BY <1>1, <3>2
      <4>2. QED
        BY <1>2, <4>1
    <3>3. QED
      BY <3>1, <3>2
  <2>2. PICK f : Ok(f, j + 1)
    BY <2>1
  <2> DEFINE v == FlagAt(words, f, j)  g == [i \in 1..n |-> IF i = j THEN v ELSE f[i]]
  <2>3. g = [i \in 1..n |-> g[i]] /\ g[j] = v /\ \A i \in 1..n : i # j => g[i] = f[i]
    OBVIOUS
  <2> HIDE DEF g
  <2>4. ASSUME NEW i \in j..n PROVE FlagAt(words, f, i) = FlagAt(words, g, i)
    <3>1. i \in DOMAIN words => f[i + 2] = g[i + 2]
      <4>1. SUFFICES ASSUME i \in DOMAIN words PROVE f[i + 2] = g[i + 2]
        OBVIOUS
      <4>2. i + 2 \in 1..n
        BY <1>1, <4>1
      <4>3. i + 2 # j
        BY <1>1, <1>2
      <4>4. QED
        BY <2>3, <4>2, <4>3
    <3>2. QED
      BY <3>1, FlagLater
  <2>5. ASSUME NEW i \in j..n PROVE g[i] = FlagAt(words, g, i)
    <3>1. CASE i = j
      BY <2>3, <2>4, <3>1
    <3>2. CASE i # j
      <4>1. i \in j+1..n /\ i \in 1..n
        BY <1>1, <3>2
      <4>2. f[i] = FlagAt(words, f, i)
        BY <2>2, <4>1
      <4>3. QED
        BY <2>3, <2>4, <3>2, <4>1, <4>2
    <3>3. QED
      BY <3>1, <3>2
  <2>6. Ok(g, j)
    BY <2>3, <2>5
  <2>7. QED
    BY <2>6
<1>3. 1..n \subseteq T
  <2> HIDE DEF T
  <2>1. QED
    BY <1>1, <1>2, DownInduction
<1>4. PICK f : Ok(f, 1)
  BY <1>1, <1>3
<1>5. f = [i \in 1..n |-> FlagAt(words, f, i)]
  BY <1>4
<1>6. QED
  BY <1>5 DEF n

LEMMA SingularityReads ==
  ASSUME NEW words \in Seq(String)
  PROVE  \E read : /\ Singularity(words) = read[1]
                   /\ \A i \in 1..Len(words)+2 : read[i] = FlagAt(words, read, i)
<1> DEFINE Is(h) == h = [i \in 1..Len(words)+2 |-> FlagAt(words, h, i)]
           read == CHOOSE h : Is(h)
<1>1. Is(read)
  BY FlagsExist
<1>2. Singularity(words) = read[1]
  BY DEF Singularity, FlagAt, TakesEnv, TakesBind, TakesImage, WordAt
<1> HIDE DEF read
<1>3. \A i \in 1..Len(words)+2 : read[i] = FlagAt(words, read, i)
  BY <1>1
<1>4. QED
  BY <1>2, <1>3

LEMMA EnvRead ==
  ASSUME NEW words \in Seq(String), NEW i \in 1..Len(words), NEW f, words[i] = EnvFlag
  PROVE  FlagAt(words, f, i) = TakesEnv(words, f[i + 2], i)
<1>1. WordAt(words, i) = EnvFlag
  BY DEF WordAt
<1>2. QED
  BY <1>1, FlagsDiffer DEF FlagAt

LEMMA BindRead ==
  ASSUME NEW words \in Seq(String), NEW i \in 1..Len(words), NEW f, words[i] = BindFlag
  PROVE  FlagAt(words, f, i) = TakesBind(words, f[i + 2], i)
<1>1. WordAt(words, i) = BindFlag
  BY DEF WordAt
<1>2. QED
  BY <1>1, FlagsDiffer DEF FlagAt

LEMMA ImageRead ==
  ASSUME NEW words \in Seq(String), NEW i \in 1..Len(words), NEW f,
         ~IsFlag(words[i]), i < Len(words)
  PROVE  FlagAt(words, f, i) = {[env |-> <<>>, bind |-> <<>>, image |-> words[i],
                                 args |-> SubSeq(words, i + 1, Len(words))]}
<1>1. WordAt(words, i) = words[i] /\ ~(i >= Len(words))
  BY DEF WordAt
<1>2. words[i] # EnvFlag /\ words[i] # BindFlag
  BY FlagsAreFlags
<1> DEFINE w == WordAt(words, i)
<1> HIDE DEF w
<1>3. FlagAt(words, f, i) = TakesImage(words, i)
  BY <1>1, <1>2 DEF FlagAt, w
<1>4. TakesImage(words, i) = {[env |-> <<>>, bind |-> <<>>, image |-> w,
                               args |-> SubSeq(words, i + 1, Len(words))]}
  BY <1>1 DEF TakesImage, w
<1>5. QED
  BY <1>1, <1>3, <1>4 DEF w

LEMMA ConcatWords ==
  ASSUME NEW s \in Seq(String), NEW t \in Seq(String)
  PROVE  /\ s \o t \in Seq(String)
         /\ Len(s \o t) = Len(s) + Len(t)
         /\ \A i \in 1..Len(s) : (s \o t)[i] = s[i]
         /\ \A i \in 1..Len(t) : (s \o t)[Len(s) + i] = t[i]
OBVIOUS

-----------------------------------------------------------------------------
(* What the data of --env is read as.                                       *)

LEMMA AssignmentsAre ==
  ASSUME NEW data
  PROVE  Assignments(data) =
           IF \E i \in DOMAIN data : Equals(data) = {i} THEN {<<data>>}
           ELSE IF /\ data # NoWord /\ Join(Words(data, comma), comma) = data
                   /\ \A i \in DOMAIN Words(data, comma) : Equals(Words(data, comma)[i]) # {}
           THEN {Words(data, comma)} ELSE {}
BY DEF Assignments, Equals

(* Pieces with an equals sign give a text with one.                        *)
LEMMA JoinEquals ==
  ASSUME NEW list \in Seq(Without(comma) \ {<<>>}), list # <<>>,
         \A i \in DOMAIN list : Equals(list[i]) # {}
  PROVE  Equals(Join(list, comma)) # {}
<1> DEFINE data == Join(list, comma)
<1>1. list \in Seq(String)
  <2>1. Without(comma) \ {<<>>} \subseteq String
    BY DEF Without
  <2>2. QED
    BY <2>1, SeqMonotonic
<1>2. comma \in 0..255 /\ <<>> \in String
  BY DEF comma, String
<1>3. data \in String
  BY <1>1, <1>2, JoinMore
<1>4. Words(data, comma) = list
  BY <1>2, WordsOfWords
<1> HIDE DEF data
<1>5. SUFFICES ASSUME Equals(data) = {} PROVE FALSE
  BY DEF data
<1>6. \A i \in 1..Len(data) : data[i] # equals
  BY <1>3, <1>5, StringFacts DEF Equals
<1>7. list \in Seq(Without(equals))
  BY <1>3, <1>4, <1>6, WordsWithout
<1>8. 1 \in DOMAIN list /\ list[1] \in Without(equals)
  BY <1>7
<1> DEFINE first == list[1]
<1>9. Equals(first) # {} /\ first \in Without(equals)
  BY <1>8
<1> HIDE DEF first
<1>10. first \in String /\ \A i \in 1..Len(first) : first[i] # equals
  BY <1>9 DEF Without
<1>11. Equals(first) = {}
  BY <1>10, StringFacts DEF Equals
<1>12. QED
  BY <1>9, <1>11

Sole(list) == Len(list) = 1 /\ \E i \in DOMAIN list[1] : Equals(list[1]) = {i}

(* More than one piece with an equals sign: more than one equals sign.      *)
LEMMA ManyEquals ==
  ASSUME NEW list \in Seq(Without(comma) \ {<<>>}), Len(list) > 1,
         \A i \in DOMAIN list : Equals(list[i]) # {}, NEW k
  PROVE  Equals(Join(list, comma)) # {k}
<1> DEFINE n == Len(list)  front == Part(list, n - 1)  last == list[n]
           F == Join(front, comma)
<1>1. list \in Seq(String)
  <2>1. Without(comma) \ {<<>>} \subseteq String
    BY DEF Without
  <2>2. QED
    BY <2>1, SeqMonotonic
<1>2. comma \in 0..255
  BY DEF comma
<1>3. n \in Nat /\ n > 1 /\ n \in 1..n /\ n - 1 \in 0..n /\ DOMAIN list = 1..n
  OBVIOUS
<1>4. /\ list = Append(front, last) /\ front \in Seq(Without(comma) \ {<<>>})
      /\ Len(front) = n - 1 /\ front \in Seq(String)
  <2>1. Part(list, n) = list /\ Part(list, n) = Append(front, last)
    BY <1>3, Parts
  <2>2. front \in Seq(Without(comma) \ {<<>>}) /\ Len(front) = n - 1
    BY <1>3, Parts
  <2>3. front \in Seq(String)
    BY <1>1, <1>3, Parts
  <2>4. QED
    BY <2>1, <2>2, <2>3
<1>5. last \in String /\ Equals(last) # {}
  BY <1>1, <1>3
<1>6. front # <<>> /\ \A i \in DOMAIN front : Equals(front[i]) # {}
  <2>1. \A i \in 1..n-1 : front[i] = list[i] /\ i \in DOMAIN list
    BY <1>3 DEF Part
  <2> HIDE DEF front
  <2>2. DOMAIN front = 1..n-1 /\ front # <<>>
    BY <1>3, <1>4
  <2>3. QED
    BY <2>1, <2>2
<1> HIDE DEF front, last, n
<1>7. Equals(F) # {} /\ F \in String
  BY <1>2, <1>4, <1>5, <1>6, JoinEquals, JoinMore
<1>8. Join(list, comma) = Beyond(front, last, comma)
  BY <1>2, <1>4, <1>5, <1>6, JoinMore
<1> DEFINE data == Join(list, comma)  mark == <<comma>>  G == F \o mark
<1>9. mark \in String /\ Len(mark) = 1
  BY <1>2 DEF String
<1>10. data = G \o last
  BY <1>8 DEF Beyond
<1> HIDE DEF F, mark, data
<1>11. /\ G \in String /\ Len(G) = Len(F) + 1
       /\ \A i \in 1..Len(F) : G[i] = F[i]
  <2>1. /\ F \o mark \in String /\ Len(F \o mark) = Len(F) + Len(mark)
        /\ \A i \in 1..Len(F) : (F \o mark)[i] = F[i]
    BY <1>7, <1>9, ConcatString
  <2>2. QED
    BY <1>9, <2>1
<1> HIDE DEF G
<1>12. /\ data \in String /\ Len(data) = Len(G) + Len(last)
       /\ \A i \in 1..Len(G) : data[i] = G[i]
       /\ \A i \in 1..Len(last) : data[Len(G) + i] = last[i]
  <2>1. /\ G \o last \in String /\ Len(G \o last) = Len(G) + Len(last)
        /\ \A i \in 1..Len(G) : (G \o last)[i] = G[i]
        /\ \A i \in 1..Len(last) : (G \o last)[Len(G) + i] = last[i]
    BY <1>5, <1>11, ConcatString
  <2>2. QED
    BY <1>10, <2>1
<1>13. PICK i : i \in 1..Len(F) /\ F[i] = equals
  BY <1>7, StringFacts DEF Equals
<1>14. PICK j : j \in 1..Len(last) /\ last[j] = equals
  BY <1>5, StringFacts DEF Equals
<1>15. Len(F) \in Nat /\ Len(last) \in Nat /\ DOMAIN data = 1..Len(data)
  BY <1>5, <1>7, <1>12, StringFacts
<1>16. /\ i \in 1..Len(G) /\ i \in 1..Len(data) /\ Len(G) + j \in 1..Len(data)
       /\ i # Len(G) + j
  BY <1>11, <1>12, <1>13, <1>14, <1>15
<1>17. data[i] = equals /\ data[Len(G) + j] = equals
  BY <1>11, <1>12, <1>13, <1>14, <1>16
<1>18. i \in Equals(data) /\ Len(G) + j \in Equals(data)
  BY <1>15, <1>16, <1>17 DEF Equals
<1>19. QED
  BY <1>16, <1>18 DEF data

(* The variables of a container are read as they are when they hold no      *)
(* comma, or when there is one, with one equals sign, and else they are not. *)
LEMMA AssignmentsBack ==
  ASSUME NEW list \in Seq(String \ {<<>>}), list # <<>>,
         \A i \in DOMAIN list : Equals(list[i]) # {}
  PROVE  list \in Assignments(Join(list, comma)) <=> list \in Seq(Without(comma)) \/ Sole(list)
<1> DEFINE data == Join(list, comma)  pieces == Words(data, comma)
           One1 == \E i \in DOMAIN data : Equals(data) = {i}
           Fine == /\ data # NoWord /\ Join(pieces, comma) = data
                   /\ \A i \in DOMAIN pieces : Equals(pieces[i]) # {}
<1>1. list \in Seq(String) /\ <<>> \in String /\ comma \in 0..255
  <2>1. list \in Seq(String)
    <3>1. String \ {<<>>} \subseteq String
      OBVIOUS
    <3>2. QED
      BY <3>1, SeqMonotonic
  <2>2. QED
    BY <2>1 DEF String, comma
<1>2. data \in String
  BY <1>1, JoinMore
<1>3. Assignments(data) = IF One1 THEN {<<data>>} ELSE IF Fine THEN {pieces} ELSE {}
  BY AssignmentsAre
<1>4. pieces \in Seq(Without(comma))
  <2> HIDE DEF data
  <2>1. QED
    BY <1>2, WordsWithout
<1>5. Len(list) = 1 => list = <<list[1]>> /\ data = list[1]
  <2>1. SUFFICES ASSUME Len(list) = 1 PROVE list = <<list[1]>> /\ data = list[1]
    OBVIOUS
  <2> DEFINE v == list[1]
  <2>2. v \in String
    BY <1>1, <2>1
  <2>3. list = <<v>> /\ list = Append(<<>>, v)
    BY <1>1, <2>1
  <2> HIDE DEF v
  <2>4. Join(Append(<<>>, v), comma) = v
    <3>1. <<>> \in Seq(String)
      OBVIOUS
    <3>2. QED
      BY <1>1, <2>2, <3>1, JoinMore
  <2>5. QED
    BY <2>3, <2>4 DEF v
<1> HIDE DEF data, pieces
<1>6. ASSUME list \in Assignments(data) PROVE list \in Seq(Without(comma)) \/ Sole(list)
  <2>1. CASE One1
    <3>1. list = <<data>>
      BY <1>3, <1>6, <2>1
    <3>2. Len(list) = 1 /\ list[1] = data
      BY <3>1
    <3>3. QED
      BY <2>1, <3>2 DEF Sole
  <2>2. CASE ~One1
    <3>1. list = pieces
      BY <1>3, <1>6, <2>2
    <3>2. QED
      BY <1>4, <3>1
  <2>3. QED
    BY <2>1, <2>2
<1>7. ASSUME Sole(list) PROVE list \in Assignments(data)
  <2>1. list = <<data>> /\ One1
    BY <1>5, <1>7 DEF Sole
  <2>2. QED
    BY <1>3, <2>1
<1>8. ASSUME list \in Seq(Without(comma)), ~Sole(list) PROVE list \in Assignments(data)
  <2>1. list \in Seq(Without(comma) \ {<<>>})
    <3>1. Len(list) \in Nat /\ \A i \in 1..Len(list) : list[i] \in Without(comma) \ {<<>>}
      BY <1>8
    <3>2. list = [i \in 1..Len(list) |-> list[i]]
      BY <1>1
    <3>3. QED
      BY <3>1, <3>2
  <2>2. pieces = list
    BY <1>1, <2>1, WordsOfWords DEF pieces, data
  <2>3. Equals(data) # {}
    BY <2>1, JoinEquals DEF data
  <2>4. data # NoWord
    BY <2>3 DEF Equals, NoWord
  <2>5. Fine
    BY <2>2, <2>4 DEF data
  <2>6. ~One1
    <3>1. CASE Len(list) = 1
      BY <1>5, <1>8, <3>1 DEF Sole
    <3>2. CASE Len(list) # 1
      <4>1. Len(list) > 1
        <5> DEFINE m == Len(list)
        <5>1. m \in Nat /\ m # 0 /\ m # 1
          BY <1>1, <3>2, EmptySeq
        <5> HIDE DEF m
        <5>2. m > 1
          BY <5>1
        <5>3. QED
          BY <5>2 DEF m
      <4>2. \A k : Equals(data) # {k}
        BY <2>1, <4>1, ManyEquals DEF data
      <4>3. QED
        BY <4>2
    <3>3. QED
      BY <3>1, <3>2
  <2>7. QED
    BY <1>3, <2>2, <2>5, <2>6
<1>9. QED
  BY <1>6, <1>7, <1>8 DEF data

-----------------------------------------------------------------------------
(* What can be read at all.                                                 *)

(* The words up to i are no longer there for the arguments, nothing read    *)
(* from words holds a space, and a mount no comma.                          *)
Good(words, i, r) ==
  /\ r \in [env : Seq(Without(space)), bind : Seq(Without(space)), image : Without(space),
            args : Seq(String)]
  /\ r.bind \in Seq(Without(comma))
  /\ ~IsFlag(r.image) /\ r.args # <<>> /\ Len(r.args) <= Len(words) - i

LEMMA AssignmentsWithout ==
  ASSUME NEW word \in Without(space), NEW data \in Assignments(word)
  PROVE  data \in Seq(Without(space))
<1>1. word \in String /\ \A i \in 1..Len(word) : word[i] # space
  BY DEF Without
<1>2. Words(word, comma) \in Seq(Without(space))
  BY <1>1, WordsWithout
<1>3. data = <<word>> \/ data = Words(word, comma)
  BY AssignmentsAre
<1>4. <<word>> \in Seq(Without(space))
  OBVIOUS
<1>5. QED
  BY <1>2, <1>3, <1>4

LEMMA WordWithout ==
  ASSUME NEW words \in Seq(Without(space)), NEW i
  PROVE  WordAt(words, i) \in Without(space)
<1>1. NoWord \in Without(space)
  BY DEF NoWord, Without, String
<1>2. QED
  BY <1>1 DEF WordAt

LEMMA GoodEnv ==
  ASSUME NEW words \in Seq(Without(space)), NEW i \in Nat, NEW read,
         \A q \in read[i + 2] : Good(words, i + 2, q), NEW r \in TakesEnv(words, read[i + 2], i)
  PROVE  /\ Good(words, i, r)
         /\ Assignments(WordAt(words, i + 1)) # {}
         /\ \E q \in read[i + 2] : r.args = q.args
<1> DEFINE w == WordAt(words, i + 1)
<1>1. PICK q \in read[i + 2], data \in Assignments(w) : r = [q EXCEPT !.env = data \o @]
  BY DEF TakesEnv
<1>2. w \in Without(space)
  BY WordWithout
<1> HIDE DEF w
<1>3. data \in Seq(Without(space))
  BY <1>2, AssignmentsWithout
<1>4. Good(words, i + 2, q)
  OBVIOUS
<1>5. data \o q.env \in Seq(Without(space))
  <2>1. q.env \in Seq(Without(space))
    BY <1>4 DEF Good
  <2>2. QED
    BY <1>3, <2>1, ConcatProperties
<1>6. /\ r.env = data \o q.env /\ r.bind = q.bind /\ r.image = q.image /\ r.args = q.args
      /\ r = [env |-> r.env, bind |-> r.bind, image |-> r.image, args |-> r.args]
  <2>1. q = [env |-> q.env, bind |-> q.bind, image |-> q.image, args |-> q.args]
    BY <1>4 DEF Good
  <2> DEFINE e == data \o q.env
  <2>2. r = [q EXCEPT !.env = e]
    BY <1>1
  <2> HIDE DEF e
  <2>3. r = [env |-> e, bind |-> q.bind, image |-> q.image, args |-> q.args]
    BY <2>1, <2>2
  <2>4. r.env = e /\ r.bind = q.bind /\ r.image = q.image /\ r.args = q.args
    BY <2>3
  <2>5. QED
    BY <2>3, <2>4 DEF e
<1>7. Good(words, i, r)
  <2>1. /\ q.bind \in Seq(Without(space)) /\ q.image \in Without(space) /\ q.args \in Seq(String)
        /\ q.bind \in Seq(Without(comma)) /\ ~IsFlag(q.image) /\ q.args # <<>>
        /\ Len(q.args) <= Len(words) - (i + 2)
    BY <1>4 DEF Good
  <2>2. Len(q.args) <= Len(words) - i
    <3>1. Len(q.args) \in Nat /\ Len(words) \in Nat
      BY <2>1
    <3>2. QED
      BY <2>1, <3>1
  <2>3. r.env \in Seq(Without(space))
    BY <1>5, <1>6
  <2>4. r \in [env : Seq(Without(space)), bind : Seq(Without(space)), image : Without(space),
               args : Seq(String)]
    BY <1>6, <2>1, <2>3
  <2>5. QED
    BY <1>6, <2>1, <2>2, <2>4 DEF Good
<1>8. QED
  BY <1>1, <1>6, <1>7 DEF w

LEMMA GoodBind ==
  ASSUME NEW words \in Seq(Without(space)), NEW i \in Nat, NEW read,
         \A q \in read[i + 2] : Good(words, i + 2, q), NEW r \in TakesBind(words, read[i + 2], i)
  PROVE  /\ Good(words, i, r)
         /\ \E q \in read[i + 2] : r.args = q.args
<1> DEFINE w == WordAt(words, i + 1)  data == Words(w, comma)
<1>1. PICK q \in read[i + 2] : r = [q EXCEPT !.bind = data \o @]
  BY DEF TakesBind
<1>2. w \in String /\ \A k \in 1..Len(w) : w[k] # space
  BY WordWithout DEF Without
<1> HIDE DEF w
<1>3. data \in Seq(Without(space)) /\ data \in Seq(Without(comma))
  BY <1>2, WordsWithout
<1> HIDE DEF data
<1>4. Good(words, i + 2, q)
  OBVIOUS
<1>5. data \o q.bind \in Seq(Without(space)) /\ data \o q.bind \in Seq(Without(comma))
  <2>1. q.bind \in Seq(Without(space)) /\ q.bind \in Seq(Without(comma))
    BY <1>4 DEF Good
  <2>2. QED
    BY <1>3, <2>1, ConcatProperties
<1>6. /\ r.env = q.env /\ r.bind = data \o q.bind /\ r.image = q.image /\ r.args = q.args
      /\ r = [env |-> r.env, bind |-> r.bind, image |-> r.image, args |-> r.args]
  <2>1. q = [env |-> q.env, bind |-> q.bind, image |-> q.image, args |-> q.args]
    BY <1>4 DEF Good
  <2> DEFINE e == data \o q.bind
  <2>2. r = [q EXCEPT !.bind = e]
    BY <1>1
  <2> HIDE DEF e
  <2>3. r = [env |-> q.env, bind |-> e, image |-> q.image, args |-> q.args]
    BY <2>1, <2>2
  <2>4. r.env = q.env /\ r.bind = e /\ r.image = q.image /\ r.args = q.args
    BY <2>3
  <2>5. QED
    BY <2>3, <2>4 DEF e
<1>7. Good(words, i, r)
  <2>1. /\ q.env \in Seq(Without(space)) /\ q.image \in Without(space) /\ q.args \in Seq(String)
        /\ ~IsFlag(q.image) /\ q.args # <<>>
        /\ Len(q.args) <= Len(words) - (i + 2)
    BY <1>4 DEF Good
  <2>2. Len(q.args) <= Len(words) - i
    <3>1. Len(q.args) \in Nat /\ Len(words) \in Nat
      BY <2>1
    <3>2. QED
      BY <2>1, <3>1
  <2>3. r.bind \in Seq(Without(space)) /\ r.bind \in Seq(Without(comma))
    BY <1>5, <1>6
  <2>4. r \in [env : Seq(Without(space)), bind : Seq(Without(space)), image : Without(space),
               args : Seq(String)]
    BY <1>6, <2>1, <2>3
  <2>5. QED
    BY <1>6, <2>1, <2>2, <2>3, <2>4 DEF Good
<1>8. QED
  BY <1>1, <1>6, <1>7

LEMMA ListsAreStrings == ASSUME NEW byte, NEW list \in Seq(Without(byte)) PROVE list \in Seq(String)
<1>1. Without(byte) \subseteq String
  BY DEF Without
<1>2. QED
  BY <1>1, SeqMonotonic

LEMMA GoodImage ==
  ASSUME NEW words \in Seq(Without(space)), NEW i \in 1..Len(words) + 2,
         NEW r \in TakesImage(words, i)
  PROVE  Good(words, i, r)
<1> DEFINE n == Len(words)  w == WordAt(words, i)  args == SubSeq(words, i + 1, n)
<1>1. n \in Nat /\ words \in Seq(String) /\ \A k \in 1..n : words[k] \in String
  BY ListsAreStrings
<1>2. /\ ~IsFlag(w) /\ ~(i >= n)
      /\ r = [env |-> <<>>, bind |-> <<>>, image |-> w, args |-> args]
  BY DEF TakesImage
<1>3. w \in Without(space)
  BY WordWithout
<1>4. args \in Seq(String) /\ Len(args) = n - i
  <2>1. i \in Nat /\ i < n /\ i + 1 \in 1..n
    BY <1>1, <1>2
  <2>2. \A k \in i+1..n : words[k] \in String
    BY <1>1, <2>1
  <2>3. args \in Seq(String) /\ Len(args) = IF i + 1 <= n THEN n - (i + 1) + 1 ELSE 0
    <3> HIDE DEF n
    <3>1. QED
      BY <1>1, <2>1, <2>2, SubSeqProperties
  <2>4. QED
    BY <1>1, <2>1, <2>3
<1>5. args # <<>>
  <2>1. n - i > 0
    BY <1>1, <1>2
  <2> HIDE DEF args, n
  <2>2. QED
    BY <1>4, <2>1
<1>6. <<>> \in Seq(Without(space)) /\ <<>> \in Seq(Without(comma))
  OBVIOUS
<1>7. n - i <= n - i
  BY <1>1
<1> HIDE DEF w, args
<1>8. QED
  BY <1>2, <1>3, <1>4, <1>5, <1>6, <1>7 DEF Good

LEMMA ReadIsGood ==
  ASSUME NEW words \in Seq(Without(space)), NEW read,
         \A i \in 1..Len(words)+2 : read[i] = FlagAt(words, read, i)
  PROVE  \A i \in 1..Len(words)+2 : \A r \in read[i] : Good(words, i, r)
<1> DEFINE n == Len(words) + 2
           T == {i \in 1..n : \A r \in read[i] : Good(words, i, r)}
<1>1. n \in Nat /\ DOMAIN words = 1..Len(words) /\ Len(words) \in Nat
  OBVIOUS
<1>2. ASSUME NEW i \in 1..n, i+1..n \subseteq T PROVE i \in T
  <2>1. SUFFICES ASSUME NEW r \in read[i] PROVE Good(words, i, r)
    OBVIOUS
  <2>2. r \in FlagAt(words, read, i) /\ i \in Nat
    BY <1>1
  <2>3. i \in DOMAIN words => \A q \in read[i + 2] : Good(words, i + 2, q)
    <3>1. SUFFICES ASSUME i \in DOMAIN words PROVE i + 2 \in i+1..n
      BY <1>2
    <3>2. QED
      BY <1>1, <3>1
  <2>4. WordAt(words, i) \in {EnvFlag, BindFlag} => i \in DOMAIN words
    BY FlagsDiffer DEF WordAt
  <2>5. CASE WordAt(words, i) = EnvFlag
    <3>1. r \in TakesEnv(words, read[i + 2], i)
      <4>1. FlagAt(words, read, i) = TakesEnv(words, read[i + 2], i)
        BY <2>5, FlagsDiffer DEF FlagAt
      <4>2. QED
        BY <2>2, <4>1
    <3>2. QED
      BY <2>2, <2>3, <2>4, <2>5, <3>1, GoodEnv
  <2>6. CASE WordAt(words, i) = BindFlag
    <3>1. r \in TakesBind(words, read[i + 2], i)
      BY <2>2, <2>6, FlagsDiffer DEF FlagAt
    <3>2. QED
      BY <2>2, <2>3, <2>4, <2>6, <3>1, GoodBind
  <2>7. CASE WordAt(words, i) # EnvFlag /\ WordAt(words, i) # BindFlag
    <3>1. r \in TakesImage(words, i)
      BY <2>2, <2>7 DEF FlagAt
    <3>2. QED
      BY <3>1, GoodImage
  <2>8. QED
    BY <2>5, <2>6, <2>7
<1>3. 1..n \subseteq T
  <2> HIDE DEF T, n
  <2>1. QED
    BY <1>1, <1>2, DownInduction
<1>4. QED
  BY <1>3

(* No variables: --env takes --bind, which is no variable.                  *)
LEMMA ReadsNoVariables ==
  ASSUME NEW words \in Seq(String), Len(words) > 1, words[1] = EnvFlag, words[2] = BindFlag
  PROVE  Singularity(words) = {}
<1>1. PICK read : /\ Singularity(words) = read[1]
                  /\ \A i \in 1..Len(words)+2 : read[i] = FlagAt(words, read, i)
  BY SingularityReads
<1>2. /\ Len(words) \in Nat /\ 1 \in 1..Len(words) /\ 1 \in 1..Len(words)+2
      /\ 2 \in DOMAIN words /\ 1 + 1 = 2
  OBVIOUS
<1>3. read[1] = TakesEnv(words, read[1 + 2], 1)
  BY <1>1, <1>2, EnvRead
<1>4. WordAt(words, 1 + 1) = BindFlag
  BY <1>2 DEF WordAt
<1>5. Assignments(BindFlag) = {}
  <2>1. Equals(BindFlag) = {}
    BY DEF Equals, BindFlag, equals
  <2>2. BindFlag \in String /\ BindFlag # NoWord /\ \A i \in 1..Len(BindFlag) : BindFlag[i] # comma
    BY DEF BindFlag, NoWord, String, comma
  <2>3. Words(BindFlag, comma) = <<BindFlag>>
    <3>1. Words(BindFlag, comma) = IF BindFlag = NoWord THEN <<>> ELSE <<BindFlag>>
      BY <2>2, WordsOne
    <3>2. QED
      BY <2>2, <3>1
  <2> DEFINE f == BindFlag
  <2> HIDE DEF f
  <2>4. 1 \in DOMAIN <<f>> /\ <<f>>[1] = f
    OBVIOUS
  <2>5. Assignments(f) =
           IF \E i \in DOMAIN f : Equals(f) = {i} THEN {<<f>>}
           ELSE IF /\ f # NoWord /\ Join(Words(f, comma), comma) = f
                   /\ \A i \in DOMAIN Words(f, comma) : Equals(Words(f, comma)[i]) # {}
           THEN {Words(f, comma)} ELSE {}
    BY AssignmentsAre
  <2>6. Equals(f) = {} /\ Words(f, comma) = <<f>>
    BY <2>1, <2>3 DEF f
  <2>7. ~\E i \in DOMAIN f : Equals(f) = {i}
    BY <2>6
  <2>8. ~\A i \in DOMAIN Words(f, comma) : Equals(Words(f, comma)[i]) # {}
    BY <2>4, <2>6
  <2>9. Assignments(f) = {}
    BY <2>5, <2>7, <2>8
  <2>10. QED
    BY <2>9 DEF f
<1>6. TakesEnv(words, read[1 + 2], 1) = {}
  BY <1>4, <1>5 DEF TakesEnv
<1>7. QED
  BY <1>1, <1>3, <1>6

(* No mounts: --bind takes the word after it, and one less is left.         *)
LEMMA ReadsNoMounts ==
  ASSUME NEW words \in Seq(Without(space)), Len(words) > 2, words[1] = EnvFlag,
         words[3] = BindFlag, NEW r \in Singularity(words)
  PROVE  Len(r.args) <= Len(words) - 5
<1>0. words \in Seq(String)
  BY ListsAreStrings
<1>1. PICK read : /\ Singularity(words) = read[1]
                  /\ \A i \in 1..Len(words)+2 : read[i] = FlagAt(words, read, i)
  BY <1>0, SingularityReads
<1>2. /\ Len(words) \in Nat /\ 1 \in 1..Len(words) /\ 3 \in 1..Len(words)
      /\ 1 \in 1..Len(words)+2 /\ 3 \in 1..Len(words)+2 /\ 5 \in 1..Len(words)+2
      /\ 1 \in Nat /\ 3 \in Nat /\ 1 + 2 = 3 /\ 3 + 2 = 5
  OBVIOUS
<1>3. \A i \in 1..Len(words)+2 : \A q \in read[i] : Good(words, i, q)
  BY <1>1, ReadIsGood
<1>4. read[1] = TakesEnv(words, read[1 + 2], 1)
  <2>1. FlagAt(words, read, 1) = TakesEnv(words, read[1 + 2], 1)
    BY <1>0, <1>2, EnvRead
  <2>2. QED
    BY <1>1, <1>2, <2>1
<1>5. read[3] = TakesBind(words, read[3 + 2], 3)
  <2>1. FlagAt(words, read, 3) = TakesBind(words, read[3 + 2], 3)
    BY <1>0, <1>2, BindRead
  <2>2. QED
    BY <1>1, <1>2, <2>1
<1>6. PICK q \in read[3] : r.args = q.args
  <2>1. \A q \in read[1 + 2] : Good(words, 1 + 2, q)
    BY <1>2, <1>3
  <2>2. r \in TakesEnv(words, read[1 + 2], 1)
    BY <1>1, <1>4
  <2>3. \E q \in read[1 + 2] : r.args = q.args
    BY <1>2, <2>1, <2>2, GoodEnv
  <2>4. QED
    BY <1>2, <2>3
<1>7. PICK p \in read[5] : q.args = p.args
  <2>1. \A s \in read[3 + 2] : Good(words, 3 + 2, s)
    BY <1>2, <1>3
  <2>2. q \in TakesBind(words, read[3 + 2], 3)
    BY <1>5
  <2>3. \E s \in read[3 + 2] : q.args = s.args
    BY <1>2, <2>1, <2>2, GoodBind
  <2>4. QED
    BY <1>2, <2>3
<1>8. Good(words, 5, p)
  BY <1>2, <1>3
<1>9. QED
  BY <1>6, <1>7, <1>8 DEF Good

(* Both flags with their data.                                             *)
LEMMA ReadsBoth ==
  ASSUME NEW env \in String, NEW bind \in String, NEW image \in String,
         ~IsFlag(image), NEW rest \in Seq(String), rest # <<>>
  PROVE  Singularity(<<EnvFlag, env, BindFlag, bind, image>> \o rest) =
           {[env |-> data, bind |-> Words(bind, comma), image |-> image, args |-> rest] :
              data \in Assignments(env)}
<1> DEFINE five == <<EnvFlag, env, BindFlag, bind, image>>  words == five \o rest
           n == Len(words)
<1>1. /\ five \in Seq(String) /\ Len(five) = 5 /\ five[1] = EnvFlag /\ five[2] = env
      /\ five[3] = BindFlag /\ five[4] = bind /\ five[5] = image
  BY FlagsDiffer
<1> HIDE DEF five
<1>2. /\ words \in Seq(String) /\ n = 5 + Len(rest)
      /\ \A i \in 1..5 : words[i] = five[i]
      /\ \A i \in 1..Len(rest) : words[5 + i] = rest[i]
  <2>1. /\ words \in Seq(String) /\ n = Len(five) + Len(rest)
        /\ \A i \in 1..Len(five) : words[i] = five[i]
        /\ \A i \in 1..Len(rest) : words[Len(five) + i] = rest[i]
    BY <1>1, ConcatWords
  <2> HIDE DEF words, n
  <2>2. QED
    BY <1>1, <2>1
<1>3. Len(rest) \in Nat
  OBVIOUS
<1> HIDE DEF words, n
<1>4. /\ n \in Nat /\ 1 \in 1..n /\ 2 \in 1..n /\ 3 \in 1..n /\ 4 \in 1..n /\ 5 \in 1..n
      /\ 1 \in 1..n+2 /\ 3 \in 1..n+2 /\ 5 \in 1..n+2 /\ DOMAIN words = 1..n
  <2>1. n = Len(words) /\ DOMAIN words = 1..Len(words)
    BY <1>2 DEF n
  <2>2. QED
    BY <1>2, <1>3, <2>1
<1>5. /\ words[1] = EnvFlag /\ words[2] = env /\ words[3] = BindFlag /\ words[4] = bind
      /\ words[5] = image
  BY <1>1, <1>2, <1>3
<1>a. 1 \in 1..Len(words) /\ 3 \in 1..Len(words) /\ 5 \in 1..Len(words)
  BY <1>4 DEF n
<1>6. SubSeq(words, 6, n) = rest
  <2> DEFINE s == SubSeq(words, 6, n)
  <2>1. \A i \in 6..n : words[i] \in String
    BY <1>2, <1>4
  <2>2. s \in Seq(String) /\ Len(s) = (IF 6 <= n THEN n - 6 + 1 ELSE 0)
        /\ \A i \in 1..n - 6 + 1 : s[i] = words[6 + i - 1]
    BY <1>4, <2>1, SubSeqProperties
  <2> HIDE DEF s
  <2>3. Len(s) = Len(rest)
    BY <1>2, <1>3, <2>2
  <2>4. ASSUME NEW i \in 1..Len(s) PROVE s[i] = rest[i]
    <3>1. i \in 1..n - 6 + 1 /\ 6 + i - 1 = 5 + i /\ i \in 1..Len(rest)
      BY <1>2, <1>3, <2>3
    <3>2. QED
      BY <1>2, <2>2, <3>1
  <2>5. s = rest
    BY <2>2, <2>3, <2>4, SeqEqual
  <2>6. QED
    BY <2>5 DEF s
<1>7. PICK read : /\ Singularity(words) = read[1]
                  /\ \A i \in 1..n+2 : read[i] = FlagAt(words, read, i)
  BY <1>2, SingularityReads DEF n
<1>8. read[5] = {[env |-> <<>>, bind |-> <<>>, image |-> image, args |-> rest]}
  <2>1. read[5] = FlagAt(words, read, 5)
    BY <1>4, <1>7
  <2>a. 5 < Len(words)
    <3>1. Len(rest) > 0
      BY <1>3
    <3>2. QED
      BY <1>2, <1>3, <3>1 DEF n
  <2>2. FlagAt(words, read, 5) = {[env |-> <<>>, bind |-> <<>>, image |-> words[5],
                                   args |-> SubSeq(words, 5 + 1, Len(words))]}
    BY <1>2, <1>5, <1>a, <2>a, ImageRead
  <2>3. 5 + 1 = 6
    OBVIOUS
  <2>4. SubSeq(words, 5 + 1, Len(words)) = rest
    BY <1>6, <2>3 DEF n
  <2>5. QED
    BY <1>5, <2>1, <2>2, <2>4
<1>9. WordAt(words, 1 + 1) = env /\ WordAt(words, 3 + 1) = bind
  <2>1. 1 + 1 = 2 /\ 3 + 1 = 4
    OBVIOUS
  <2>2. QED
    BY <1>4, <1>5, <2>1 DEF WordAt
<1> DEFINE e == Assignments(env)  b0 == Words(bind, comma)
<1>10. b0 \in Seq(String) /\ \A data \in e : data \in Seq(String)
  <2>1. b0 \in Seq(String) /\ Words(env, comma) \in Seq(String)
    BY WordsTyped
  <2>2. \A data \in e : data = <<env>> \/ data = Words(env, comma)
    BY AssignmentsAre
  <2>3. <<env>> \in Seq(String)
    OBVIOUS
  <2>4. QED
    BY <2>1, <2>2, <2>3
<1> HIDE DEF e, b0
<1>11. b0 \o <<>> = b0 /\ \A data \in e : data \o <<>> = data
  BY <1>10, ConcatEmptySeq
<1>12. read[3] = {[env |-> <<>>, bind |-> b0, image |-> image, args |-> rest]}
  <2>1. read[3] = FlagAt(words, read, 3)
    BY <1>4, <1>7
  <2>2. FlagAt(words, read, 3) = {[r EXCEPT !.bind = b0 \o @] : r \in read[3 + 2]}
    <3>1. FlagAt(words, read, 3) = TakesBind(words, read[3 + 2], 3)
      BY <1>2, <1>5, <1>a, BindRead
    <3>2. QED
      BY <1>9, <3>1 DEF TakesBind, b0
  <2> DEFINE q == [env |-> <<>>, bind |-> <<>>, image |-> image, args |-> rest]
  <2>3. read[3 + 2] = {q}
    BY <1>8
  <2>4. [q EXCEPT !.bind = b0 \o @] = [env |-> <<>>, bind |-> b0, image |-> image, args |-> rest]
    BY <1>11
  <2> HIDE DEF q
  <2>5. FlagAt(words, read, 3) = {[q EXCEPT !.bind = b0 \o @]}
    BY <2>2, <2>3
  <2>6. QED
    BY <2>1, <2>4, <2>5
<1>13. read[1] = {[env |-> data, bind |-> b0, image |-> image, args |-> rest] : data \in e}
  <2>1. read[1] = FlagAt(words, read, 1)
    BY <1>4, <1>7
  <2>2. FlagAt(words, read, 1) = {[r EXCEPT !.env = data \o @] : r \in read[1 + 2], data \in e}
    <3>1. FlagAt(words, read, 1) = TakesEnv(words, read[1 + 2], 1)
      BY <1>2, <1>5, <1>a, EnvRead
    <3>2. QED
      BY <1>9, <3>1 DEF TakesEnv, e
  <2> DEFINE q == [env |-> <<>>, bind |-> b0, image |-> image, args |-> rest]
  <2>3. read[1 + 2] = {q}
    BY <1>12
  <2>4. ASSUME NEW data \in e
        PROVE  [q EXCEPT !.env = data \o @]
                 = [env |-> data, bind |-> b0, image |-> image, args |-> rest]
    BY <1>11
  <2> HIDE DEF q
  <2>5. \A x : x \in FlagAt(words, read, 1)
                 <=> \E data \in e : x = [q EXCEPT !.env = data \o @]
    BY <2>2, <2>3, SMTT(30)
  <2>6. ASSUME NEW x \in read[1]
        PROVE  \E data \in e : x = [env |-> data, bind |-> b0, image |-> image, args |-> rest]
    <3>1. PICK data \in e : x = [q EXCEPT !.env = data \o @]
      BY <2>1, <2>5
    <3>2. x = [env |-> data, bind |-> b0, image |-> image, args |-> rest]
      BY <2>4, <3>1
    <3>3. QED
      BY <3>2
  <2>7. ASSUME NEW data \in e
        PROVE  [env |-> data, bind |-> b0, image |-> image, args |-> rest] \in read[1]
    <3> DEFINE x == [env |-> data, bind |-> b0, image |-> image, args |-> rest]
    <3>1. x = [q EXCEPT !.env = data \o @]
      BY <2>4
    <3> HIDE DEF x
    <3>2. x \in read[1]
      BY <2>1, <2>5, <3>1
    <3>3. QED
      BY <3>2 DEF x
  <2>8. QED
    BY <2>6, <2>7
<1>14. QED
  BY <1>7, <1>13 DEF words, five, e, b0

-----------------------------------------------------------------------------
(* The spec of a container that a behaviour writes for the door.           *)
ContainerInv ==
  /\ container \in [env : Seq(Assigned), mounts : Seq(Mounted), image : String,
                    root : SUBSET String, command : Seq(Spoken), args : Seq(Spoken)]
  /\ container.image # <<>>
  /\ \A root, other \in container.root : root = other

LEMMA SeqWidens == ASSUME NEW S, NEW T, S \subseteq T PROVE Seq(S) \subseteq Seq(T)
OBVIOUS

LEMMA WordsGiven ==
  /\ Assigned \subseteq String \ {<<>>} /\ \A v \in Assigned : Equals(v) # {}
  /\ Mounted \subseteq String \ {<<>>} /\ Spoken \subseteq String
  /\ \A i \in Images : /\ i.image \in String \ {<<>>} /\ i.root \in SUBSET String
                       /\ \A root, other \in i.root : root = other
<1>1. Tame \subseteq 0..255
  BY DEF Tame, space, percent, equals, underscore
<1>2. Seq(Tame) \subseteq String
  <2> DEFINE bytes == 0..255
  <2>1. Tame \subseteq bytes
    BY <1>1
  <2> HIDE DEF bytes
  <2>2. Seq(Tame) \subseteq Seq(bytes)
    BY <2>1, SeqWidens
  <2>3. QED
    BY <2>2 DEF String, bytes
<1>3. \A v \in Assigned : Equals(v) # {}
  BY WordAssumption DEF Equals
<1>4. <<>> \notin Assigned
  BY <1>3 DEF Equals
<1>5. QED
  BY <1>2, <1>3, <1>4, WordAssumption

LEMMA BareTyped ==
  /\ Bare \in [env : Seq(Assigned), mounts : Seq(Mounted), image : String, root : SUBSET String,
               command : Seq(Spoken), args : Seq(Spoken)]
  /\ Bare.image # <<>> /\ Bare.root = {}
<1>1. <<Letter, slash>> \in String /\ <<Letter, slash>> # <<>>
  BY DEF Letter, slash, String
<1>2. QED
  BY <1>1 DEF Bare

LEMMA ContainerInvariant == MCSpec => []ContainerInv
<1>1. MCInit => ContainerInv
  BY BareTyped DEF MCInit, ContainerInv
<1>2. ContainerInv /\ [MCNext]_<<vars, written>> => ContainerInv'
  <2> SUFFICES ASSUME ContainerInv, [MCNext]_<<vars, written>> PROVE ContainerInv'
    OBVIOUS
  <2>1. CASE UNCHANGED container
    BY <2>1 DEF ContainerInv
  <2>2. CASE Choose
    <3>1. CASE UNCHANGED container
      BY <2>1, <3>1
    <3>2. CASE \E i \in Images : container' = [Bare EXCEPT !.image = i.image, !.root = i.root]
      <4>1. PICK i \in Images : container' = [Bare EXCEPT !.image = i.image, !.root = i.root]
        BY <3>2
      <4>2. /\ i.image \in String \ {<<>>} /\ i.root \in SUBSET String
            /\ \A root, other \in i.root : root = other
        BY WordsGiven
      <4>3. /\ container' \in [env : Seq(Assigned), mounts : Seq(Mounted), image : String,
                               root : SUBSET String, command : Seq(Spoken), args : Seq(Spoken)]
            /\ container'.image = i.image /\ container'.root = i.root
        BY <4>1, <4>2, BareTyped
      <4>4. QED
        BY <4>2, <4>3 DEF ContainerInv
    <3>3. QED
      BY <2>2, <3>1, <3>2 DEF Choose
  <2>3. ASSUME NEW field \in {"env", "mounts", "command", "args"}, NEW given1,
               Extend(field, given1),
               /\ field = "env" => given1 = Assigned
               /\ field = "mounts" => given1 = Mounted
               /\ field \in {"command", "args"} => given1 = Spoken
        PROVE  ContainerInv'
    <3>1. PICK w \in given1 : container' = [container EXCEPT ![field] = Append(@, w)]
      BY <2>3 DEF Extend
    <3>2. /\ container'.image = container.image /\ container'.root = container.root
      BY <3>1 DEF ContainerInv
    <3>3. CASE field = "env"
      <4>1. Append(container.env, w) \in Seq(Assigned)
        BY <2>3, <3>3 DEF ContainerInv
      <4>2. QED
        BY <3>1, <3>2, <3>3, <4>1 DEF ContainerInv
    <3>4. CASE field = "mounts"
      <4>1. Append(container.mounts, w) \in Seq(Mounted)
        BY <2>3, <3>4 DEF ContainerInv
      <4>2. QED
        BY <3>1, <3>2, <3>4, <4>1 DEF ContainerInv
    <3>5. CASE field = "command"
      <4>1. Append(container.command, w) \in Seq(Spoken)
        BY <2>3, <3>5 DEF ContainerInv
      <4>2. QED
        BY <3>1, <3>2, <3>5, <4>1 DEF ContainerInv
    <3>6. CASE field = "args"
      <4>1. Append(container.args, w) \in Seq(Spoken)
        BY <2>3, <3>6 DEF ContainerInv
      <4>2. QED
        BY <3>1, <3>2, <3>6, <4>1 DEF ContainerInv
    <3>7. QED
      BY <3>3, <3>4, <3>5, <3>6
  <2>4. CASE Extend("env", Assigned) \/ Extend("mounts", Mounted)
               \/ \E field \in {"command", "args"} : Extend(field, Spoken)
    BY <2>3, <2>4
  <2>5. QED
    BY <2>1, <2>2, <2>4 DEF MCNext, Write, Type, written
<1>3. QED
  BY <1>1, <1>2, PTL DEF MCSpec

(* The container's own image, and what runs it as its spec says.            *)
OwnImages == IF container.image[1] = slash THEN {root \o container.image : root \in container.root}
       ELSE {Docker \o container.image}
Command == AllWords(container.command \o container.args, space)
AsDeclared(image) ==
  [env |-> container.env, bind |-> container.mounts, image |-> image, args |-> Command]
Line == Shell(produce_slurm_script(container))
Clean ==
  /\ container.env # <<>> /\ container.mounts # <<>> /\ Command # <<>>
  /\ container.env \in Seq(Without(space)) /\ container.mounts \in Seq(Without(space))
  /\ container.mounts \in Seq(Without(comma))
  /\ container.env \in Seq(Without(comma)) \/ Sole(container.env)
  /\ \E image \in OwnImages : image \in Without(space) /\ ~IsFlag(image)

LEMMA ListWithout ==
  ASSUME NEW list \in Seq(String), NEW byte
  PROVE  (\A i \in DOMAIN list : ~\E k \in DOMAIN list[i] : list[i][k] = byte)
           <=> list \in Seq(Without(byte))
<1>1. Len(list) \in Nat /\ DOMAIN list = 1..Len(list) /\ \A i \in 1..Len(list) : list[i] \in String
  OBVIOUS
<1>2. ASSUME NEW s \in String
      PROVE  (~\E k \in DOMAIN s : s[k] = byte) <=> s \in Without(byte)
  BY StringFacts DEF Without
<1>3. list = [i \in 1..Len(list) |-> list[i]]
  OBVIOUS
<1>4. list \in Seq(Without(byte)) => \A i \in 1..Len(list) : list[i] \in Without(byte)
  OBVIOUS
<1>5. (\A i \in 1..Len(list) : list[i] \in Without(byte)) => list \in Seq(Without(byte))
  BY <1>1, <1>3
<1>6. QED
  BY <1>1, <1>2, <1>4, <1>5

LEMMA GivenContainer ==
  ASSUME ContainerInv
  PROVE  /\ container.env \in Seq(String) /\ container.mounts \in Seq(String)
         /\ container.env \in Seq(String \ {<<>>}) /\ container.mounts \in Seq(String \ {<<>>})
         /\ \A i \in DOMAIN container.env : Equals(container.env[i]) # {}
         /\ container.command \in Seq(String) /\ container.args \in Seq(String)
         /\ container.image \in String /\ container.image # <<>>
<1>1. /\ container.env \in Seq(Assigned) /\ container.mounts \in Seq(Mounted)
      /\ container.command \in Seq(Spoken) /\ container.args \in Seq(Spoken)
      /\ container.image \in String /\ container.image # <<>>
  BY DEF ContainerInv
<1>2. /\ Assigned \subseteq String \ {<<>>} /\ \A v \in Assigned : Equals(v) # {}
      /\ Mounted \subseteq String \ {<<>>} /\ Spoken \subseteq String
  BY WordsGiven
<1>3. /\ container.env \in Seq(String \ {<<>>}) /\ container.mounts \in Seq(String \ {<<>>})
      /\ container.command \in Seq(String) /\ container.args \in Seq(String)
  BY <1>1, <1>2, SeqMonotonic
<1>4. container.env \in Seq(String) /\ container.mounts \in Seq(String)
  <2>1. String \ {<<>>} \subseteq String
    OBVIOUS
  <2>2. QED
    BY <1>3, <2>1, SeqMonotonic
<1>5. \A i \in DOMAIN container.env : Equals(container.env[i]) # {}
  <2> DEFINE env == container.env
  <2>1. env \in Seq(Assigned)
    BY <1>1
  <2> HIDE DEF env
  <2>2. \A i \in DOMAIN env : env[i] \in Assigned
    BY <2>1
  <2>3. \A i \in DOMAIN env : Equals(env[i]) # {}
    BY <1>2, <2>2
  <2>4. QED
    BY <2>3 DEF env
<1>6. QED
  BY <1>1, <1>3, <1>4, <1>5

(* There is one image at most, and it is the word the door writes.          *)
LEMMA OwnIsWord ==
  ASSUME ContainerInv, NEW image \in OwnImages
  PROVE  image = ImageWord(container) /\ image \in String /\ image # <<>>
<1> DEFINE own == container.image
<1>1. own \in String /\ own # <<>> /\ Head(own) = own[1] /\ Path = slash
  <2>1. own \in Seq(0..255) /\ own # <<>>
    BY GivenContainer DEF String
  <2>2. Head(own) = own[1]
    BY <2>1
  <2>3. QED
    BY <2>1, <2>2 DEF String, Path, slash
<1>2. ASSUME NEW s \in String PROVE s \o own \in String /\ s \o own # <<>>
  <2> HIDE DEF own
  <2>1. s \o own \in String /\ Len(s \o own) = Len(s) + Len(own)
    BY <1>1, ConcatString
  <2>2. Len(own) > 0 /\ Len(s) \in Nat /\ Len(own) \in Nat
    BY <1>1, StringFacts
  <2> DEFINE t == s \o own
  <2> HIDE DEF t
  <2>3. t # <<>>
    <3>1. Len(t) > 0
      BY <2>1, <2>2 DEF t
    <3>2. QED
      BY <3>1
  <2>4. QED
    BY <2>1, <2>3 DEF t
<1>3. CASE own[1] = slash
  <2>1. PICK root \in container.root : image = root \o own
    BY <1>3 DEF OwnImages
  <2>2. (CHOOSE r \in container.root : TRUE) = root /\ container.root # {} /\ root \in String
    BY DEF ContainerInv
  <2>3. ImageWord(container) = root \o own
    BY <1>1, <1>3, <2>2 DEF ImageWord
  <2>4. QED
    BY <1>2, <2>1, <2>2, <2>3
<1>4. CASE own[1] # slash
  <2>1. image = Docker \o own
    BY <1>4 DEF OwnImages
  <2>2. ImageWord(container) = Docker \o own
    BY <1>1, <1>4 DEF ImageWord
  <2>3. Docker \in String
    BY DEF Docker, String
  <2>4. QED
    BY <1>2, <2>1, <2>2, <2>3
<1>5. QED
  BY <1>3, <1>4

LEMMA AppendIs ==
  ASSUME NEW E, NEW ss \in Seq(E), NEW x \in E, NEW tt \in Seq(E), Len(tt) = Len(ss) + 1,
         \A i \in 1..Len(ss) : tt[i] = ss[i], tt[Len(ss) + 1] = x
  PROVE  tt = ss \o <<x>>
<1> DEFINE r == Append(ss, x)
<1>1. /\ r \in Seq(E) /\ Len(r) = Len(ss) + 1 /\ Len(ss) \in Nat
      /\ \A i \in 1..Len(ss) : r[i] = ss[i]
      /\ r[Len(ss) + 1] = x
  OBVIOUS
<1>2. r = ss \o <<x>>
  BY AppendFacts
<1> HIDE DEF r
<1>3. ASSUME NEW i \in 1..Len(tt) PROVE tt[i] = r[i]
  <2>1. CASE i \in 1..Len(ss)
    BY <1>1, <2>1
  <2>2. CASE i = Len(ss) + 1
    BY <1>1, <2>2
  <2>3. QED
    BY <1>1, <2>1, <2>2
<1>4. tt = r
  BY <1>1, <1>3
<1>5. QED
  BY <1>2, <1>4

LEMMA ListOfTwo ==
  ASSUME NEW a \in String, NEW b \in String
  PROVE  <<a>> \o <<>> = <<a>> /\ <<a>> \o <<b>> = <<a, b>>
<1> DEFINE l1 == <<a>>  l2 == <<a, b>>
<1>1. l1 \in Seq(String) /\ Len(l1) = 1 /\ l1[1] = a
  OBVIOUS
<1>2. l2 \in Seq(String) /\ Len(l2) = 2 /\ l2[1] = a /\ l2[2] = b
  OBVIOUS
<1> HIDE DEF l1, l2
<1>3. l2 = l1 \o <<b>>
  <2>1. Len(l2) = Len(l1) + 1 /\ l2[Len(l1) + 1] = b
    BY <1>1, <1>2
  <2>2. \A i \in 1..Len(l1) : l2[i] = l1[i]
    BY <1>1, <1>2
  <2>3. QED
    BY <1>1, <1>2, <2>1, <2>2, AppendIs
<1>4. l1 \o <<>> = l1
  BY <1>1, ConcatEmptySeq
<1>5. QED
  BY <1>3, <1>4 DEF l1, l2

LEMMA ListOfThree ==
  ASSUME NEW a \in String, NEW b \in String, NEW c \in String
  PROVE  (<<a>> \o <<b>>) \o <<c>> = <<a, b, c>>
<1> DEFINE l2 == <<a, b>>  l3 == <<a, b, c>>
<1>1. l2 \in Seq(String) /\ Len(l2) = 2 /\ l2[1] = a /\ l2[2] = b
  OBVIOUS
<1>2. l3 \in Seq(String) /\ Len(l3) = 3 /\ l3[1] = a /\ l3[2] = b /\ l3[3] = c
  OBVIOUS
<1>3. <<a>> \o <<b>> = l2
  BY ListOfTwo
<1> HIDE DEF l2, l3
<1>4. l3 = l2 \o <<c>>
  <2>1. Len(l3) = Len(l2) + 1 /\ l3[Len(l2) + 1] = c
    BY <1>1, <1>2
  <2>2. \A i \in 1..Len(l2) : l3[i] = l2[i]
    BY <1>1, <1>2
  <2>3. QED
    BY <1>1, <1>2, <2>1, <2>2, AppendIs
<1>5. QED
  BY <1>3, <1>4 DEF l3

LEMMA ListOfFive ==
  ASSUME NEW a \in String, NEW b \in String, NEW c \in String, NEW d \in String, NEW e \in String
  PROVE  (<<a, b>> \o <<c, d>>) \o <<e>> = <<a, b, c, d, e>>
<1> DEFINE l2 == <<a, b>>  m == <<c, d>>  l4 == <<a, b, c, d>>  l5 == <<a, b, c, d, e>>
<1>1. l2 \in Seq(String) /\ Len(l2) = 2 /\ l2[1] = a /\ l2[2] = b
  OBVIOUS
<1>2. m \in Seq(String) /\ Len(m) = 2 /\ m[1] = c /\ m[2] = d
  OBVIOUS
<1>3. l4 \in Seq(String) /\ Len(l4) = 4 /\ l4[1] = a /\ l4[2] = b /\ l4[3] = c /\ l4[4] = d
  OBVIOUS
<1>4. /\ l5 \in Seq(String) /\ Len(l5) = 5
      /\ l5[1] = a /\ l5[2] = b /\ l5[3] = c /\ l5[4] = d /\ l5[5] = e
  OBVIOUS
<1> HIDE DEF l2, m, l4, l5
<1>5. l4 = l2 \o m
  <2> DEFINE r == l2 \o m
  <2>1. /\ \A i \in 1..Len(l2) + Len(m) : r[i] = IF i <= Len(l2) THEN l2[i] ELSE m[i - Len(l2)]
        /\ r \in Seq(String) /\ Len(r) = Len(l2) + Len(m)
    BY <1>1, <1>2, ConcatProperties
  <2> HIDE DEF r
  <2>2. Len(r) = 4 /\ \A i \in 1..4 : r[i] = IF i <= 2 THEN l2[i] ELSE m[i - 2]
    BY <1>1, <1>2, <2>1
  <2>3. 3 - 2 = 1 /\ 4 - 2 = 2
    OBVIOUS
  <2>4. r[1] = a /\ r[2] = b /\ r[3] = c /\ r[4] = d
    BY <1>1, <1>2, <2>2, <2>3
  <2>5. \A i \in 1..4 : l4[i] = r[i]
    BY <1>3, <2>4
  <2>6. l4 = r
    <3>1. Len(l4) = Len(r) /\ \A i \in 1..Len(l4) : l4[i] = r[i]
      BY <1>3, <2>2, <2>5
    <3>2. QED
      BY <1>3, <2>1, <3>1, SeqEqual
  <2>7. QED
    BY <2>6 DEF r
<1>6. l5 = l4 \o <<e>>
  <2>1. Len(l5) = Len(l4) + 1 /\ l5[Len(l4) + 1] = e
    BY <1>3, <1>4
  <2>2. \A i \in 1..Len(l4) : l5[i] = l4[i]
    BY <1>3, <1>4
  <2>3. QED
    BY <1>3, <1>4, <2>1, <2>2, AppendIs
<1>7. QED
  BY <1>5, <1>6 DEF l2, m, l5

LEMMA FlagLists ==
  ASSUME NEW env \in String, NEW bind \in String, NEW word \in String
  PROVE  /\ (<<EnvFlag>> \o <<BindFlag>>) \o <<word>> = <<EnvFlag, BindFlag, word>>
         /\ (<<EnvFlag, env>> \o <<BindFlag, bind>>) \o <<word>>
              = <<EnvFlag, env, BindFlag, bind, word>>
<1> DEFINE a == EnvFlag  c == BindFlag
<1>1. a \in String /\ c \in String
  BY FlagsDiffer
<1> HIDE DEF a, c
<1>2. (<<a>> \o <<c>>) \o <<word>> = <<a, c, word>>
  BY <1>1, ListOfThree
<1>3. (<<a, env>> \o <<c, bind>>) \o <<word>> = <<a, env, c, bind, word>>
  BY <1>1, ListOfFive
<1>4. QED
  BY <1>2, <1>3 DEF a, c

(* What a longer list of lines is cut into, at the spaces.                   *)
LEMMA AllWordsGrow ==
  /\ AllWords(<<>>, space) = <<>>
  /\ \A lines \in Seq(String), line \in String :
       AllWords(Append(lines, line), space) = AllWords(lines, space) \o Words(line, space)
<1>1. AllWords(<<>>, space) = <<>>
  BY AllWordsNone
<1>2. ASSUME NEW lines \in Seq(String), NEW line \in String
      PROVE  AllWords(Append(lines, line), space) = AllWords(lines, space) \o Words(line, space)
  BY AllWordsMore
<1>3. QED
  BY <1>1, <1>2

(* What a line keeps of a flag and its data: nothing is left of the data     *)
(* when there is none.                                                       *)
LEMMA FlagWords ==
  ASSUME NEW flag \in Without(space) \ {<<>>}, NEW list \in Seq(Without(space) \ {<<>>})
  PROVE  /\ Join(list, comma) \in String
         /\ list = <<>> => AllWords(<<NoWord, flag, Join(list, comma)>>, space) = <<flag>>
         /\ list # <<>> => AllWords(<<NoWord, flag, Join(list, comma)>>, space)
                             = <<flag, Join(list, comma)>>
<1> DEFINE data == Join(list, comma)
<1>1. space \in 0..255 /\ comma \in 0..255 /\ comma # space
  BY DEF space, comma
<1>3. data \in Without(space) /\ (list # <<>> => data # <<>>)
  BY <1>1, JoinOneWord
<1>4. list = <<>> => data = <<>>
  BY DEF Join, NoWord
<1> HIDE DEF data
<1>6. /\ NoWord \in String /\ flag \in String /\ data \in String /\ NoWord = <<>>
      /\ \A i \in 1..Len(NoWord) : NoWord[i] # space
      /\ \A i \in 1..Len(flag) : flag[i] # space
      /\ \A i \in 1..Len(data) : data[i] # space
  <2>1. NoWord = <<>> /\ <<>> \in String /\ Len(<<>>) = 0
    BY EmptySeq DEF NoWord, String
  <2>2. \A i \in 1..Len(NoWord) : NoWord[i] # space
    BY <2>1
  <2>3. QED
    BY <1>3, <2>1, <2>2 DEF Without
<1>7. /\ Words(NoWord, space) = <<>> /\ Words(flag, space) = <<flag>>
      /\ Words(data, space) = IF data = <<>> THEN <<>> ELSE <<data>>
  <2>1. Words(NoWord, space) = IF NoWord = NoWord THEN <<>> ELSE <<NoWord>>
    BY <1>6, WordsOne
  <2>2. Words(flag, space) = IF flag = NoWord THEN <<>> ELSE <<flag>>
    BY <1>6, WordsOne
  <2>3. Words(data, space) = IF data = NoWord THEN <<>> ELSE <<data>>
    BY <1>6, WordsOne
  <2>4. QED
    BY <1>6, <2>1, <2>2, <2>3
<1>8. /\ <<NoWord>> \in Seq(String) /\ <<NoWord, flag>> \in Seq(String)
      /\ <<NoWord>> = Append(<<>>, NoWord)
      /\ <<NoWord, flag>> = Append(<<NoWord>>, flag)
      /\ <<NoWord, flag, data>> = Append(<<NoWord, flag>>, data)
      /\ <<NoWord, flag, data>> \in Seq(String) /\ <<>> \in Seq(String)
  BY <1>6
<1>9. /\ <<>> \o <<>> = <<>> /\ <<>> \o <<flag>> = <<flag>>
      /\ <<flag>> \o <<>> = <<flag>> /\ <<flag>> \o <<data>> = <<flag, data>>
  <2>1. <<flag>> \in Seq(String) /\ <<>> \in Seq(String)
    BY <1>6
  <2>2. QED
    <3>1. <<flag>> \o <<>> = <<flag>> /\ <<flag>> \o <<data>> = <<flag, data>>
      BY <1>6, ListOfTwo
    <3>2. <<>> \o <<>> = <<>> /\ <<>> \o <<flag>> = <<flag>>
      BY <2>1, ConcatEmptySeq
    <3>3. QED
      BY <3>1, <3>2
<1>10. AllWords(<<NoWord, flag>>, space) = <<flag>>
  <2>1. AllWords(<<NoWord>>, space) = <<>> \o Words(NoWord, space)
    BY <1>6, <1>8, AllWordsGrow
  <2>2. AllWords(<<NoWord, flag>>, space) = AllWords(<<NoWord>>, space) \o Words(flag, space)
    BY <1>6, <1>8, AllWordsGrow
  <2>3. QED
    BY <1>7, <1>9, <2>1, <2>2
<1>11. AllWords(<<NoWord, flag, data>>, space) = <<flag>> \o Words(data, space)
  <2>1. AllWords(<<NoWord, flag, data>>, space)
          = AllWords(<<NoWord, flag>>, space) \o Words(data, space)
    BY <1>6, <1>8, AllWordsGrow
  <2>2. QED
    BY <1>10, <2>1
<1>12. QED
  BY <1>3, <1>4, <1>6, <1>7, <1>8, <1>9, <1>11 DEF data

(* The flags are words.                                                      *)
LEMMA FlagsAreWords == EnvFlag \in Without(space) \ {<<>>} /\ BindFlag \in Without(space) \ {<<>>}
BY DEF EnvFlag, BindFlag, Without, String, space

LEMMA LinesTyped ==
  ASSUME ContainerInv
  PROVE  /\ prepare_env(container) \in Seq(String) /\ prepare_mounts(container) \in Seq(String)
         /\ ImageWord(container) \in String
         /\ create_container(container) \in Seq(String)
<1>1. /\ container.env \in Seq(String) /\ container.mounts \in Seq(String)
      /\ container.command \in Seq(String) /\ container.args \in Seq(String)
      /\ container.image \in String
  BY GivenContainer
<1>2. comma \in 0..255 /\ NoWord \in String /\ <<>> \in String
  BY DEF comma, NoWord, String
<1>3. Join(container.env, comma) \in String /\ Join(container.mounts, comma) \in String
  BY <1>1, <1>2, JoinMore
<1> DEFINE e == prepare_env(container)  m == prepare_mounts(container)
           word == ImageWord(container)  c == container.command  a == container.args
<1>4. e \in Seq(String) /\ m \in Seq(String)
  BY <1>2, <1>3, FlagsDiffer DEF prepare_env, prepare_mounts
<1>5. word \in String
  <2>1. Docker \o container.image \in String
    <3>1. Docker \in String
      BY DEF Docker, String
    <3>2. QED
      BY <1>1, <3>1, ConcatString
  <2>2. \A root \in container.root : root \o container.image \in String
    BY <1>1, ConcatString DEF ContainerInv
  <2>3. container.root # {} => (CHOOSE root \in container.root : TRUE) \in container.root
    OBVIOUS
  <2>4. QED
    BY <1>2, <2>1, <2>2, <2>3 DEF ImageWord
<1>6. create_container(container) = (((e \o m) \o <<word>>) \o c) \o a
  BY DEF create_container
<1> HIDE DEF e, m, word
<1>7. (((e \o m) \o <<word>>) \o c) \o a \in Seq(String)
  <2>1. <<word>> \in Seq(String)
    BY <1>5
  <2>2. (e \o m) \o <<word>> \in Seq(String)
    BY <1>4, <2>1, ConcatProperties
  <2>3. QED
    BY <1>1, <2>2, ConcatProperties
<1>8. QED
  BY <1>4, <1>5, <1>6, <1>7 DEF e, m, word

(* No word of the line holds a space.                                        *)
LEMMA LineWithout == ASSUME ContainerInv PROVE Line \in Seq(Without(space))
<1> DEFINE line == Join(create_container(container), space)
<1>1. line \in String
  <2>1. create_container(container) \in Seq(String) /\ space \in 0..255 /\ <<>> \in String
    BY LinesTyped DEF space, String
  <2>2. QED
    BY <2>1, JoinMore
<1> HIDE DEF line
<1>2. Words(line, space) \in Seq(Without(space))
  BY <1>1, WordsWithout
<1>3. QED
  BY <1>2 DEF Line, Shell, produce_slurm_script, line

(* The line, cut at its spaces.                                              *)
LEMMA LineWords ==
  ASSUME ContainerInv, ImageWord(container) \in Without(space) \ {<<>>}
  PROVE  Line =
           (((AllWords(prepare_env(container), space) \o AllWords(prepare_mounts(container), space))
              \o <<ImageWord(container)>>)
             \o AllWords(container.command, space)) \o AllWords(container.args, space)
<1> DEFINE e == prepare_env(container)  m == prepare_mounts(container)
           word == ImageWord(container)  c == container.command  a == container.args
<1>1. space \in 0..255
  BY DEF space
<1>2. e \in Seq(String) /\ m \in Seq(String)
  BY LinesTyped
<1>3. c \in Seq(String) /\ a \in Seq(String)
  BY GivenContainer
<1>4. word \in Without(space) \ {<<>>}
  OBVIOUS
<1>5. produce_slurm_script(container) = Join((((e \o m) \o <<word>>) \o c) \o a, space)
  BY DEF produce_slurm_script, create_container
<1> HIDE DEF e, m, word, c, a
<1>6. word \in String /\ <<word>> \in Seq(String) /\ <<>> \in Seq(String)
      /\ <<word>> = Append(<<>>, word)
  BY <1>4 DEF Without
<1>7. AllWords(<<word>>, space) = <<word>>
  <2>1. Words(word, space) = IF word = NoWord THEN <<>> ELSE <<word>>
    BY <1>4, <1>6, WordsOne DEF Without
  <2>2. Words(word, space) = <<word>>
    BY <1>4, <2>1 DEF NoWord
  <2>3. AllWords(<<word>>, space) = <<>> \o Words(word, space)
    BY <1>6, AllWordsGrow
  <2>4. <<>> \o <<word>> = <<word>>
    BY <1>6, ConcatEmptySeq
  <2>5. QED
    BY <2>2, <2>3, <2>4
<1>8. AllWords(e \o m, space) = AllWords(e, space) \o AllWords(m, space)
  BY <1>2, AllWordsTwo
<1>9. e \o m \in Seq(String)
  BY <1>2
<1>10. AllWords((e \o m) \o <<word>>, space) = AllWords(e \o m, space) \o <<word>>
  <2>1. AllWords((e \o m) \o <<word>>, space) = AllWords(e \o m, space) \o AllWords(<<word>>, space)
    <3> DEFINE left == e \o m  right == <<word>>
    <3>1. left \in Seq(String) /\ right \in Seq(String)
      BY <1>6, <1>9
    <3> HIDE DEF left, right
    <3>2. AllWords(left \o right, space) = AllWords(left, space) \o AllWords(right, space)
      BY <3>1, AllWordsTwo
    <3>3. QED
      BY <3>2 DEF left, right
  <2>2. QED
    BY <1>7, <2>1
<1>11. (e \o m) \o <<word>> \in Seq(String)
  BY <1>6, <1>9
<1>12. AllWords(((e \o m) \o <<word>>) \o c, space) =
         AllWords((e \o m) \o <<word>>, space) \o AllWords(c, space)
  BY <1>3, <1>11, AllWordsTwo
<1>13. ((e \o m) \o <<word>>) \o c \in Seq(String)
  BY <1>3, <1>11
<1>14. AllWords((((e \o m) \o <<word>>) \o c) \o a, space) =
         AllWords(((e \o m) \o <<word>>) \o c, space) \o AllWords(a, space)
  BY <1>3, <1>13, AllWordsTwo
<1>15. (((e \o m) \o <<word>>) \o c) \o a \in Seq(String)
  BY <1>3, <1>13
<1>16. Shell(produce_slurm_script(container)) = AllWords((((e \o m) \o <<word>>) \o c) \o a, space)
  BY <1>1, <1>5, <1>15, JoinWords DEF Shell
<1>17. Shell(produce_slurm_script(container)) =
         (((AllWords(e, space) \o AllWords(m, space)) \o <<word>>) \o AllWords(c, space))
           \o AllWords(a, space)
  BY <1>8, <1>10, <1>12, <1>14, <1>16
<1>18. QED
  BY <1>17 DEF e, m, word, c, a, Line

(* Where the words of a line stand.                                          *)
LEMMA LineStarts ==
  ASSUME NEW e \in Seq(String), NEW m \in Seq(String), NEW word \in String,
         NEW c \in Seq(String), NEW a \in Seq(String), NEW line,
         line = (((e \o m) \o <<word>>) \o c) \o a
  PROVE  /\ line \in Seq(String) /\ Len(line) = Len(e) + Len(m) + 1 + Len(c) + Len(a)
         /\ \A i \in 1..Len(e) : line[i] = e[i]
         /\ \A i \in 1..Len(m) : line[Len(e) + i] = m[i]
<1> DEFINE p == e \o m  q == p \o <<word>>  r == q \o c
<1>0. /\ Len(e) \in Nat /\ Len(m) \in Nat /\ Len(c) \in Nat /\ Len(a) \in Nat
      /\ <<word>> \in Seq(String) /\ Len(<<word>>) = 1
  OBVIOUS
<1>1. /\ p \in Seq(String) /\ Len(p) = Len(e) + Len(m)
      /\ \A i \in 1..Len(e) : p[i] = e[i]
      /\ \A i \in 1..Len(m) : p[Len(e) + i] = m[i]
  BY ConcatWords
<1> DEFINE w == <<word>>
<1> HIDE DEF p, w
<1>2. q \in Seq(String) /\ Len(q) = Len(p) + 1 /\ \A i \in 1..Len(p) : q[i] = p[i]
  <2>1. w \in Seq(String) /\ Len(w) = 1
    BY <1>0 DEF w
  <2>2. p \o w \in Seq(String) /\ Len(p \o w) = Len(p) + Len(w) /\ \A i \in 1..Len(p) : (p \o w)[i] = p[i]
    BY <1>1, <2>1, ConcatWords
  <2>3. QED
    BY <2>1, <2>2 DEF w
<1> HIDE DEF q
<1>3. r \in Seq(String) /\ Len(r) = Len(q) + Len(c) /\ \A i \in 1..Len(q) : r[i] = q[i]
  BY <1>2, ConcatWords
<1> HIDE DEF r
<1>4. line \in Seq(String) /\ Len(line) = Len(r) + Len(a) /\ \A i \in 1..Len(r) : line[i] = r[i]
  <2>1. line = r \o a
    BY DEF r, q, p
  <2>2. /\ r \o a \in Seq(String) /\ Len(r \o a) = Len(r) + Len(a)
        /\ \A i \in 1..Len(r) : (r \o a)[i] = r[i]
    BY <1>3, ConcatWords
  <2>3. QED
    BY <2>1, <2>2, Zenon
<1>5. Len(line) = Len(e) + Len(m) + 1 + Len(c) + Len(a)
  BY <1>0, <1>1, <1>2, <1>3, <1>4
<1>6. \A i \in 1..Len(p) : line[i] = p[i]
  <2>1. \A i \in 1..Len(p) : i \in 1..Len(q) /\ i \in 1..Len(r)
    BY <1>0, <1>1, <1>2, <1>3
  <2>2. QED
    BY <1>2, <1>3, <1>4, <2>1
<1>7. /\ \A i \in 1..Len(e) : i \in 1..Len(p)
      /\ \A i \in 1..Len(m) : Len(e) + i \in 1..Len(p)
  BY <1>0, <1>1
<1>8. QED
  BY <1>1, <1>4, <1>5, <1>6, <1>7

LEMMA CommandWords ==
  ASSUME ContainerInv
  PROVE  /\ AllWords(container.command, space) \in Seq(String)
         /\ AllWords(container.args, space) \in Seq(String)
         /\ Command \in Seq(String)
         /\ Command = AllWords(container.command, space) \o AllWords(container.args, space)
         /\ Len(Command) = Len(AllWords(container.command, space))
                             + Len(AllWords(container.args, space))
<1> DEFINE c == AllWords(container.command, space)  a == AllWords(container.args, space)
<1>1. container.command \in Seq(String) /\ container.args \in Seq(String)
  BY GivenContainer
<1>2. c \in Seq(String) /\ a \in Seq(String)
  BY <1>1, AllWordsTyped
<1>3. Command = c \o a
  BY <1>1, AllWordsTwo DEF Command
<1> HIDE DEF c, a
<1>4. c \o a \in Seq(String) /\ Len(c \o a) = Len(c) + Len(a)
  BY <1>2, ConcatWords
<1>5. QED
  BY <1>2, <1>3, <1>4 DEF c, a

(* What is read of a line without spaces in its variables and mounts.        *)
LEMMA LineReads ==
  ASSUME ContainerInv, container.env \in Seq(Without(space)), container.mounts \in Seq(Without(space)),
         ImageWord(container) \in Without(space) \ {<<>>}, ~IsFlag(ImageWord(container)),
         Command # <<>>
  PROVE  /\ container.env = <<>> => Singularity(Line) = {}
         /\ container.env # <<>> /\ container.mounts = <<>> =>
              \A r \in Singularity(Line) : r.args # Command
         /\ container.env # <<>> /\ container.mounts # <<>> =>
              Singularity(Line) =
                {[env |-> data, bind |-> Words(Join(container.mounts, comma), comma),
                  image |-> ImageWord(container), args |-> Command] :
                   data \in Assignments(Join(container.env, comma))}
<1> DEFINE env == container.env  mounts == container.mounts  word == ImageWord(container)
           data == Join(env, comma)  binds == Join(mounts, comma)
           flags == AllWords(prepare_env(container), space)
           binding == AllWords(prepare_mounts(container), space)
           C == AllWords(container.command, space)  A == AllWords(container.args, space)
<1>1. env \in Seq(Without(space) \ {<<>>}) /\ mounts \in Seq(Without(space) \ {<<>>})
  <2>1. \A list \in Seq(Without(space)) :
          list \in Seq(String \ {<<>>}) => list \in Seq(Without(space) \ {<<>>})
    <3>1. SUFFICES ASSUME NEW list \in Seq(Without(space)), list \in Seq(String \ {<<>>})
                   PROVE  list \in Seq(Without(space) \ {<<>>})
      OBVIOUS
    <3>2. Len(list) \in Nat /\ \A i \in 1..Len(list) : list[i] \in Without(space) \ {<<>>}
      BY <3>1
    <3>3. list = [i \in 1..Len(list) |-> list[i]]
      OBVIOUS
    <3>4. QED
      BY <3>2, <3>3
  <2>2. QED
    BY <2>1, GivenContainer
<1>2. /\ data \in String /\ binds \in String
      /\ flags = IF env = <<>> THEN <<EnvFlag>> ELSE <<EnvFlag, data>>
      /\ binding = IF mounts = <<>> THEN <<BindFlag>> ELSE <<BindFlag, binds>>
  BY <1>1, FlagWords, FlagsAreWords DEF prepare_env, prepare_mounts
<1>3. word \in String /\ EnvFlag \in String /\ BindFlag \in String
  BY FlagsDiffer DEF Without
<1>4. C \in Seq(String) /\ A \in Seq(String) /\ Command = C \o A /\ Len(Command) = Len(C) + Len(A)
  BY CommandWords
<1>5. Line = (((flags \o binding) \o <<word>>) \o C) \o A
  BY LineWords
<1>6. Line \in Seq(Without(space))
  BY LineWithout
<1>7. /\ flags \in Seq(String) /\ flags[1] = EnvFlag
      /\ Len(flags) = IF env = <<>> THEN 1 ELSE 2
  <2> HIDE DEF flags, data
  <2>1. QED
    BY <1>2, <1>3
<1>8. /\ binding \in Seq(String) /\ binding[1] = BindFlag
      /\ Len(binding) = IF mounts = <<>> THEN 1 ELSE 2
  <2> HIDE DEF binding, binds
  <2>1. QED
    BY <1>2, <1>3
<1> HIDE DEF flags, binding, C, A, word, data, binds
<1>9. /\ Line \in Seq(String) /\ Len(Line) = Len(flags) + Len(binding) + 1 + Len(C) + Len(A)
      /\ \A i \in 1..Len(flags) : Line[i] = flags[i]
      /\ \A i \in 1..Len(binding) : Line[Len(flags) + i] = binding[i]
  <2> DEFINE line == Line
  <2>1. line = (((flags \o binding) \o <<word>>) \o C) \o A
    BY <1>5
  <2>2. flags \in Seq(String) /\ binding \in Seq(String) /\ word \in String /\ C \in Seq(String) /\ A \in Seq(String)
    BY <1>3, <1>4, <1>7, <1>8
  <2> HIDE DEF line, env, mounts
  <2>3. /\ line \in Seq(String) /\ Len(line) = Len(flags) + Len(binding) + 1 + Len(C) + Len(A)
        /\ \A i \in 1..Len(flags) : line[i] = flags[i]
        /\ \A i \in 1..Len(binding) : line[Len(flags) + i] = binding[i]
    BY <2>1, <2>2, LineStarts, SMTT(30)
  <2>4. QED
    BY <2>3 DEF line
<1>10. /\ Len(C) \in Nat /\ Len(A) \in Nat /\ Len(flags) \in 1..2 /\ Len(binding) \in 1..2
       /\ Line[1] = EnvFlag /\ Line[Len(flags) + 1] = BindFlag
  <2>1. Len(C) \in Nat /\ Len(A) \in Nat /\ Len(flags) \in 1..2 /\ Len(binding) \in 1..2
    BY <1>4, <1>7, <1>8
  <2>2. 1 \in 1..Len(flags) /\ 1 \in 1..Len(binding)
    <3>1. \A n \in 1..2 : 1 \in 1..n
      OBVIOUS
    <3>2. QED
      BY <2>1, <3>1, Zenon
  <2>3. QED
    BY <1>7, <1>8, <1>9, <2>1, <2>2
<1>11. ASSUME env = <<>> PROVE Singularity(Line) = {}
  <2>1. Len(flags) = 1 /\ Line[2] = BindFlag
    BY <1>7, <1>10, <1>11
  <2>2. Len(Line) > 1
    <3>1. \A c, a \in Nat, n, m \in 1..2 : n + m + 1 + c + a > 1
      OBVIOUS
    <3>2. Len(flags) + Len(binding) + 1 + Len(C) + Len(A) > 1
      BY <1>10, <3>1, Zenon
    <3>3. QED
      BY <1>9, <3>2, Zenon
  <2>3. QED
    BY <1>9, <1>10, <2>1, <2>2, ReadsNoVariables
<1>12. ASSUME env # <<>>, mounts = <<>>, NEW r \in Singularity(Line) PROVE r.args # Command
  <2>1. Len(flags) = 2 /\ Len(binding) = 1 /\ Line[3] = BindFlag
    BY <1>7, <1>8, <1>10, <1>12
  <2>2. Len(Line) = 4 + Len(C) + Len(A) /\ Len(Line) > 2
    BY <1>9, <1>10, <2>1
  <2>3. Len(r.args) <= Len(Line) - 5
    BY <1>6, <1>10, <2>1, <2>2, ReadsNoMounts
  <2>4. Len(r.args) # Len(Command)
    <3>1. Len(Line) - 5 < Len(Command) /\ Len(Line) - 5 \in Int /\ Len(Command) \in Nat
      BY <1>4, <1>10, <2>2
    <3>2. SUFFICES ASSUME Len(r.args) = Len(Command) PROVE FALSE
      OBVIOUS
    <3>3. Len(Command) <= Len(Line) - 5
      BY <2>3, <3>2
    <3> DEFINE left == Len(Command)  right == Len(Line) - 5
    <3>4. left <= right /\ right < left /\ left \in Nat /\ right \in Int
      BY <3>1, <3>3
    <3> HIDE DEF left, right
    <3>5. QED
      BY <3>4
  <2>5. QED
    BY <2>4
<1>13. ASSUME env # <<>>, mounts # <<>>
       PROVE  Singularity(Line) =
                {[env |-> d, bind |-> Words(binds, comma), image |-> word, args |-> Command] :
                   d \in Assignments(data)}
  <2> DEFINE five == <<EnvFlag, data, BindFlag, binds, word>>
  <2>1. (flags \o binding) \o <<word>> = five
    BY <1>2, <1>3, <1>13, FlagLists
  <2>2. five \in Seq(String)
    BY <1>2, <1>3
  <2>3. Line = (five \o C) \o A
    BY <1>5, <2>1
  <2>4. (five \o C) \o A = five \o (C \o A)
    <3> HIDE DEF five
    <3>1. Associates(five, C, A)
      BY <1>4, <2>2, ListsAssociate
    <3>2. QED
      BY <3>1 DEF Associates
  <2>5. Command \in Seq(String) /\ ~IsFlag(word) /\ Command # <<>>
    BY CommandWords DEF word
  <2>6. Singularity(five \o Command) =
          {[env |-> d, bind |-> Words(binds, comma), image |-> word, args |-> Command] :
             d \in Assignments(data)}
    BY <1>2, <1>3, <2>5, ReadsBoth
  <2>7. Line = five \o Command
    BY <1>4, <2>3, <2>4
  <2>8. QED
    BY <2>6, <2>7
<1>14. QED
  BY <1>11, <1>12, <1>13 DEF word, data, binds

LEMMA CommandIs ==
  ASSUME ContainerInv
  PROVE  (\E image \in OwnImages : AsDeclared(image) \in Singularity(Line)) <=> Clean
<1> DEFINE env == container.env  mounts == container.mounts  word == ImageWord(container)
           data == Join(env, comma)  binds == Join(mounts, comma)
<1>1. /\ env \in Seq(String \ {<<>>}) /\ \A i \in DOMAIN env : Equals(env[i]) # {}
      /\ mounts \in Seq(String \ {<<>>}) /\ mounts \in Seq(String)
  BY GivenContainer
<1>2. ASSUME env # <<>>
      PROVE  env \in Assignments(data) <=> env \in Seq(Without(comma)) \/ Sole(env)
  BY <1>1, <1>2, AssignmentsBack
<1>3. ASSUME mounts \in Seq(Without(comma)) PROVE Words(binds, comma) = mounts
  <2>1. comma \in 0..255
    BY DEF comma
  <2>2. mounts \in Seq(Without(comma) \ {<<>>})
    <3>1. Len(mounts) \in Nat /\ \A i \in 1..Len(mounts) : mounts[i] \in Without(comma) \ {<<>>}
      BY <1>1, <1>3
    <3>2. mounts = [i \in 1..Len(mounts) |-> mounts[i]]
      BY <1>1
    <3> HIDE DEF mounts
    <3>3. QED
      BY <3>1, <3>2
  <2>3. QED
    BY <2>1, <2>2, WordsOfWords
<1>4. ASSUME NEW image \in OwnImages, AsDeclared(image) \in Singularity(Line) PROVE Clean
  <2> DEFINE target == AsDeclared(image)
  <2>1. /\ target.env = env /\ target.bind = mounts /\ target.image = image
        /\ target.args = Command
    BY DEF AsDeclared
  <2> HIDE DEF target
  <2>2. Line \in Seq(Without(space)) /\ Line \in Seq(String)
    BY LineWithout, ListsAreStrings
  <2>3. Good(Line, 1, target)
    <3>1. PICK read : /\ Singularity(Line) = read[1]
                      /\ \A i \in 1..Len(Line)+2 : read[i] = FlagAt(Line, read, i)
      BY <2>2, SingularityReads
    <3>2. \A i \in 1..Len(Line)+2 : \A r \in read[i] : Good(Line, i, r)
      BY <2>2, <3>1, ReadIsGood
    <3>3. 1 \in 1..Len(Line)+2
      BY <2>2
    <3>4. target \in read[1]
      BY <1>4, <3>1 DEF target
    <3>5. QED
      BY <3>2, <3>3, <3>4
  <2>4. /\ env \in Seq(Without(space)) /\ mounts \in Seq(Without(space))
        /\ mounts \in Seq(Without(comma)) /\ image \in Without(space)
        /\ ~IsFlag(image) /\ Command # <<>>
    BY <2>1, <2>3 DEF Good
  <2>5. word = image /\ word \in Without(space) \ {<<>>}
    BY <2>4, OwnIsWord
  <2> HIDE DEF word, data, binds
  <2>6. /\ env = <<>> => Singularity(Line) = {}
        /\ env # <<>> /\ mounts = <<>> => \A r \in Singularity(Line) : r.args # Command
        /\ env # <<>> /\ mounts # <<>> =>
             Singularity(Line) =
               {[env |-> d, bind |-> Words(binds, comma), image |-> word, args |-> Command] :
                  d \in Assignments(data)}
    BY <2>4, <2>5, LineReads DEF word, data, binds
  <2>7. target \in Singularity(Line)
    BY <1>4 DEF target
  <2>8. env # <<>>
    BY <2>6, <2>7
  <2>9. mounts # <<>>
    BY <2>1, <2>6, <2>7, <2>8
  <2>10. env \in Assignments(data)
    <3>1. PICK d \in Assignments(data) :
            target = [env |-> d, bind |-> Words(binds, comma), image |-> word, args |-> Command]
      BY <2>6, <2>7, <2>8, <2>9
    <3>2. target.env = d
      BY <3>1
    <3>3. QED
      BY <2>1, <3>2
  <2>11. env \in Seq(Without(comma)) \/ Sole(env)
    BY <1>2, <2>8, <2>10
  <2>12. QED
    BY <2>4, <2>8, <2>9, <2>11 DEF Clean
<1>5. ASSUME Clean PROVE \E image \in OwnImages : AsDeclared(image) \in Singularity(Line)
  <2>1. PICK image \in OwnImages : image \in Without(space) /\ ~IsFlag(image)
    BY <1>5 DEF Clean
  <2>2. word = image /\ word \in Without(space) \ {<<>>} /\ ~IsFlag(word)
    BY <2>1, OwnIsWord
  <2>3. /\ env # <<>> /\ mounts # <<>> /\ Command # <<>>
        /\ env \in Seq(Without(space)) /\ mounts \in Seq(Without(space))
        /\ mounts \in Seq(Without(comma))
        /\ env \in Seq(Without(comma)) \/ Sole(env)
    BY <1>5 DEF Clean
  <2> HIDE DEF word, data, binds
  <2>4. Singularity(Line) =
          {[env |-> d, bind |-> Words(binds, comma), image |-> word, args |-> Command] :
             d \in Assignments(data)}
    BY <2>2, <2>3, LineReads DEF word, data, binds
  <2>5. env \in Assignments(data) /\ Words(binds, comma) = mounts
    BY <1>2, <1>3, <2>3
  <2>6. AsDeclared(image) = [env |-> env, bind |-> mounts, image |-> word, args |-> Command]
    BY <2>2 DEF AsDeclared
  <2>7. AsDeclared(image) \in Singularity(Line)
    BY <2>4, <2>5, <2>6
  <2>8. QED
    BY <2>7
<1>6. QED
  BY <1>4, <1>5

(* The line runs a container as its spec says exactly when it has some       *)
(* variables, mounts and command, and no space, comma or flag is where the   *)
(* door, bash and singularity read them differently: for any list of words,  *)
(* of any length (door.go 78-105, 135, 162-184).                             *)
THEOREM CommandArrivesHolds == MCSpec => []CommandArrives
<1>1. ASSUME ContainerInv PROVE CommandArrives
  <2>1. (\E image \in OwnImages : AsDeclared(image) \in Singularity(Line)) <=> Clean
    BY <1>1, CommandIs
  <2>2. /\ container.env \in Seq(String) /\ container.mounts \in Seq(String)
    BY <1>1, GivenContainer
  <2>3. \A list \in Seq(String), byte \in {space, comma} :
          (\A i \in DOMAIN list : ~\E k \in DOMAIN list[i] : list[i][k] = byte)
            <=> list \in Seq(Without(byte))
    BY ListWithout
  <2>4. \A image \in OwnImages :
          (~\E k \in DOMAIN image : image[k] = space) <=> image \in Without(space)
    <3>1. \A image \in OwnImages : image \in String
      BY <1>1, OwnIsWord
    <3>2. QED
      BY <3>1, StringFacts DEF Without
  <2>5. Clean <=>
          /\ container.env # <<>> /\ container.mounts # <<>> /\ Command # <<>>
          /\ \A i \in DOMAIN container.env :
               ~\E k \in DOMAIN container.env[i] : container.env[i][k] = space
          /\ \A i \in DOMAIN container.mounts :
               ~\E k \in DOMAIN container.mounts[i] : container.mounts[i][k] = space
          /\ \A i \in DOMAIN container.mounts :
               ~\E k \in DOMAIN container.mounts[i] : container.mounts[i][k] = comma
          /\ \/ \A i \in DOMAIN container.env :
                  ~\E k \in DOMAIN container.env[i] : container.env[i][k] = comma
             \/ Sole(container.env)
          /\ \E image \in OwnImages : (~\E k \in DOMAIN image : image[k] = space) /\ ~IsFlag(image)
    BY <2>2, <2>3, <2>4 DEF Clean
  <2>6. QED
    BY <2>1, <2>5 DEF CommandArrives, OwnImages, AsDeclared, Line, Command, AllWords, Each, Sole, Equals
<1>2. QED
  BY <1>1, ContainerInvariant, PTL

=============================================================================
