----------------------------- MODULE SchemaProofs -----------------------------
(***************************************************************************)
(* Proofs about Schema, for every import graph whose pools are sound and   *)
(* every list of files.                                                    *)
(***************************************************************************)
EXTENDS Schema, SequenceTheorems, TLAPS

LEMMA FileLists ==
    /\ \A n \in Nat : \A q \in [1 .. n -> File] : q \in Seq(File)
    /\ UNION {[1 .. n -> File] : n \in 0 .. MaxFiles} \subseteq Seq(File)
    /\ [{1} -> File] \subseteq Seq(File)
  <1>1. ASSUME NEW n \in Nat, NEW q \in [1 .. n -> File] PROVE q \in Seq(File)
    OBVIOUS
  <1>2. ASSUME NEW q \in UNION {[1 .. n -> File] : n \in 0 .. MaxFiles}
        PROVE  q \in Seq(File)
    <2>1. PICK n \in 0 .. MaxFiles : q \in [1 .. n -> File]
      OBVIOUS
    <2>2. n \in Nat
      BY PoolAssumption
    <2>3. QED
      BY <1>1, <2>1, <2>2
  <1>3. {1} = 1 .. 1
    OBVIOUS
  <1>4. QED
    BY <1>1, <1>2, <1>3

(* What a step of walk does to its stack: the top frame moves on, and a    *)
(* frame for the dependency is pushed unless its name is done.             *)
LEMMA WalkStack ==
    ASSUME NEW s \in Seq(Frame), NEW f \in File
    PROVE  /\ Walk(s, f) \in Seq(Frame)
           /\ NameOf[f] \in visited => Walk(s, f) = s
           /\ NameOf[f] \notin visited =>
                /\ Len(Walk(s, f)) = Len(s) + 1
                /\ \A k \in 1 .. Len(s) : Walk(s, f)[k] = s[k]
                /\ Walk(s, f)[Len(s) + 1] = [file |-> f, dep |-> 1]
  <1>1. [file |-> f, dep |-> 1] \in Frame
    BY DEF Frame
  <1>2. QED
    BY <1>1, AppendProperties DEF Walk

LEMMA Advance ==
    ASSUME stack \in Seq(Frame), stack # <<>>
    PROVE  LET s == [stack EXCEPT ![Len(stack)].dep = @ + 1] IN
           /\ s \in Seq(Frame) /\ Len(s) = Len(stack)
           /\ Len(stack) \in Nat \ {0} /\ Top \in Frame
           /\ \A k \in 1 .. Len(stack) - 1 : s[k] = stack[k]
           /\ s[Len(stack)].file = Top.file
           /\ s[Len(stack)].dep = Top.dep + 1
  <1> DEFINE n == Len(stack)
             s == [stack EXCEPT ![n].dep = @ + 1]
  <1>1. n \in Nat \ {0} /\ stack \in [1 .. n -> Frame]
    BY LenProperties, EmptySeq
  <1>2. Top \in Frame /\ Top = stack[n]
    BY <1>1 DEF Top
  <1>3. [Top EXCEPT !.dep = @ + 1] \in Frame
    BY <1>2 DEF Frame
  <1>4. s = [stack EXCEPT ![n] = [Top EXCEPT !.dep = @ + 1]]
    BY <1>2
  <1> HIDE DEF n, s
  <1>5. s \in [1 .. n -> Frame]
    BY <1>1, <1>3, <1>4
  <1>6. s \in Seq(Frame) /\ Len(s) = n
    BY <1>1, <1>5
  <1>7. s[n] = [Top EXCEPT !.dep = @ + 1] /\ \A k \in 1 .. n - 1 : s[k] = stack[k]
    BY <1>1, <1>4
  <1>8. s[n].file = Top.file /\ s[n].dep = Top.dep + 1
    BY <1>2, <1>7 DEF Frame
  <1>9. QED
    BY <1>1, <1>2, <1>6, <1>7, <1>8 DEF n, s

LEMMA Popped ==
    ASSUME stack \in Seq(Frame), stack # <<>>
    PROVE  LET s == SubSeq(stack, 1, Len(stack) - 1) IN
           /\ s \in Seq(Frame) /\ Len(s) = Len(stack) - 1
           /\ Len(stack) \in Nat \ {0} /\ Top \in Frame
           /\ \A k \in 1 .. Len(stack) - 1 : s[k] = stack[k]
  <1>1. Len(stack) \in Nat \ {0} /\ stack \in [1 .. Len(stack) -> Frame]
    BY LenProperties, EmptySeq
  <1>2. QED
    BY <1>1 DEF Top

(* Every variable keeps its type. *)
THEOREM TypeCorrect == Spec => []TypeOK
  <1> USE PoolAssumption
  <1>1. Init => TypeOK
    <2> SUFFICES ASSUME Init PROVE TypeOK
      OBVIOUS
    <2>1. files \in Seq(File)
      BY FileLists DEF Init
    <2>2. QED
      BY <2>1 DEF Init, TypeOK, Outcome
  <1>2. TypeOK /\ [Next]_vars => TypeOK'
    <2> SUFFICES ASSUME TypeOK, [Next]_vars PROVE TypeOK'
      OBVIOUS
    <2> USE DEF TypeOK, request, walking, native
    <2>1. CASE Start
      BY <2>1 DEF Start, End, Outcome
    <2>2. CASE Bring
      <3>1. order' \in Seq(File)
        BY <2>2, FileLists DEF Bring
      <3>2. built' = 0 /\ Len(order') \in Nat
        BY <2>2, <3>1, LenProperties DEF Bring
      <3>3. QED
        BY <2>2, <3>1, <3>2 DEF Bring, End, Outcome
    <2>3. CASE WalkFile
      <3>1. Head(todo) \in File /\ Tail(todo) \in Seq(File)
        BY <2>3, HeadTailProperties DEF WalkFile
      <3>2. stack' \in Seq(Frame)
        BY <2>3, <3>1, WalkStack DEF WalkFile
      <3>3. QED
        BY <2>3, <3>1, <3>2 DEF WalkFile
    <2>4. CASE WalkDep
      <3>1. deps[Top.file][Top.dep] \in File
        <4>1. /\ Top.file \in File /\ Top.dep \in Nat \ {0}
              /\ Top.dep <= Len(deps[Top.file])
          BY <2>4, Advance DEF WalkDep, Frame
        <4>2. deps[Top.file] \in Seq(File)
          BY <4>1
        <4>3. QED
          BY <4>1, <4>2, LenProperties
      <3>2. stack' \in Seq(Frame)
        BY <2>4, <3>1, Advance, WalkStack DEF WalkDep
      <3>3. QED
        BY <2>4, <3>2 DEF WalkDep
    <2>5. CASE Emit
      <3>1. Top.file \in File /\ stack' \in Seq(Frame)
        BY <2>5, Popped DEF Emit, Frame
      <3>2. order' \in Seq(File) /\ Len(order') = Len(order) + 1
        BY <2>5, <3>1, AppendProperties DEF Emit
      <3>3. Len(order) \in Nat
        BY LenProperties
      <3>4. QED
        BY <2>5, <3>1, <3>2, <3>3 DEF Emit
    <2>6. CASE Send
      BY <2>6 DEF Send, End, Outcome
    <2>7. CASE BuildFile
      <3>1. Len(order) \in Nat
        BY LenProperties
      <3>2. \/ built' = built + 1 /\ UNCHANGED <<pc, outcome>>
            \/ pc' = "done" /\ outcome' = "buildFailed" /\ UNCHANGED built
        BY <2>7 DEF BuildFile, End
      <3>3. built < Len(order) /\ pc = "build" /\ UNCHANGED <<request, walking, selected>>
        BY <2>7 DEF BuildFile
      <3>4. QED
        BY <3>1, <3>2, <3>3 DEF Outcome
    <2>8. CASE Find
      <3>1. selected' \in Seq(File)
        <4>1. CASE /\ \A i \in DOMAIN files : NameOf[files[i]] \in NamesOf(Known(built))
                   /\ selected' = [i \in DOMAIN files |->
                        CHOOSE f \in Known(built) : NameOf[f] = NameOf[files[i]]]
          <5>1. \A i \in DOMAIN files : selected'[i] \in Known(built)
            <6> SUFFICES ASSUME NEW i \in DOMAIN files
                         PROVE  selected'[i] \in Known(built)
              OBVIOUS
            <6>1. PICK f \in Known(built) : NameOf[f] = NameOf[files[i]]
              BY <4>1 DEF NamesOf
            <6>2. selected'[i] = CHOOSE g \in Known(built) : NameOf[g] = NameOf[files[i]]
              BY <4>1
            <6>3. QED
              BY <6>1, <6>2
          <5>2. Known(built) \subseteq File
            BY LenProperties DEF Known
          <5>3. DOMAIN files = 1 .. Len(files) /\ Len(files) \in Nat
            BY LenProperties
          <5>4. selected' \in [1 .. Len(files) -> File]
            BY <4>1, <5>1, <5>2, <5>3
          <5>5. QED
            BY <5>3, <5>4, FileLists
        <4>2. CASE selected' = files \/ selected' = selected
          BY <4>2
        <4>3. QED
          BY <2>8, <4>1, <4>2 DEF Find
      <3>2. QED
        BY <2>8, <3>1 DEF Find, End, Outcome
    <2>9. CASE UNCHANGED vars
      BY <2>9 DEF vars
    <2>10. QED
      BY <2>1, <2>2, <2>3, <2>4, <2>5, <2>6, <2>7, <2>8, <2>9 DEF Next
  <1>3. QED
    BY <1>1, <1>2, PTL DEF Spec
-------------------------------------------------------------------------------
(* The frames of the walk: each name is still to be done; going up, one    *)
(* pool and falling ranks, so no name twice; and what a frame has walked   *)
(* is done, but for the dependency that the next frame up is walking.      *)
Descent ==
    /\ \A k \in DOMAIN stack : NameOf[stack[k].file] \notin visited
    /\ \A k, l \in DOMAIN stack : k < l =>
         /\ PoolOf[stack[k].file] = PoolOf[stack[l].file]
         /\ Rank[stack[l].file] < Rank[stack[k].file]

Walked ==
    \A k \in DOMAIN stack : \A j \in DOMAIN deps[stack[k].file] :
        j < stack[k].dep =>
            \/ NameOf[deps[stack[k].file][j]] \in visited
            \/ /\ k + 1 \in DOMAIN stack
               /\ deps[stack[k].file][j] = stack[k + 1].file

Listed ==
    api # "bytes" =>
        /\ visited = NamesOf({order[i] : i \in DOMAIN order})
        /\ DependencyFirst
        /\ NoDuplicateNames

WalkInv ==
    /\ pc = "start" => order = <<>> /\ stack = <<>> /\ visited = {}
    /\ api = "bytes" => pc # "walk"
    /\ Descent
    /\ Walked
    /\ Listed

(* Calling walk on a file keeps the frames in order, when the file may     *)
(* stand above the top: same pool, lower rank.                             *)
LEMMA CallKeepsOrder ==
    ASSUME TypeOK, NEW s \in Seq(Frame), NEW f \in File,
           \A k \in DOMAIN s : NameOf[s[k].file] \notin visited,
           \A k, l \in DOMAIN s : k < l =>
               /\ PoolOf[s[k].file] = PoolOf[s[l].file]
               /\ Rank[s[l].file] < Rank[s[k].file],
           \A k \in DOMAIN s :
               PoolOf[s[k].file] = PoolOf[f] /\ Rank[f] < Rank[s[k].file],
           \A k \in DOMAIN s : \A j \in DOMAIN deps[s[k].file] :
               j < s[k].dep =>
                   \/ NameOf[deps[s[k].file][j]] \in visited
                   \/ k + 1 \in DOMAIN s /\ deps[s[k].file][j] = s[k + 1].file
                   \/ k = Len(s) /\ deps[s[k].file][j] = f,
           stack' = Walk(s, f), UNCHANGED <<deps, visited>>
    PROVE  Descent' /\ Walked'
  <1>1. CASE NameOf[f] \in visited
    <2>1. stack' = s
      BY <1>1, WalkStack
    <2>2. \A k \in DOMAIN s : k = Len(s) => k + 1 \notin DOMAIN s
      BY LenProperties
    <2>3. QED
      BY <1>1, <2>1, <2>2 DEF Descent, Walked
  <1>2. CASE NameOf[f] \notin visited
    <2> DEFINE n == Len(s)
    <2>1. /\ n \in Nat /\ DOMAIN s = 1 .. n
          /\ DOMAIN stack' = 1 .. n + 1
          /\ \A k \in 1 .. n : stack'[k] = s[k]
          /\ stack'[n + 1] = [file |-> f, dep |-> 1]
      BY <1>2, WalkStack, LenProperties
    <2> HIDE DEF n
    <2>2. \A k \in 1 .. n + 1 : k \in 1 .. n \/ k = n + 1
      BY <2>1
    <2>3. Descent'
      <3>1. \A k \in DOMAIN stack' : NameOf[stack'[k].file] \notin visited
        BY <1>2, <2>1, <2>2
      <3>2. ASSUME NEW k \in DOMAIN stack', NEW l \in DOMAIN stack', k < l
            PROVE  /\ PoolOf[stack'[k].file] = PoolOf[stack'[l].file]
                   /\ Rank[stack'[l].file] < Rank[stack'[k].file]
        <4>1. k \in 1 .. n
          BY <2>1, <3>2
        <4>2. CASE l \in 1 .. n
          BY <2>1, <3>2, <4>1, <4>2
        <4>3. CASE l = n + 1
          BY <2>1, <4>1, <4>3
        <4>4. QED
          BY <2>1, <2>2, <4>2, <4>3
      <3>3. QED
        BY <3>1, <3>2 DEF Descent
    <2>4. Walked'
      <3> SUFFICES ASSUME NEW k \in DOMAIN stack',
                          NEW j \in DOMAIN deps[stack'[k].file],
                          j < stack'[k].dep
                   PROVE  \/ NameOf[deps[stack'[k].file][j]] \in visited
                          \/ /\ k + 1 \in DOMAIN stack'
                             /\ deps[stack'[k].file][j] = stack'[k + 1].file
        BY DEF Walked
      <3>1. CASE k = n + 1
        <4>1. stack'[k].file = f /\ stack'[k].dep = 1
          BY <2>1, <3>1
        <4>2. j \in Nat /\ j >= 1
          <5>1. deps[f] \in Seq(File)
            BY PoolAssumption DEF TypeOK
          <5>2. QED
            BY <4>1, <5>1, LenProperties
        <4>3. QED
          BY <4>1, <4>2
      <3>2. CASE k \in 1 .. n
        <4>1. /\ stack'[k] = s[k] /\ k \in DOMAIN s
              /\ k + 1 \in 1 .. n => stack'[k + 1] = s[k + 1]
              /\ k = n => stack'[k + 1].file = f
              /\ k + 1 \in DOMAIN stack'
          BY <2>1, <3>2
        <4>2. \/ NameOf[deps[s[k].file][j]] \in visited
              \/ k + 1 \in DOMAIN s /\ deps[s[k].file][j] = s[k + 1].file
              \/ k = Len(s) /\ deps[s[k].file][j] = f
          BY <4>1
        <4>3. QED
          BY <2>1, <4>1, <4>2 DEF n
      <3>3. QED
        BY <2>1, <2>2, <3>1, <3>2
    <2>5. QED
      BY <2>3, <2>4
  <1>3. QED
    BY <1>1, <1>2

(* Writing the top file down after its dependencies.                       *)
LEMMA EmitKeepsWalkInv == TypeOK /\ WalkInv /\ Emit => WalkInv'
  <1> SUFFICES ASSUME TypeOK, WalkInv, Emit PROVE WalkInv'
    OBVIOUS
  <1> DEFINE n == Len(stack)
             o == Len(order)
  <1>1. /\ stack \in Seq(Frame) /\ stack # <<>> /\ api # "bytes"
        /\ UNCHANGED <<deps, api, pc>>
        /\ visited' = visited \union {NameOf[Top.file]}
    BY DEF Emit, TypeOK, WalkInv, request
  <1>2. /\ n \in Nat \ {0} /\ Top = stack[n] /\ Top.file \in File
        /\ DOMAIN stack = 1 .. n /\ DOMAIN stack' = 1 .. n - 1
        /\ \A k \in 1 .. n - 1 : stack'[k] = stack[k]
        /\ Len(deps[Top.file]) < Top.dep
        /\ \A k \in 1 .. n : stack[k].file \in File
    <2>1. /\ Len(stack) \in Nat \ {0} /\ Top \in Frame /\ stack' \in Seq(Frame)
          /\ Len(stack') = Len(stack) - 1
          /\ \A k \in 1 .. Len(stack) - 1 : stack'[k] = stack[k]
      BY <1>1, Popped DEF Emit
    <2>2. deps[Top.file] \in Seq(File)
      BY <2>1, PoolAssumption DEF TypeOK, Frame
    <2>3. Len(deps[Top.file]) < Top.dep
      BY <2>1, <2>2, LenProperties DEF Emit, Frame
    <2>4. stack \in [1 .. n -> Frame] /\ DOMAIN stack' = 1 .. n - 1
      BY <1>1, <2>1, LenProperties
    <2>5. \A k \in 1 .. n : stack[k].file \in File
      BY <2>4 DEF Frame
    <2>6. Top = stack[n] /\ Top.file \in File
      BY <2>1 DEF Top, Frame
    <2>7. QED
      BY <2>1, <2>3, <2>4, <2>5, <2>6
  <1>3. /\ o \in Nat /\ DOMAIN order = 1 .. o /\ DOMAIN order' = 1 .. o + 1
        /\ \A i \in 1 .. o : order'[i] = order[i]
        /\ order'[o + 1] = Top.file
    BY <1>2, AppendProperties, LenProperties DEF Emit, TypeOK
  <1> HIDE DEF n, o
  <1>4. Descent'
    <2>1. \A k \in 1 .. n - 1 : NameOf[stack[k].file] # NameOf[Top.file]
      <3> SUFFICES ASSUME NEW k \in 1 .. n - 1
                   PROVE  NameOf[stack[k].file] # NameOf[Top.file]
        OBVIOUS
      <3>1. k \in 1 .. n /\ n \in 1 .. n /\ k < n
        BY <1>2
      <3>2. /\ PoolOf[stack[k].file] = PoolOf[Top.file]
            /\ Rank[Top.file] < Rank[stack[k].file]
        BY <1>2, <3>1 DEF WalkInv, Descent
      <3>3. Rank[Top.file] \in Nat /\ stack[k].file \in File
        BY <1>2, <3>1, PoolAssumption
      <3>4. stack[k].file # Top.file
        BY <3>2, <3>3
      <3>5. QED
        BY <1>2, <3>2, <3>3, <3>4, PoolAssumption
    <2>2. \A k \in 1 .. n - 1 : k \in 1 .. n
      BY <1>2
    <2>3. QED
      BY <1>1, <1>2, <2>1, <2>2 DEF WalkInv, Descent
  <1>5. Walked'
    <2> SUFFICES ASSUME NEW k \in 1 .. n - 1, NEW j \in DOMAIN deps[stack[k].file],
                        j < stack[k].dep
                 PROVE  \/ NameOf[deps[stack[k].file][j]] \in visited'
                        \/ /\ k + 1 \in 1 .. n - 1
                           /\ deps[stack[k].file][j] = stack'[k + 1].file
      BY <1>1, <1>2 DEF Walked
    <2>1. k \in 1 .. n /\ (k + 1 \in 1 .. n - 1 \/ k + 1 = n)
      BY <1>2
    <2>2. \/ NameOf[deps[stack[k].file][j]] \in visited
          \/ k + 1 \in 1 .. n /\ deps[stack[k].file][j] = stack[k + 1].file
      BY <1>2, <2>1 DEF WalkInv, Walked
    <2>3. QED
      BY <1>1, <1>2, <2>1, <2>2
  <1>6. \A j \in DOMAIN deps[Top.file] : NameOf[deps[Top.file][j]] \in visited
    <2> SUFFICES ASSUME NEW j \in DOMAIN deps[Top.file]
                 PROVE  NameOf[deps[Top.file][j]] \in visited
      OBVIOUS
    <2>1. deps[Top.file] \in Seq(File)
      BY <1>2, PoolAssumption DEF TypeOK
    <2>2. Top.dep \in Nat
      BY <1>1, Popped DEF Frame
    <2>3. j < Top.dep
      BY <1>2, <2>1, <2>2, LenProperties
    <2>4. n \in 1 .. n /\ n + 1 \notin 1 .. n
      BY <1>2
    <2>5. QED
      BY <1>2, <2>3, <2>4 DEF WalkInv, Walked
  <1>7. Listed'
    <2>1. visited = {NameOf[order[i]] : i \in 1 .. o}
      BY <1>1, <1>3 DEF WalkInv, Listed, NamesOf
    <2>2. NameOf[Top.file] \notin visited
      BY <1>2 DEF WalkInv, Descent
    <2>3. visited' = {NameOf[order'[i]] : i \in 1 .. o + 1}
      BY <1>1, <1>3, <2>1
    <2>4. \A i \in 1 .. o + 1 : i \in 1 .. o \/ i = o + 1
      BY <1>3
    <2>5. DependencyFirst'
      <3> SUFFICES ASSUME NEW i \in 1 .. o + 1, NEW k \in DOMAIN deps[order'[i]]
                   PROVE  \E j \in 1 .. i - 1 :
                            NameOf[order'[j]] = NameOf[deps[order'[i]][k]]
        BY <1>1, <1>3 DEF DependencyFirst
      <3>1. CASE i \in 1 .. o
        <4>1. PICK j \in 1 .. i - 1 : NameOf[order[j]] = NameOf[deps[order[i]][k]]
          BY <1>1, <1>3, <3>1 DEF WalkInv, Listed, DependencyFirst
        <4>2. j \in 1 .. o
          BY <1>3, <3>1
        <4>3. QED
          BY <1>3, <3>1, <4>1, <4>2
      <3>2. CASE i = o + 1
        <4>1. NameOf[deps[Top.file][k]] \in visited
          BY <1>3, <1>6, <3>2
        <4>2. PICK j \in 1 .. o : NameOf[order[j]] = NameOf[deps[Top.file][k]]
          BY <2>1, <4>1
        <4>3. j \in 1 .. i - 1
          BY <1>3, <3>2
        <4>4. QED
          BY <1>3, <3>2, <4>2, <4>3
      <3>3. QED
        BY <2>4, <3>1, <3>2
    <2>6. NoDuplicateNames'
      <3>1. \A i, j \in 1 .. o : NameOf[order[i]] = NameOf[order[j]] => i = j
        BY <1>1, <1>3 DEF WalkInv, Listed, NoDuplicateNames
      <3>2. \A i \in 1 .. o : NameOf[order[i]] # NameOf[Top.file]
        BY <2>1, <2>2
      <3>3. QED
        BY <1>3, <2>4, <3>1, <3>2 DEF NoDuplicateNames
    <2>7. QED
      BY <1>3, <2>3, <2>5, <2>6 DEF Listed, NamesOf
  <1>8. QED
    BY <1>1, <1>4, <1>5, <1>7 DEF WalkInv, Emit

LEMMA WalkInvHolds == Spec => []WalkInv
  <1>1. Init => WalkInv
    BY DEF Init, WalkInv, Descent, Walked, Listed, NamesOf, DependencyFirst,
           NoDuplicateNames
  <1>2. TypeOK /\ WalkInv /\ [Next]_vars => WalkInv'
    <2> SUFFICES ASSUME TypeOK, WalkInv, [Next]_vars PROVE WalkInv'
      OBVIOUS
    <2>1. CASE Bring
      BY <2>1 DEF Bring, End, WalkInv, Descent, Walked, Listed, request
    <2>2. ASSUME pc' # "start", api' = "bytes" => pc' # "walk",
                 UNCHANGED <<deps, api, stack, visited, order>>
          PROVE  WalkInv'
      BY <2>2 DEF WalkInv, Descent, Walked, Listed, DependencyFirst,
                  NoDuplicateNames, NamesOf
    <2>3. CASE Start
      BY <2>2, <2>3 DEF Start, End, request, walking
    <2>4. CASE Send \/ BuildFile \/ Find
      BY <2>2, <2>4 DEF Send, BuildFile, Find, End, request, walking, WalkInv
    <2>5. ASSUME pc = "walk", UNCHANGED <<deps, api, pc, visited, order>>,
                 Descent', Walked'
          PROVE  WalkInv'
      BY <2>5 DEF WalkInv, Listed, DependencyFirst, NoDuplicateNames, NamesOf
    <2>6. CASE WalkFile
      <3>1. Head(todo) \in File
        BY <2>6, HeadTailProperties DEF WalkFile, TypeOK
      <3>2. <<>> \in Seq(Frame) /\ DOMAIN <<>> = {}
        OBVIOUS
      <3>3. Descent' /\ Walked'
        BY <2>6, <3>1, <3>2, CallKeepsOrder DEF WalkFile, request
      <3>4. QED
        BY <2>5, <2>6, <3>3 DEF WalkFile, request
    <2>7. CASE WalkDep
      <3> DEFINE n == Len(stack)
                 s == [stack EXCEPT ![n].dep = @ + 1]
                 f == deps[Top.file][Top.dep]
      <3>1. /\ s \in Seq(Frame) /\ DOMAIN s = 1 .. n /\ Len(s) = n
            /\ n \in Nat \ {0} /\ DOMAIN stack = 1 .. n
            /\ \A k \in 1 .. n - 1 : s[k] = stack[k]
            /\ s[n].file = Top.file /\ s[n].dep = Top.dep + 1
            /\ Top = stack[n] /\ Top.file \in File /\ Top.dep \in Nat \ {0}
        BY <2>7, Advance, LenProperties DEF WalkDep, TypeOK, Top, Frame
      <3>2. /\ Top.dep \in DOMAIN deps[Top.file]
            /\ deps[Top.file] \in Seq(File)
        <4>1. deps[Top.file] \in Seq(File)
          BY <3>1, PoolAssumption DEF TypeOK
        <4>2. QED
          BY <2>7, <3>1, <4>1, LenProperties DEF WalkDep
      <3>3. /\ f \in File
            /\ PoolOf[f] = PoolOf[Top.file] /\ Rank[f] < Rank[Top.file]
        <4>1. deps \in Imports
          BY DEF TypeOK
        <4>2. PoolOf[f] = PoolOf[Top.file] /\ Rank[f] < Rank[Top.file]
          BY <3>1, <3>2, <4>1, PoolAssumption
        <4>3. f \in File
          BY <3>2, ElementOfSeq, LenProperties
        <4>4. QED
          BY <4>2, <4>3
      <3>4. stack' = Walk(s, f) /\ pc = "walk"
            /\ UNCHANGED <<deps, api, pc, visited, order>>
        BY <2>7 DEF WalkDep, request
      <3> HIDE DEF n, s, f
      <3>5. \A k \in 1 .. n : /\ k \in 1 .. n - 1 \/ k = n
                              /\ s[k].file = stack[k].file
        BY <3>1
      <3>6. \A k \in DOMAIN s : NameOf[s[k].file] \notin visited
        BY <3>1, <3>5 DEF WalkInv, Descent
      <3>7. \A k, l \in DOMAIN s : k < l =>
              /\ PoolOf[s[k].file] = PoolOf[s[l].file]
              /\ Rank[s[l].file] < Rank[s[k].file]
        BY <3>1, <3>5 DEF WalkInv, Descent
      <3>8. \A k \in DOMAIN s : PoolOf[s[k].file] = PoolOf[f] /\ Rank[f] < Rank[s[k].file]
        <4> SUFFICES ASSUME NEW k \in 1 .. n
                     PROVE  PoolOf[s[k].file] = PoolOf[f] /\ Rank[f] < Rank[s[k].file]
          BY <3>1
        <4>1. CASE k = n
          BY <3>1, <3>3, <4>1
        <4>2. CASE k \in 1 .. n - 1
          <5>1. n \in 1 .. n /\ k < n
            BY <3>1, <4>2
          <5>2. /\ PoolOf[s[k].file] = PoolOf[Top.file]
                /\ Rank[Top.file] < Rank[s[k].file]
            BY <3>1, <3>7, <5>1
          <5>3. s[k].file \in File
            <6>1. s[k] \in Frame
              BY <3>1, ElementOfSeq
            <6>2. QED
              BY <6>1 DEF Frame
          <5>4. /\ Rank[f] \in Nat /\ Rank[Top.file] \in Nat
                /\ Rank[s[k].file] \in Nat
            BY <3>1, <3>3, <5>3, PoolAssumption
          <5>5. QED
            BY <3>3, <5>2, <5>4
        <4>3. QED
          BY <3>5, <4>1, <4>2
      <3>9. \A k \in DOMAIN s : \A j \in DOMAIN deps[s[k].file] :
              j < s[k].dep =>
                \/ NameOf[deps[s[k].file][j]] \in visited
                \/ k + 1 \in DOMAIN s /\ deps[s[k].file][j] = s[k + 1].file
                \/ k = Len(s) /\ deps[s[k].file][j] = f
        <4> SUFFICES ASSUME NEW k \in 1 .. n, NEW j \in DOMAIN deps[stack[k].file],
                            j < s[k].dep
                     PROVE  \/ NameOf[deps[stack[k].file][j]] \in visited
                            \/ k + 1 \in 1 .. n /\ deps[stack[k].file][j] = s[k + 1].file
                            \/ k = n /\ deps[stack[k].file][j] = f
          BY <3>1, <3>5
        <4>1. CASE j < stack[k].dep
          <5>1. \/ NameOf[deps[stack[k].file][j]] \in visited
                \/ k + 1 \in 1 .. n /\ deps[stack[k].file][j] = stack[k + 1].file
            BY <3>1, <4>1 DEF WalkInv, Walked
          <5>2. QED
            BY <3>5, <5>1
        <4>2. CASE ~(j < stack[k].dep)
          <5>1. k = n
            BY <3>1, <3>5, <4>2
          <5>2. j = Top.dep
            <6>1. j \in Nat
              BY <3>1, <3>2, <5>1, LenProperties
            <6>2. QED
              BY <3>1, <4>2, <5>1, <6>1
          <5>3. QED
            BY <3>1, <5>1, <5>2 DEF f
        <4>3. QED
          BY <4>1, <4>2
      <3>10. Descent' /\ Walked'
        BY <3>1, <3>3, <3>4, <3>6, <3>7, <3>8, <3>9, CallKeepsOrder
      <3>11. QED
        BY <2>5, <3>4, <3>10
    <2>8. CASE Emit
      BY <2>8, EmitKeepsWalkInv
    <2>9. CASE UNCHANGED vars
      BY <2>9 DEF vars, WalkInv, Descent, Walked, Listed, DependencyFirst,
                  NoDuplicateNames, NamesOf
    <2>10. QED
      BY <2>1, <2>3, <2>4, <2>6, <2>7, <2>8, <2>9 DEF Next
  <1>3. QED
    BY <1>1, <1>2, TypeCorrect, PTL DEF Spec

(* The set reaches C++ with every file after its imports and no name twice *)
(* (a set the walk made; a caller's own is as the caller made it).         *)
THEOREM SetInOrder == Spec => [](DependencyFirst /\ NoDuplicateNames)
  <1>1. WalkInv => DependencyFirst /\ NoDuplicateNames
    BY DEF WalkInv, Listed, DependencyFirst, NoDuplicateNames
  <1>2. QED
    BY <1>1, WalkInvHolds, PTL
-------------------------------------------------------------------------------
(* Where the walk stands with the files of a call that keeps to one pool:  *)
(* nothing comes from elsewhere, and a file asked for waits its turn, is   *)
(* on the stack, or its name is done.                                      *)
OfThePool(f) == \A i \in DOMAIN files : PoolOf[f] = PoolOf[files[i]]

Waiting(f) == \/ \E k \in DOMAIN todo : todo[k] = f
              \/ \E k \in DOMAIN stack : stack[k].file = f

Gathered ==
    /\ \A k \in DOMAIN todo : OfThePool(todo[k])
    /\ \A k \in DOMAIN stack : OfThePool(stack[k].file)
    /\ \A k \in DOMAIN order : OfThePool(order[k])
    /\ pc \in {"walk", "build"} => files # <<>>
    /\ \A i \in DOMAIN files :
         /\ pc \in {"start", "walk"} => Waiting(files[i]) \/ NameOf[files[i]] \in visited
         /\ pc = "build" => NameOf[files[i]] \in visited

OnePoolInv == OnePool /\ api # "bytes" => Gathered /\ OnePoolSucceeds

(* A call of walk keeps what is on the stack and adds the file, if its     *)
(* name is not done.                                                       *)
LEMMA CallGathers ==
    ASSUME NEW s \in Seq(Frame), NEW f \in File
    PROVE  /\ \A k \in DOMAIN Walk(s, f) :
                Walk(s, f)[k].file = f \/ \E l \in DOMAIN s : Walk(s, f)[k] = s[l]
           /\ \A l \in DOMAIN s : \E k \in DOMAIN Walk(s, f) : Walk(s, f)[k] = s[l]
           /\ NameOf[f] \in visited \/ \E k \in DOMAIN Walk(s, f) : Walk(s, f)[k].file = f
  <1>1. CASE NameOf[f] \in visited
    BY <1>1, WalkStack
  <1>2. CASE NameOf[f] \notin visited
    <2> DEFINE n == Len(s)
               w == Walk(s, f)
    <2>1. /\ n \in Nat /\ DOMAIN s = 1 .. n
          /\ DOMAIN w = 1 .. n + 1
          /\ \A k \in 1 .. n : w[k] = s[k]
          /\ w[n + 1] = [file |-> f, dep |-> 1]
      BY <1>2, WalkStack, LenProperties
    <2>2. w[n + 1].file = f
      BY <2>1
    <2> HIDE DEF n, w
    <2>3. \A k \in 1 .. n + 1 : k \in 1 .. n \/ k = n + 1
      BY <2>1
    <2>4. \A l \in 1 .. n : l \in 1 .. n + 1
      BY <2>1
    <2>5. n + 1 \in 1 .. n + 1
      BY <2>1
    <2>6. /\ \A k \in DOMAIN w : w[k].file = f \/ \E l \in DOMAIN s : w[k] = s[l]
          /\ \A l \in DOMAIN s : \E k \in DOMAIN w : w[k] = s[l]
          /\ \E k \in DOMAIN w : w[k].file = f
      BY <2>1, <2>2, <2>3, <2>4, <2>5
    <2>7. QED
      BY <2>6 DEF w
  <1>3. QED
    BY <1>1, <1>2

(* Files of one pool with one name are one file: what a name stands for in *)
(* the set is the file that the walk meant.                                *)
LEMMA SameNameSameFile ==
    ASSUME TypeOK, OnePool, files # <<>>, NEW f \in File, NEW g \in File,
           OfThePool(f), OfThePool(g), NameOf[f] = NameOf[g]
    PROVE  f = g
  <1>1. 1 \in DOMAIN files
    BY EmptySeq, LenProperties DEF TypeOK
  <1>2. QED
    BY <1>1, PoolAssumption DEF OfThePool

(* C++ can build the next file of a set the walk made.                     *)
LEMMA NextBuilds ==
    ASSUME TypeOK, WalkInv, OnePool, api # "bytes", files # <<>>, Gathered,
           built < Len(order)
    PROVE  Builds(order[built + 1]) /\ Resolves(order[built + 1])
  <1> DEFINE f == order[built + 1]
  <1>1. /\ built \in Nat /\ Len(order) \in Nat /\ DOMAIN order = 1 .. Len(order)
        /\ built + 1 \in DOMAIN order
        /\ \A j \in 1 .. built : j \in DOMAIN order
        /\ \A j \in DOMAIN order : order[j] \in File
    BY LenProperties, ElementOfSeq DEF TypeOK
  <1>2. f \in File /\ OfThePool(f)
    BY <1>1 DEF Gathered
  <1>3. NameOf[f] \notin NamesOf(Known(built))
    <2> SUFFICES ASSUME NEW j \in 1 .. built, NameOf[order[j]] = NameOf[f] PROVE FALSE
      BY DEF NamesOf, Known
    <2>1. j = built + 1
      BY <1>1 DEF WalkInv, Listed, NoDuplicateNames
    <2>2. QED
      BY <1>1, <2>1
  <1>4. ASSUME NEW k \in DOMAIN deps[f] PROVE deps[f][k] \in Known(built)
    <2>1. PICK j \in 1 .. built : NameOf[order[j]] = NameOf[deps[f][k]]
      BY <1>1 DEF WalkInv, Listed, DependencyFirst
    <2>2. deps \in Imports /\ deps[f] \in Seq(File)
      BY <1>2, PoolAssumption DEF TypeOK
    <2>3. deps[f][k] \in File /\ PoolOf[deps[f][k]] = PoolOf[f]
      <3>1. deps[f][k] \in File
        BY <2>2, ElementOfSeq, LenProperties
      <3>2. QED
        BY <1>2, <2>2, <3>1, PoolAssumption
    <2>4. OfThePool(deps[f][k]) /\ OfThePool(order[j]) /\ order[j] \in File
      BY <1>1, <1>2, <2>3 DEF OfThePool, Gathered
    <2>5. order[j] = deps[f][k]
      BY <2>1, <2>3, <2>4, SameNameSameFile
    <2>6. QED
      BY <2>5 DEF Known
  <1> HIDE DEF f
  <1>5. Builds(f) /\ Resolves(f)
    BY <1>3, <1>4 DEF Builds, Resolves, NamesOf
  <1>6. QED
    BY <1>5 DEF f

(* A file asked for is in the complete set, and alone of its name.         *)
LEMMA AskedIsKnown ==
    ASSUME TypeOK, WalkInv, OnePool, api # "bytes", Gathered, pc = "build",
           NEW i \in DOMAIN files
    PROVE  /\ files[i] \in Known(Len(order))
           /\ \A f \in Known(Len(order)) : NameOf[f] = NameOf[files[i]] => f = files[i]
  <1>1. /\ Len(order) \in Nat /\ DOMAIN order = 1 .. Len(order)
        /\ \A j \in DOMAIN order : order[j] \in File
        /\ files[i] \in File /\ files # <<>>
    BY LenProperties, ElementOfSeq DEF TypeOK
  <1>2. OfThePool(files[i])
    BY DEF OnePool, OfThePool
  <1>3. \A f \in Known(Len(order)) : f \in File /\ OfThePool(f)
    BY <1>1 DEF Known, Gathered
  <1>4. \A f \in Known(Len(order)) : NameOf[f] = NameOf[files[i]] => f = files[i]
    BY <1>1, <1>2, <1>3, SameNameSameFile
  <1>5. NameOf[files[i]] \in NamesOf(Known(Len(order)))
    BY <1>1 DEF Gathered, WalkInv, Listed, Known
  <1>6. QED
    BY <1>4, <1>5 DEF NamesOf

(* Every import graph and every list of files from one pool is built, and  *)
(* what C++ selects by name is the list, file by file.                     *)
THEOREM OnePoolAlwaysBuilds == Spec => []OnePoolSucceeds
  <1>1. Init => OnePoolInv
    <2> SUFFICES ASSUME Init, OnePool PROVE Gathered /\ OnePoolSucceeds
      BY DEF OnePoolInv
    <2>1. pc = "start" /\ todo = files /\ stack = <<>> /\ order = <<>> /\ outcome = "none"
      BY DEF Init
    <2>2. QED
      BY <2>1 DEF Gathered, OnePoolSucceeds, OnePool, OfThePool, Waiting
  <1>2. TypeOK /\ WalkInv /\ OnePoolInv /\ [Next]_vars => OnePoolInv'
    <2> SUFFICES ASSUME TypeOK, WalkInv, OnePoolInv, [Next]_vars, OnePool', api' # "bytes"
                 PROVE  Gathered' /\ OnePoolSucceeds'
      BY DEF OnePoolInv
    <2>1. UNCHANGED request
      BY DEF Next, Start, Bring, WalkFile, WalkDep, Emit, Send, BuildFile, Find, vars, request
    <2>2. OnePool /\ api # "bytes" /\ Gathered /\ OnePoolSucceeds
      BY <2>1 DEF OnePoolInv, OnePool, request
    <2>3. UNCHANGED <<files, api, deps>> /\ \A f : OfThePool(f)' <=> OfThePool(f)
      BY <2>1 DEF request, OfThePool
    <2>4. ASSUME UNCHANGED <<selected, outcome>> PROVE OnePoolSucceeds'
      BY <2>2, <2>3, <2>4 DEF OnePoolSucceeds
    <2>5. CASE Start
      BY <2>2, <2>3, <2>5 DEF Start, End, walking, native, Gathered, Waiting, OnePoolSucceeds
    <2>6. CASE Bring
      BY <2>2, <2>6 DEF Bring
    <2>7. CASE WalkFile
      <3> DEFINE f == Head(todo)
      <3>1. /\ f \in File /\ f = todo[1] /\ 1 \in DOMAIN todo
            /\ \A k \in DOMAIN todo' : k + 1 \in DOMAIN todo /\ todo'[k] = todo[k + 1]
            /\ \A k \in DOMAIN todo :
                 k = 1 \/ (k - 1 \in DOMAIN todo' /\ todo'[k - 1] = todo[k])
        <4>1. /\ Len(todo) \in Nat \ {0} /\ DOMAIN todo = 1 .. Len(todo)
              /\ DOMAIN todo' = 1 .. Len(todo) - 1
              /\ \A k \in 1 .. Len(todo) - 1 : todo'[k] = todo[k + 1]
              /\ f \in File
          BY <2>7, HeadTailProperties, LenProperties, EmptySeq DEF WalkFile, TypeOK
        <4>2. \A k \in 1 .. Len(todo) : k = 1 \/ k - 1 \in 1 .. Len(todo) - 1
          BY <4>1
        <4>3. \A k \in 1 .. Len(todo) - 1 : k + 1 \in 1 .. Len(todo)
          BY <4>1
        <4>4. f = todo[1]
          BY <2>7, HeadTailProperties DEF WalkFile, TypeOK
        <4>5. ASSUME NEW k \in 1 .. Len(todo), k # 1 PROVE todo'[k - 1] = todo[k]
          <5>1. k - 1 \in 1 .. Len(todo) - 1 /\ (k - 1) + 1 = k
            BY <4>1, <4>5
          <5>2. todo'[k - 1] = todo[(k - 1) + 1]
            BY <4>1, <5>1
          <5>3. QED
            BY <5>1, <5>2
        <4>6. QED
          BY <4>1, <4>2, <4>3, <4>4, <4>5
      <3> HIDE DEF f
      <3>2. stack = <<>> /\ stack' = Walk(<<>>, f) /\ pc = "walk"
            /\ UNCHANGED <<pc, visited, order, selected, outcome>>
        BY <2>7 DEF WalkFile, native, f
      <3>3. /\ \A k \in DOMAIN stack' : stack'[k].file = f
            /\ NameOf[f] \in visited \/ \E k \in DOMAIN stack' : stack'[k].file = f
        <4>1. stack \in Seq(Frame) /\ DOMAIN stack = {} /\ stack' = Walk(stack, f)
          BY <3>2 DEF TypeOK
        <4>2. f \in File
          BY <3>1
        <4>3. /\ \A k \in DOMAIN Walk(stack, f) :
                   \/ Walk(stack, f)[k].file = f
                   \/ \E l \in DOMAIN stack : Walk(stack, f)[k] = stack[l]
              /\ NameOf[f] \in visited \/ \E k \in DOMAIN Walk(stack, f) : Walk(stack, f)[k].file = f
          BY <4>1, <4>2, CallGathers
        <4>4. QED
          BY <4>1, <4>3
      <3>4. ASSUME NEW i \in DOMAIN files
            PROVE  Waiting(files[i])' \/ NameOf[files[i]] \in visited
        <4>1. CASE NameOf[files[i]] \in visited
          BY <4>1
        <4>2. CASE Waiting(files[i])
          <5>1. PICK k \in DOMAIN todo : todo[k] = files[i]
            BY <3>2, <4>2 DEF Waiting
          <5>2. QED
            BY <2>3, <3>1, <3>3, <5>1 DEF Waiting
        <4>3. QED
          BY <2>2, <3>2, <4>1, <4>2 DEF Gathered
      <3>5. /\ \A k \in DOMAIN todo' : OfThePool(todo'[k])
            /\ \A k \in DOMAIN stack' : OfThePool(stack'[k].file)
            /\ \A k \in DOMAIN order' : OfThePool(order'[k])
        BY <2>2, <3>1, <3>2, <3>3 DEF Gathered
      <3>6. Gathered'
        BY <2>2, <2>3, <3>2, <3>4, <3>5 DEF Gathered
      <3>7. QED
        BY <2>4, <3>2, <3>6
    <2>8. CASE WalkDep
      <3> DEFINE s == [stack EXCEPT ![Len(stack)].dep = @ + 1]
                 f == deps[Top.file][Top.dep]
      <3>1. /\ s \in Seq(Frame) /\ DOMAIN s = DOMAIN stack
            /\ \A k \in DOMAIN stack : s[k].file = stack[k].file
            /\ Len(stack) \in DOMAIN stack /\ Top = stack[Len(stack)]
            /\ Top.file \in File /\ Top.dep \in Nat \ {0}
        <4>1. /\ s \in Seq(Frame) /\ Len(s) = Len(stack)
              /\ Len(stack) \in Nat \ {0} /\ Top \in Frame
              /\ \A k \in 1 .. Len(stack) - 1 : s[k] = stack[k]
              /\ s[Len(stack)].file = Top.file
          BY <2>8, Advance DEF WalkDep, TypeOK
        <4>2. DOMAIN s = 1 .. Len(stack) /\ DOMAIN stack = 1 .. Len(stack)
          BY <4>1, LenProperties DEF TypeOK
        <4>3. \A k \in 1 .. Len(stack) : k \in 1 .. Len(stack) - 1 \/ k = Len(stack)
          BY <4>1
        <4>4. QED
          BY <4>1, <4>2, <4>3 DEF Top, Frame
      <3>2. f \in File /\ PoolOf[f] = PoolOf[Top.file]
        <4>1. deps \in Imports /\ deps[Top.file] \in Seq(File)
          BY <3>1, PoolAssumption DEF TypeOK
        <4>2. Top.dep \in 1 .. Len(deps[Top.file]) /\ Top.dep \in DOMAIN deps[Top.file]
          BY <2>8, <3>1, <4>1, LenProperties DEF WalkDep
        <4>3. f \in File
          BY <4>1, <4>2, ElementOfSeq
        <4>4. QED
          BY <3>1, <4>1, <4>2, <4>3, PoolAssumption
      <3>3. stack' = Walk(s, f) /\ pc = "walk"
            /\ UNCHANGED <<pc, todo, visited, order, selected, outcome>>
        BY <2>8 DEF WalkDep, native
      <3> HIDE DEF s, f
      <3>4. OfThePool(f)
        BY <2>2, <3>1, <3>2 DEF Gathered, OfThePool
      <3>5. /\ \A k \in DOMAIN stack' :
                 stack'[k].file = f \/ \E l \in DOMAIN s : stack'[k] = s[l]
            /\ \A l \in DOMAIN s : \E k \in DOMAIN stack' : stack'[k] = s[l]
        BY <3>1, <3>2, <3>3, CallGathers
      <3>6. \A k \in DOMAIN stack' : OfThePool(stack'[k].file)
        BY <2>2, <3>1, <3>4, <3>5 DEF Gathered
      <3>7. \A g : Waiting(g) => Waiting(g)'
        BY <3>1, <3>3, <3>5 DEF Waiting
      <3>8. Gathered'
        BY <2>2, <2>3, <3>3, <3>6, <3>7 DEF Gathered
      <3>9. QED
        BY <2>4, <3>3, <3>8
    <2>9. CASE Emit
      <3>1. /\ DOMAIN stack = 1 .. Len(stack) /\ DOMAIN stack' = 1 .. Len(stack) - 1
            /\ Len(stack) \in Nat \ {0}
            /\ \A k \in 1 .. Len(stack) - 1 : stack'[k] = stack[k]
            /\ Top = stack[Len(stack)] /\ Top.file \in File
        BY <2>9, Popped, LenProperties DEF Emit, TypeOK, Top, Frame
      <3>2. /\ \A k \in 1 .. Len(stack) : k \in 1 .. Len(stack) - 1 \/ k = Len(stack)
            /\ \A k \in 1 .. Len(stack) - 1 : k \in 1 .. Len(stack)
            /\ Len(stack) \in 1 .. Len(stack)
        <4>1. Len(stack) \in Nat \ {0}
          BY <3>1
        <4>2. QED
          BY <4>1
      <3>3. /\ visited' = visited \union {NameOf[Top.file]} /\ pc = "walk"
            /\ UNCHANGED <<pc, todo, selected, outcome>>
        BY <2>9 DEF Emit, native
      <3>4. \A g : Waiting(g) => Waiting(g)' \/ NameOf[g] \in visited'
        BY <3>1, <3>2, <3>3 DEF Waiting
      <3>5. \A k \in DOMAIN order' : OfThePool(order'[k])
        <4>1. /\ Len(order) \in Nat /\ DOMAIN order = 1 .. Len(order)
              /\ DOMAIN order' = 1 .. Len(order) + 1
              /\ \A k \in 1 .. Len(order) : order'[k] = order[k]
              /\ order'[Len(order) + 1] = Top.file
          BY <2>9, <3>1, AppendProperties, LenProperties DEF Emit, TypeOK
        <4>2. \A k \in 1 .. Len(order) + 1 : k \in 1 .. Len(order) \/ k = Len(order) + 1
          BY <4>1
        <4>3. QED
          BY <2>2, <3>1, <3>2, <4>1, <4>2 DEF Gathered
      <3>6. Gathered'
        BY <2>2, <2>3, <3>1, <3>2, <3>3, <3>4, <3>5 DEF Gathered
      <3>7. QED
        BY <2>4, <3>3, <3>6
    <2>10. CASE Send
      <3>1. /\ stack = <<>> /\ todo = <<>> /\ pc = "walk" /\ pc' # "walk" /\ pc' # "start"
            /\ UNCHANGED <<stack, todo, visited, order, selected>>
            /\ outcome' \in {outcome, "badLimit"}
        BY <2>10 DEF Send, End, walking, native
      <3>2. \A g : ~Waiting(g)
        BY <3>1 DEF Waiting
      <3>3. QED
        BY <2>2, <2>3, <3>1, <3>2 DEF Gathered, OnePoolSucceeds
    <2>11. CASE BuildFile
      <3>1. files # <<>>
        BY <2>2, <2>11 DEF Gathered, BuildFile
      <3>2. Builds(order[built + 1]) /\ Resolves(order[built + 1])
        BY <2>2, <2>11, <3>1, NextBuilds DEF BuildFile
      <3>3. UNCHANGED <<pc, stack, todo, visited, order, selected, outcome>>
        BY <2>11, <3>2 DEF BuildFile, walking
      <3>4. QED
        BY <2>2, <2>3, <2>4, <3>3 DEF Gathered, Waiting
    <2>12. CASE Find
      <3>1. pc = "build" /\ built = Len(order) /\ pc' = "done"
            /\ UNCHANGED <<stack, todo, visited, order>>
        BY <2>12 DEF Find, End, walking
      <3>2. Gathered'
        BY <2>2, <2>3, <3>1 DEF Gathered
      <3>3. \A i \in DOMAIN files :
              /\ files[i] \in Known(built)
              /\ NameOf[files[i]] \in NamesOf(Known(built))
              /\ (CHOOSE f \in Known(built) : NameOf[f] = NameOf[files[i]]) = files[i]
        BY <2>2, <3>1, AskedIsKnown DEF NamesOf
      <3>4. files = [i \in DOMAIN files |-> files[i]]
        BY LenProperties DEF TypeOK
      <3>5. outcome' \in {"ok", "codecRefused"} /\ selected' = files
        BY <2>12, <3>3, <3>4 DEF Find, End
      <3>6. QED
        BY <2>3, <3>2, <3>5 DEF OnePoolSucceeds
    <2>13. CASE UNCHANGED vars
      BY <2>2, <2>3, <2>4, <2>13 DEF vars, Gathered, Waiting
    <2>14. QED
      BY <2>5, <2>6, <2>7, <2>8, <2>9, <2>10, <2>11, <2>12, <2>13 DEF Next
  <1>3. OnePoolInv => OnePoolSucceeds
    BY DEF OnePoolInv, OnePoolSucceeds
  <1>4. QED
    BY <1>1, <1>2, <1>3, TypeCorrect, WalkInvHolds, PTL DEF Spec
-------------------------------------------------------------------------------
(* How far a codec's walk is with the files that were passed, whatever     *)
(* their pools: n of them are done or under way, the set has files from    *)
(* the pools of those only, and each file done is in it, or another of its *)
(* name from the pool of one that was passed before.                       *)
Begun == Len(files) - Len(todo)

InPlace(i, f) == f = files[i] \/ \E j \in 1 .. i - 1 : PoolOf[files[j]] = PoolOf[f]

Chosen(i) == \E k \in DOMAIN order :
                 NameOf[order[k]] = NameOf[files[i]] /\ InPlace(i, order[k])

PassedBy(n) ==
    /\ n \in 0 .. Len(files)
    /\ \A k \in DOMAIN todo : n + k \in DOMAIN files /\ todo[k] = files[n + k]
    /\ \A k \in DOMAIN stack : n # 0 /\ PoolOf[stack[k].file] = PoolOf[files[n]]
    /\ stack # <<>> => stack[1].file = files[n]
    /\ \A k \in DOMAIN order : \E j \in 1 .. n : PoolOf[files[j]] = PoolOf[order[k]]
    /\ \A i \in 1 .. n : (i = n /\ stack # <<>>) \/ Chosen(i)

PassedInv ==
    api = "codec" =>
        /\ FirstPassedWins
        /\ PassedBy(Begun)
        /\ pc = "start" => stack = <<>>
        /\ pc = "build" => stack = <<>> /\ todo = <<>>

(* The loop over the files goes on to the next one.                        *)
LEMMA NextIsBegun ==
    ASSUME TypeOK, WalkInv, api = "codec", PassedBy(Begun), WalkFile
    PROVE  PassedBy(Begun)'
  <1> DEFINE n == Begun
             f == Head(todo)
  <1>1. /\ Len(todo) \in Nat \ {0} /\ DOMAIN todo = 1 .. Len(todo)
        /\ Len(todo') = Len(todo) - 1 /\ DOMAIN todo' = 1 .. Len(todo) - 1
        /\ \A k \in 1 .. Len(todo) - 1 : todo'[k] = todo[k + 1]
        /\ f \in File /\ f = todo[1]
        /\ Len(files) \in Nat /\ DOMAIN files = 1 .. Len(files)
        /\ Len(order) \in Nat /\ DOMAIN order = 1 .. Len(order)
    BY HeadTailProperties, LenProperties, EmptySeq DEF WalkFile, TypeOK
  <1>2. stack = <<>> /\ stack' = Walk(<<>>, f) /\ UNCHANGED <<files, order, visited>>
    BY DEF WalkFile, request
  <1>3. Begun' = n + 1 /\ n \in Nat /\ n + 1 \in 1 .. Len(files) /\ f = files[n + 1]
    <2>1. n \in Nat /\ n = Len(files) - Len(todo) /\ 1 \in DOMAIN todo
      <3>1. n \in 0 .. Len(files)
        BY DEF PassedBy
      <3>2. n = Len(files) - Len(todo)
        BY DEF Begun
      <3>3. QED
        BY <1>1, <3>1, <3>2
    <2>2. n + 1 \in DOMAIN files /\ todo[1] = files[n + 1]
      BY <2>1 DEF PassedBy
    <2>3. Begun' = Len(files) - (Len(todo) - 1)
      BY <1>1, <1>2 DEF Begun
    <2>4. QED
      BY <1>1, <2>1, <2>2, <2>3
  <1>4. n \in 0 .. Len(files)
    BY <1>1, <1>3
  <1> HIDE DEF n, f
  <1>5. ASSUME NEW k \in DOMAIN todo'
        PROVE  n + 1 + k \in DOMAIN files /\ todo'[k] = files[n + 1 + k]
    <2>1. k + 1 \in DOMAIN todo /\ todo'[k] = todo[k + 1] /\ n + (k + 1) = n + 1 + k
      <3>1. k \in 1 .. Len(todo) - 1 /\ Len(todo) \in Nat
        BY <1>1
      <3>2. k + 1 \in 1 .. Len(todo)
        BY <3>1
      <3>3. n + (k + 1) = n + 1 + k
        BY <1>3, <3>1
      <3>4. QED
        BY <1>1, <3>1, <3>2, <3>3
    <2>2. n + (k + 1) \in DOMAIN files /\ todo[k + 1] = files[n + (k + 1)]
      BY <2>1 DEF PassedBy, n
    <2>3. QED
      BY <2>1, <2>2
  <1>6. /\ \A k \in DOMAIN order : \E j \in 1 .. n : PoolOf[files[j]] = PoolOf[order[k]]
        /\ \A i \in 1 .. n : Chosen(i)
    BY <1>2 DEF PassedBy, n
  <1>7. /\ \A j \in 1 .. n : j \in 1 .. n + 1 /\ j \in 1 .. (n + 1) - 1
        /\ \A j \in 1 .. n + 1 : j \in 1 .. n \/ j = n + 1
    BY <1>3
  <1>8. \A i : Chosen(i)' <=> Chosen(i)
    BY <1>2 DEF Chosen, InPlace
  <1>9. /\ \A k \in DOMAIN stack' : stack'[k].file = f
        /\ stack' # <<>> => stack'[1].file = f
        /\ stack' = <<>> => NameOf[f] \in visited
    <2>1. stack \in Seq(Frame) /\ Len(stack) = 0 /\ stack' = Walk(stack, f)
      BY <1>2 DEF TypeOK
    <2>2. CASE NameOf[f] \in visited
      <3>1. Walk(stack, f) = stack
        BY <1>1, <2>1, <2>2, WalkStack
      <3>2. DOMAIN stack' = {} /\ stack' = <<>>
        BY <1>2, <2>1, <3>1
      <3>3. QED
        BY <2>2, <3>2
    <2>3. CASE NameOf[f] \notin visited
      <3>1. /\ stack' \in Seq(Frame) /\ Len(stack') = 1
            /\ stack'[1] = [file |-> f, dep |-> 1]
        <4>1. /\ Walk(stack, f) \in Seq(Frame)
              /\ Len(Walk(stack, f)) = Len(stack) + 1
              /\ Walk(stack, f)[Len(stack) + 1] = [file |-> f, dep |-> 1]
          BY <1>1, <2>1, <2>3, WalkStack
        <4>2. QED
          BY <2>1, <4>1
      <3>2. DOMAIN stack' = {1} /\ stack'[1].file = f
        BY <3>1, LenProperties
      <3>3. QED
        BY <3>1, <3>2
    <2>4. QED
      BY <2>2, <2>3
  <1>10. stack' = <<>> => Chosen(n + 1)
    <2> SUFFICES ASSUME NameOf[f] \in visited PROVE Chosen(n + 1)
      BY <1>9
    <2>1. PICK k \in DOMAIN order : NameOf[order[k]] = NameOf[f]
      BY DEF WalkInv, Listed, NamesOf
    <2>2. QED
      BY <1>3, <1>6, <1>7, <2>1 DEF Chosen, InPlace
  <1>11. QED
    <2>1. /\ n + 1 \in 0 .. Len(files) /\ n + 1 # 0
      BY <1>1, <1>3
    <2>2. \A k \in DOMAIN stack' : PoolOf[stack'[k].file] = PoolOf[files[n + 1]]
      BY <1>3, <1>9
    <2>3. \A i \in 1 .. n + 1 : (i = n + 1 /\ stack' # <<>>) \/ Chosen(i)
      BY <1>6, <1>7, <1>10
    <2>4. \A k \in DOMAIN order : \E j \in 1 .. n + 1 : PoolOf[files[j]] = PoolOf[order[k]]
      BY <1>6, <1>7
    <2>5. QED
      BY <1>2, <1>3, <1>5, <1>8, <1>9, <2>1, <2>2, <2>3, <2>4 DEF PassedBy

(* A dependency comes from the pool of the file that imports it.           *)
LEMMA DependenciesKeepPools ==
    ASSUME TypeOK, PassedBy(Begun), WalkDep
    PROVE  PassedBy(Begun)'
  <1> DEFINE n == Begun
             s == [stack EXCEPT ![Len(stack)].dep = @ + 1]
             f == deps[Top.file][Top.dep]
  <1>1. /\ s \in Seq(Frame) /\ DOMAIN s = DOMAIN stack /\ Len(s) = Len(stack)
        /\ DOMAIN stack = 1 .. Len(stack) /\ Len(stack) \in Nat \ {0}
        /\ \A k \in DOMAIN stack : s[k].file = stack[k].file
        /\ Top = stack[Len(stack)]
        /\ Top.file \in File /\ Top.dep \in Nat \ {0}
    <2>1. /\ s \in Seq(Frame) /\ Len(s) = Len(stack)
          /\ Len(stack) \in Nat \ {0} /\ Top \in Frame
          /\ \A k \in 1 .. Len(stack) - 1 : s[k] = stack[k]
          /\ s[Len(stack)].file = Top.file
      BY Advance DEF WalkDep, TypeOK
    <2>2. DOMAIN s = 1 .. Len(stack) /\ DOMAIN stack = 1 .. Len(stack)
      BY <2>1, LenProperties DEF TypeOK
    <2>3. \A k \in 1 .. Len(stack) : k \in 1 .. Len(stack) - 1 \/ k = Len(stack)
      BY <2>1
    <2>4. QED
      BY <2>1, <2>2, <2>3 DEF Top, Frame
  <1>2. f \in File /\ PoolOf[f] = PoolOf[Top.file]
    <2>1. deps \in Imports /\ deps[Top.file] \in Seq(File)
      BY <1>1, PoolAssumption DEF TypeOK
    <2>2. Top.dep \in DOMAIN deps[Top.file]
      BY <1>1, <2>1, LenProperties DEF WalkDep
    <2>3. f \in File
      BY <2>1, <2>2, ElementOfSeq, LenProperties
    <2>4. QED
      BY <1>1, <2>1, <2>2, <2>3, PoolAssumption
  <1>3. stack # <<>> /\ stack' = Walk(s, f) /\ UNCHANGED <<files, todo, order, visited>>
    BY DEF WalkDep, request
  <1> HIDE DEF s, f
  <1>4. /\ \A k \in DOMAIN stack' : stack'[k].file = f \/ \E l \in DOMAIN s : stack'[k] = s[l]
        /\ stack' # <<>> /\ stack'[1] = s[1]
    <2>1. Len(stack') # 0 /\ stack'[1] = s[1]
      <3>1. 1 \in 1 .. Len(s) /\ Len(s) \in Nat \ {0}
        BY <1>1
      <3>2. CASE NameOf[f] \in visited
        BY <1>1, <1>2, <1>3, <3>1, <3>2, WalkStack
      <3>3. CASE NameOf[f] \notin visited
        <4>1. Len(Walk(s, f)) = Len(s) + 1 /\ \A k \in 1 .. Len(s) : Walk(s, f)[k] = s[k]
          BY <1>1, <1>2, <3>3, WalkStack
        <4>2. QED
          BY <1>3, <3>1, <4>1
      <3>4. QED
        BY <3>2, <3>3
    <2>2. QED
      BY <1>1, <1>2, <1>3, <2>1, CallGathers
  <1>5. \A k \in DOMAIN stack' : n # 0 /\ PoolOf[stack'[k].file] = PoolOf[files[n]]
    <2>1. \A k \in DOMAIN stack : n # 0 /\ PoolOf[stack[k].file] = PoolOf[files[n]]
      BY DEF PassedBy
    <2>2. Len(stack) \in DOMAIN stack
      BY <1>1
    <2>3. QED
      BY <1>1, <1>2, <1>4, <2>1, <2>2
  <1>6. stack'[1].file = files[n]
    BY <1>1, <1>3, <1>4 DEF PassedBy
  <1>7. Begun' = n /\ \A i : Chosen(i)' <=> Chosen(i)
    BY <1>3 DEF Begun, Chosen, InPlace
  <1> HIDE DEF n
  <1>8. QED
    BY <1>3, <1>4, <1>5, <1>6, <1>7 DEF PassedBy, n

(* A file that is written down has the pool of the file passed.            *)
LEMMA EmittedAreOfThePools ==
    ASSUME TypeOK, PassedBy(Begun), Emit
    PROVE  PassedBy(Begun)'
  <1> DEFINE n == Begun
             o == Len(order)
  <1>1. /\ DOMAIN stack = 1 .. Len(stack) /\ DOMAIN stack' = 1 .. Len(stack) - 1
        /\ Len(stack) \in Nat \ {0} /\ stack' \in Seq(Frame)
        /\ \A k \in 1 .. Len(stack) - 1 : stack'[k] = stack[k]
        /\ Top = stack[Len(stack)] /\ Top.file \in File
    BY Popped, LenProperties DEF Emit, TypeOK, Top, Frame
  <1>2. /\ o \in Nat /\ DOMAIN order = 1 .. o /\ DOMAIN order' = 1 .. o + 1
        /\ \A i \in 1 .. o : order'[i] = order[i]
        /\ order'[o + 1] = Top.file
    BY <1>1, AppendProperties, LenProperties DEF Emit, TypeOK
  <1>3. stack # <<>> /\ UNCHANGED <<files, todo>>
    BY DEF Emit, request
  <1>4. /\ n # 0 /\ PoolOf[Top.file] = PoolOf[files[n]]
        /\ \A k \in DOMAIN stack : PoolOf[stack[k].file] = PoolOf[files[n]]
        /\ stack[1].file = files[n]
    <2>1. Len(stack) \in DOMAIN stack
      BY <1>1
    <2>2. QED
      BY <1>1, <1>3, <2>1 DEF PassedBy
  <1>5. n \in Nat /\ n \in 1 .. n /\ Len(files) \in Nat
    <2>1. Len(files) \in Nat
      BY LenProperties DEF TypeOK
    <2>2. n \in 0 .. Len(files)
      BY DEF PassedBy
    <2>3. QED
      BY <1>4, <2>1, <2>2
  <1>6. Begun' = n
    BY <1>3 DEF Begun
  <1>7. \A i : Chosen(i) => Chosen(i)'
    <2>1. \A k \in DOMAIN order : k \in DOMAIN order' /\ order'[k] = order[k]
      BY <1>2
    <2>2. QED
      BY <1>3, <2>1 DEF Chosen, InPlace
  <1>8. stack' = <<>> => \A i : i = n => Chosen(i)'
    <2> SUFFICES ASSUME stack' = <<>>, NEW i, i = n PROVE Chosen(i)'
      OBVIOUS
    <2>1. Len(stack) = 1
      <3>1. DOMAIN stack' = {}
        OBVIOUS
      <3>2. 1 \notin 1 .. Len(stack) - 1
        BY <1>1, <3>1
      <3>3. QED
        BY <1>1, <3>2
    <2>2. order'[o + 1] = files[i] /\ o + 1 \in DOMAIN order'
      BY <1>1, <1>2, <1>4, <2>1
    <2>3. QED
      BY <1>3, <2>2 DEF Chosen, InPlace
  <1>9. stack' # <<>> => stack'[1].file = files[n]
    <2> SUFFICES ASSUME stack' # <<>> PROVE stack'[1].file = files[n]
      OBVIOUS
    <2>1. Len(stack') \in Nat \ {0} /\ DOMAIN stack' = 1 .. Len(stack')
      BY <1>1, LenProperties, EmptySeq
    <2>2. 1 \in DOMAIN stack'
      BY <2>1
    <2>3. QED
      BY <1>1, <1>4, <2>2
  <1>10. ASSUME NEW k \in DOMAIN order'
         PROVE  \E j \in 1 .. n : PoolOf[files[j]] = PoolOf[order'[k]]
    <2>1. k \in 1 .. o \/ k = o + 1
      BY <1>2
    <2>2. CASE k \in 1 .. o
      <3>1. k \in DOMAIN order /\ order'[k] = order[k]
        BY <1>2, <2>2
      <3>2. QED
        BY <3>1 DEF PassedBy
    <2>3. CASE k = o + 1
      BY <1>2, <1>4, <1>5, <2>3
    <2>4. QED
      BY <2>1, <2>2, <2>3
  <1>11. \A k \in DOMAIN stack' : PoolOf[stack'[k].file] = PoolOf[files[n]]
    <2>1. \A k \in 1 .. Len(stack) - 1 : k \in 1 .. Len(stack)
      BY <1>1
    <2>2. QED
      BY <1>1, <1>4, <2>1
  <1>12. \A i \in 1 .. n : (i = n /\ stack' # <<>>) \/ Chosen(i)'
    <2>1. \A i \in 1 .. n : i = n \/ Chosen(i)
      BY DEF PassedBy
    <2>2. QED
      BY <1>7, <1>8, <2>1
  <1>13. /\ n \in 0 .. Len(files)
         /\ \A k \in DOMAIN todo : n + k \in DOMAIN files /\ todo[k] = files[n + k]
    BY DEF PassedBy
  <1> HIDE DEF n, o
  <1>14. QED
    BY <1>3, <1>4, <1>6, <1>9, <1>10, <1>11, <1>12, <1>13 DEF PassedBy

(* Files from any pools: of two with one name the first passed, or what    *)
(* came with the files passed before, is the one that a codec gets.        *)
THEOREM OrderOfArgumentsDecides == Spec => []FirstPassedWins
  <1>1. Init => PassedInv
    <2> SUFFICES ASSUME Init, api = "codec"
                 PROVE  PassedInv
      BY DEF PassedInv
    <2>1. /\ files \in Seq(File) /\ Len(files) \in Nat /\ DOMAIN files = 1 .. Len(files)
      BY FileLists, LenProperties DEF Init
    <2>2. todo = files /\ stack = <<>> /\ order = <<>> /\ pc = "start" /\ outcome = "none"
      BY DEF Init
    <2>3. Begun = 0
      BY <2>1, <2>2 DEF Begun
    <2>4. \A k \in DOMAIN files : 0 + k = k
      BY <2>1
    <2>5. PassedBy(0)
      BY <2>1, <2>2, <2>4 DEF PassedBy
    <2>6. QED
      BY <2>2, <2>3, <2>5 DEF PassedInv, FirstPassedWins
  <1>2. TypeOK /\ WalkInv /\ PassedInv /\ [Next]_vars => PassedInv'
    <2> SUFFICES ASSUME TypeOK, WalkInv, PassedInv, [Next]_vars, api' = "codec"
                 PROVE  PassedInv'
      BY DEF PassedInv
    <2>1. UNCHANGED request
      BY DEF Next, Start, Bring, WalkFile, WalkDep, Emit, Send, BuildFile, Find, vars, request
    <2>2. /\ UNCHANGED files /\ api = "codec" /\ FirstPassedWins /\ PassedBy(Begun)
          /\ pc = "start" => stack = <<>>
          /\ pc = "build" => stack = <<>> /\ todo = <<>>
      BY <2>1 DEF PassedInv, request
    <2>3. ASSUME UNCHANGED <<selected, outcome>> PROVE FirstPassedWins'
      BY <2>2, <2>3 DEF FirstPassedWins
    <2>4. ASSUME UNCHANGED walking PROVE PassedBy(Begun)'
      BY <2>2, <2>4 DEF PassedBy, Begun, Chosen, InPlace, walking
    <2>5. CASE Start
      <3>1. UNCHANGED walking /\ pc' # "start" /\ pc' # "build"
        BY <2>5 DEF Start, End
      <3>2. UNCHANGED selected /\ (outcome' # "ok" \/ UNCHANGED outcome)
        BY <2>5 DEF Start, End, native
      <3>3. FirstPassedWins'
        BY <2>3, <3>2 DEF FirstPassedWins
      <3>4. QED
        BY <2>4, <3>1, <3>3 DEF PassedInv
    <2>6. CASE Bring
      BY <2>2, <2>6 DEF Bring
    <2>7. CASE WalkFile
      <3>1. PassedBy(Begun)'
        BY <2>2, <2>7, NextIsBegun
      <3>2. QED
        BY <2>3, <2>7, <3>1 DEF WalkFile, native, PassedInv
    <2>8. CASE WalkDep
      <3>1. PassedBy(Begun)'
        BY <2>2, <2>8, DependenciesKeepPools
      <3>2. QED
        BY <2>3, <2>8, <3>1 DEF WalkDep, native, PassedInv
    <2>9. CASE Emit
      <3>1. PassedBy(Begun)'
        BY <2>2, <2>9, EmittedAreOfThePools
      <3>2. QED
        BY <2>3, <2>9, <3>1 DEF Emit, native, PassedInv
    <2>10. CASE Send
      <3>1. /\ UNCHANGED walking /\ stack = <<>> /\ todo = <<>> /\ UNCHANGED selected
            /\ outcome' = outcome \/ outcome' = "badLimit"
        BY <2>10 DEF Send, End, native
      <3>2. FirstPassedWins'
        BY <2>2, <2>3, <3>1 DEF FirstPassedWins
      <3>3. QED
        BY <2>4, <3>1, <3>2 DEF PassedInv, walking
    <2>11. CASE BuildFile
      <3>1. /\ UNCHANGED walking /\ pc = "build" /\ UNCHANGED selected
            /\ outcome' = outcome \/ outcome' = "buildFailed"
        BY <2>11 DEF BuildFile, End
      <3>2. FirstPassedWins'
        BY <2>2, <2>3, <3>1 DEF FirstPassedWins
      <3>3. QED
        BY <2>2, <2>4, <3>1, <3>2 DEF PassedInv, walking
    <2>12. CASE Find
      <3>1. /\ UNCHANGED walking /\ pc = "build" /\ built = Len(order) /\ pc' = "done"
        BY <2>12 DEF Find, End
      <3>2. FirstPassedWins'
        <4> SUFFICES ASSUME outcome' = "ok", NEW i \in DOMAIN files
                     PROVE  InPlace(i, selected'[i])
          BY <2>2 DEF FirstPassedWins, InPlace
        <4>1. /\ \A j \in DOMAIN files : NameOf[files[j]] \in NamesOf(Known(built))
              /\ selected' = [j \in DOMAIN files |->
                     CHOOSE f \in Known(built) : NameOf[f] = NameOf[files[j]]]
          BY <2>2, <2>12 DEF Find, End
        <4>2. /\ Len(files) \in Nat /\ DOMAIN files = 1 .. Len(files)
              /\ Len(order) \in Nat /\ DOMAIN order = 1 .. Len(order)
          BY LenProperties DEF TypeOK
        <4>3. Begun = Len(files)
          BY <2>2, <3>1, <4>2 DEF Begun
        <4>4. PICK k \in DOMAIN order :
                NameOf[order[k]] = NameOf[files[i]] /\ InPlace(i, order[k])
          <5>1. Chosen(i)
            BY <2>2, <3>1, <4>2, <4>3 DEF PassedBy
          <5>2. QED
            BY <5>1 DEF Chosen
        <4>5. \A f \in Known(built) : NameOf[f] = NameOf[files[i]] => f = order[k]
          BY <2>2, <3>1, <4>2, <4>4 DEF Known, WalkInv, Listed, NoDuplicateNames
        <4>6. order[k] \in Known(built)
          BY <3>1, <4>2 DEF Known
        <4>7. selected'[i] = CHOOSE f \in Known(built) : NameOf[f] = NameOf[files[i]]
          BY <4>1
        <4>8. selected'[i] = order[k]
          BY <4>4, <4>5, <4>6, <4>7
        <4>9. QED
          BY <4>4, <4>8
      <3>3. QED
        BY <2>4, <3>1, <3>2 DEF PassedInv
    <2>13. CASE UNCHANGED vars
      <3>1. UNCHANGED <<walking, selected, outcome, pc>>
        BY <2>13 DEF vars, walking
      <3>2. QED
        BY <2>2, <2>3, <2>4, <3>1 DEF PassedInv, walking
    <2>14. QED
      BY <2>5, <2>6, <2>7, <2>8, <2>9, <2>10, <2>11, <2>12, <2>13 DEF Next
  <1>3. PassedInv => FirstPassedWins
    BY DEF PassedInv, FirstPassedWins
  <1>4. QED
    BY <1>1, <1>2, <1>3, TypeCorrect, WalkInvHolds, PTL DEF Spec
===============================================================================
