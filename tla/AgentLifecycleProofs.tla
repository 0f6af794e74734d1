------------------------ MODULE AgentLifecycleProofs ------------------------
(***************************************************************************)
(* What is proved of AgentLifecycle for any agents, knowledge and number   *)
(* of runtimes.  The first invariant, LInv, adds where a runtime stands:   *)
(* one that stores fragment n of an item does so after the document and    *)
(* the n - 1 fragments before it are stored, by whomever.  From it follow  *)
(* that knowledge is stored in order and that what is registered runs.     *)
(* The second, KInv, adds who stores an item and what a runtime has behind *)
(* it; from it follow that the fragments of an undisturbed item belong to  *)
(* its document and that a registered agent finds its knowledge.           *)
(***************************************************************************)
EXTENDS AgentLifecycle, TLAPS, SequenceTheorems

StoredBefore(x, d, f) ==
    x.pc \in {"look", "insert"} =>
        /\ x.chunk \in 1..chunks[ItemOf(x)]
        /\ d[ItemOf(x)] # None
        /\ \A n \in 1..(x.chunk - 1) : f[<<ItemOf(x), n>>] # None

LInv ==
    /\ TypeOK
    /\ StoredInOrder
    /\ RegisteredIsLive
    /\ \A r \in Runtimes : StoredBefore(rt[r], docs, fragments)

-----------------------------------------------------------------------------
\* An item number within an agent's list names an item.
LEMMA ItemOfType ==
    ASSUME NEW x \in Runtime, x.agent \in Agents,
           x.item \in 1..Len(knowledgeOf[x.agent])
    PROVE  ItemOf(x) \in Items /\ chunks[ItemOf(x)] \in Nat
  BY LifecycleAssumption DEF ItemOf, Runtime

\* Going on with an item keeps the record of a runtime well formed and leaves
\* it outside the storing of fragments.
LEMMA AtItemType ==
    ASSUME NEW x \in Runtime, x.agent \in Agents, NEW k \in Nat \ {0}
    PROVE  /\ AtItem(x, k) \in Runtime
           /\ AgentIsSet(AtItem(x, k)) /\ ItemIsSet(AtItem(x, k))
           /\ AtItem(x, k).pc \in {"check", "clients"}
           /\ AtItem(x, k).agent = x.agent
  <1>1. knowledgeOf[x.agent] \in Seq(Items)
    BY LifecycleAssumption
  <1>2. Len(knowledgeOf[x.agent]) \in Nat
    BY <1>1
  <1>3. CASE k \leq Len(knowledgeOf[x.agent])
    <2>1. AtItem(x, k) = [x EXCEPT !.pc = "check", !.item = k]
      BY <1>3 DEF AtItem
    <2>2. k \in 1..Len(knowledgeOf[x.agent])
      BY <1>2, <1>3
    <2>3. AtItem(x, k) \in Runtime
      BY <2>1 DEF Runtime, Places
    <2>4. /\ AtItem(x, k).pc = "check"
          /\ AtItem(x, k).item = k
          /\ AtItem(x, k).agent = x.agent
      BY <2>1 DEF Runtime
    <2> QED BY <2>2, <2>3, <2>4 DEF AgentIsSet, ItemIsSet
  <1>4. CASE ~(k \leq Len(knowledgeOf[x.agent]))
    <2>1. AtItem(x, k) = [x EXCEPT !.pc = "clients"]
      BY <1>4 DEF AtItem
    <2>2. AtItem(x, k) \in Runtime
      BY <2>1 DEF Runtime, Places
    <2>3. AtItem(x, k).pc = "clients" /\ AtItem(x, k).agent = x.agent
      BY <2>1 DEF Runtime
    <2> QED BY <2>2, <2>3 DEF AgentIsSet, ItemIsSet
  <1> QED BY <1>3, <1>4

\* So does going on with a fragment, which is a fragment of the same item or
\* an exit from its storing.
LEMMA AtChunkType ==
    ASSUME NEW x \in Runtime, x.agent \in Agents, NEW n \in Nat \ {0},
           x.item \in 1..Len(knowledgeOf[x.agent])
    PROVE  /\ AtChunk(x, n) \in Runtime
           /\ AgentIsSet(AtChunk(x, n)) /\ ItemIsSet(AtChunk(x, n))
           /\ AtChunk(x, n).pc \in {"look", "check", "clients"}
           /\ AtChunk(x, n).agent = x.agent
           /\ AtChunk(x, n).pc = "look" =>
                 /\ ItemOf(AtChunk(x, n)) = ItemOf(x)
                 /\ AtChunk(x, n).chunk = n
                 /\ n \in 1..chunks[ItemOf(x)]
  <1>1. ItemOf(x) \in Items /\ chunks[ItemOf(x)] \in Nat
    BY ItemOfType
  <1>2. CASE n \leq chunks[ItemOf(x)]
    <2>1. AtChunk(x, n) = [x EXCEPT !.pc = "look", !.chunk = n]
      BY <1>2 DEF AtChunk
    <2>2. AtChunk(x, n) \in Runtime
      BY <2>1 DEF Runtime, Places
    <2>3. /\ AtChunk(x, n).pc = "look" /\ AtChunk(x, n).chunk = n
          /\ AtChunk(x, n).agent = x.agent /\ AtChunk(x, n).item = x.item
      BY <2>1 DEF Runtime
    <2> QED BY <1>1, <1>2, <2>2, <2>3 DEF ItemOf, AgentIsSet, ItemIsSet
  <1>3. CASE ~(n \leq chunks[ItemOf(x)])
    <2>1. x.item + 1 \in Nat \ {0}
      BY DEF Runtime
    <2>2. AtChunk(x, n) = AtItem(x, x.item + 1)
      BY <1>3 DEF AtChunk
    <2> QED BY <2>1, <2>2, AtItemType
  <1> QED BY <1>2, <1>3

\* A new runtime is well formed.
LEMMA BeginType ==
    ASSUME NEW a \in Agents, NEW how \in {"boot", "http"}
    PROVE  /\ Begin(a, how) \in Runtime
           /\ AgentIsSet(Begin(a, how)) /\ ItemIsSet(Begin(a, how))
           /\ Begin(a, how).pc \in {"check", "clients"}
           /\ Begin(a, how).agent = a
  <1> DEFINE x == [pc |-> "check", agent |-> a, via |-> how,
                   item |-> 1, chunk |-> 0]
  <1>1. x \in Runtime /\ x.agent = a
    BY DEF Runtime, Places
  <1> HIDE DEF x
  <1>2. /\ AtItem(x, 1) \in Runtime
        /\ AgentIsSet(AtItem(x, 1)) /\ ItemIsSet(AtItem(x, 1))
        /\ AtItem(x, 1).pc \in {"check", "clients"}
        /\ AtItem(x, 1).agent = x.agent
    BY <1>1, AtItemType
  <1> QED BY <1>1, <1>2 DEF Begin, x

\* What a fragment is.
LEMMA FragmentsAre ==
    /\ \A i \in Items : \A n \in 1..chunks[i] : <<i, n>> \in Fragments
    /\ \A f \in Fragments :
          f = <<f[1], f[2]>> /\ f[1] \in Items /\ f[2] \in 1..chunks[f[1]]
  BY DEF Fragments

-----------------------------------------------------------------------------
\* A step that moves one runtime that is not up, and only adds to the database,
\* preserves the invariant if that runtime is well formed and stands where the
\* new database allows.
LEMMA MoveKeeps ==
    ASSUME LInv,
           NEW r \in Runtimes, NEW y \in Runtime,
           rt' = [rt EXCEPT ![r] = y],
           rt[r].pc # "live", y.pc # "live", AgentIsSet(y), ItemIsSet(y),
           docs' \in [Items -> Agents \cup {None}],
           fragments' \in [Fragments -> Agents \cup {None}],
           \A i \in Items : docs[i] # None => docs'[i] # None,
           \A f \in Fragments : fragments[f] # None => fragments'[f] # None,
           StoredInOrder', StoredBefore(y, docs', fragments'),
           UNCHANGED <<agents, crashes>>,
           server' \in BOOLEAN, boot' \in 0..Len(BootOrder),
           unawaited' \in BOOLEAN,
           disturbed' \subseteq Items
    PROVE  LInv'
  <1>1. TypeOK'
    BY DEF LInv, TypeOK
  <1>2. RegisteredIsLive'
    BY DEF LInv, TypeOK, RegisteredIsLive
  <1>3. ASSUME NEW q \in Runtimes
        PROVE  StoredBefore(rt[q], docs, fragments)'
    <2>1. CASE q = r
      BY <2>1 DEF LInv, TypeOK
    <2>2. CASE q # r
      <3>1. rt'[q] = rt[q] /\ StoredBefore(rt[q], docs, fragments)
        BY <2>2 DEF LInv, TypeOK
      <3>2. SUFFICES ASSUME rt[q].pc \in {"look", "insert"}
                     PROVE  /\ docs'[ItemOf(rt[q])] # None
                            /\ \A n \in 1..(rt[q].chunk - 1) :
                                  fragments'[<<ItemOf(rt[q]), n>>] # None
        BY <3>1 DEF StoredBefore
      <3>3. rt[q] \in Runtime /\ rt[q].agent \in Agents
            /\ rt[q].item \in 1..Len(knowledgeOf[rt[q].agent])
        BY <3>2 DEF LInv, TypeOK, AgentIsSet, ItemIsSet
      <3>4. ItemOf(rt[q]) \in Items /\ chunks[ItemOf(rt[q])] \in Nat
        BY <3>3, ItemOfType
      <3>5. /\ rt[q].chunk \in 1..chunks[ItemOf(rt[q])]
            /\ docs[ItemOf(rt[q])] # None
            /\ \A n \in 1..(rt[q].chunk - 1) :
                  fragments[<<ItemOf(rt[q]), n>>] # None
        BY <3>1, <3>2 DEF StoredBefore
      <3>6. ASSUME NEW n \in 1..(rt[q].chunk - 1)
            PROVE  fragments'[<<ItemOf(rt[q]), n>>] # None
        <4>1. n \in 1..chunks[ItemOf(rt[q])]
          BY <3>4, <3>5
        <4> QED BY <3>4, <3>5, <4>1, FragmentsAre
      <3> QED BY <3>4, <3>5, <3>6
    <2> QED BY <2>1, <2>2
  <1> QED BY <1>1, <1>2, <1>3 DEF LInv

\* The same when the database stays as it is.
LEMMA MoveKeepsStored ==
    ASSUME LInv,
           NEW r \in Runtimes, NEW y \in Runtime,
           rt' = [rt EXCEPT ![r] = y],
           rt[r].pc # "live", y.pc # "live", AgentIsSet(y), ItemIsSet(y),
           StoredBefore(y, docs, fragments),
           UNCHANGED <<database, agents, crashes>>,
           server' \in BOOLEAN, boot' \in 0..Len(BootOrder),
           unawaited' \in BOOLEAN,
           disturbed' \subseteq Items
    PROVE  LInv'
  <1>1. UNCHANGED <<docs, fragments>>
    BY DEF database
  <1>2. StoredInOrder'
    BY <1>1 DEF LInv, StoredInOrder
  <1>3. docs' \in [Items -> Agents \cup {None}]
        /\ fragments' \in [Fragments -> Agents \cup {None}]
    BY <1>1 DEF LInv, TypeOK
  <1>4. StoredBefore(y, docs', fragments')
    BY <1>1 DEF StoredBefore
  <1> QED BY <1>1, <1>2, <1>3, <1>4, MoveKeeps

\* The end of the process leaves the database and nothing else.
LEMMA EndKeeps ==
    ASSUME LInv, ProcessEnds, crashes' \in 0..MaxCrashes
    PROVE  LInv'
  <1>1. Free \in Runtime /\ AgentIsSet(Free) /\ ItemIsSet(Free)
    BY DEF Free, Runtime, Places, AgentIsSet, ItemIsSet
  <1>2. UNCHANGED <<docs, fragments>>
    BY DEF ProcessEnds, database
  <1>3. Len(BootOrder) \in Nat
    BY LifecycleAssumption
  <1>4. TypeOK'
    <2>1. rt' \in [Runtimes -> Runtime]
          /\ \A r \in Runtimes : AgentIsSet(rt'[r]) /\ ItemIsSet(rt'[r])
      BY <1>1 DEF ProcessEnds
    <2>2. /\ agents' \in [Agents -> Runtimes \cup {None}]
          /\ server' \in BOOLEAN /\ unawaited' \in BOOLEAN
      BY DEF ProcessEnds
    <2>3. boot' \in 0..Len(BootOrder)
      BY <1>3 DEF ProcessEnds
    <2>4. disturbed' \subseteq Items
      BY DEF ProcessEnds, LInv, TypeOK
    <2> QED BY <1>2, <2>1, <2>2, <2>3, <2>4 DEF LInv, TypeOK
  <1>5. StoredInOrder'
    BY <1>2 DEF LInv, StoredInOrder
  <1>6. RegisteredIsLive'
    BY DEF ProcessEnds, RegisteredIsLive
  <1>7. \A r \in Runtimes : StoredBefore(rt[r], docs, fragments)'
    BY DEF ProcessEnds, Free, StoredBefore
  <1> QED BY <1>4, <1>5, <1>6, <1>7 DEF LInv

\* Stopping what is registered for a, and unregistering it, keeps the invariant
\* of everything else.
LEMMA StopKeeps ==
    ASSUME LInv, NEW a \in Agents
    PROVE  /\ Stopped(a) \in [Runtimes -> Runtime]
           /\ \A q \in Runtimes :
                 /\ AgentIsSet(Stopped(a)[q]) /\ ItemIsSet(Stopped(a)[q])
                 /\ StoredBefore(Stopped(a)[q], docs, fragments)
           /\ \A c \in Agents \ {a} : agents[c] # None =>
                 /\ Stopped(a)[agents[c]].pc = "live"
                 /\ Stopped(a)[agents[c]].agent = c
  <1>1. Free \in Runtime /\ AgentIsSet(Free) /\ ItemIsSet(Free)
        /\ StoredBefore(Free, docs, fragments)
    BY DEF Free, Runtime, Places, AgentIsSet, ItemIsSet, StoredBefore
  <1>2. CASE agents[a] = None
    BY <1>2 DEF Stopped, LInv, TypeOK, RegisteredIsLive
  <1>3. CASE agents[a] # None
    <2>1. agents[a] \in Runtimes /\ rt[agents[a]].agent = a
      BY <1>3 DEF LInv, TypeOK, RegisteredIsLive
    <2>2. Stopped(a) = [rt EXCEPT ![agents[a]] = Free]
      BY <1>3 DEF Stopped
    <2>3. \A c \in Agents \ {a} : agents[c] # None =>
             /\ agents[c] \in Runtimes /\ agents[c] # agents[a]
             /\ rt[agents[c]].pc = "live" /\ rt[agents[c]].agent = c
      BY <2>1 DEF LInv, TypeOK, RegisteredIsLive
    <2> QED BY <1>1, <2>1, <2>2, <2>3 DEF LInv, TypeOK
  <1> QED BY <1>2, <1>3

\* The same with a new runtime in the place that is free then.
LEMMA ReplaceKeeps ==
    ASSUME LInv, NEW a \in Agents,
           agents' = [agents EXCEPT ![a] = None],
           UNCHANGED <<database, server, boot, crashes, disturbed>>,
           unawaited' \in BOOLEAN,
           \/ rt' = Stopped(a)
           \/ \E r \in Runtimes, b \in Agents :
                 /\ Stopped(a)[r].pc = "free"
                 /\ rt' = [Stopped(a) EXCEPT ![r] = Begin(b, "http")]
    PROVE  LInv'
  <1>1. UNCHANGED <<docs, fragments>>
    BY DEF database
  <1> DEFINE Kept(x) ==
        /\ x \in [Runtimes -> Runtime]
        /\ \A q \in Runtimes :
              /\ AgentIsSet(x[q]) /\ ItemIsSet(x[q])
              /\ StoredBefore(x[q], docs, fragments)
        /\ \A c \in Agents \ {a} : agents[c] # None =>
              x[agents[c]].pc = "live" /\ x[agents[c]].agent = c
  <1>2. Kept(rt')
    <2>1. Kept(Stopped(a))
      BY StopKeeps
    <2>2. ASSUME NEW r \in Runtimes, NEW b \in Agents,
                 Stopped(a)[r].pc = "free",
                 rt' = [Stopped(a) EXCEPT ![r] = Begin(b, "http")]
          PROVE  Kept(rt')
      <3>1. /\ Begin(b, "http") \in Runtime
            /\ AgentIsSet(Begin(b, "http")) /\ ItemIsSet(Begin(b, "http"))
            /\ StoredBefore(Begin(b, "http"), docs, fragments)
        BY BeginType DEF StoredBefore
      <3>2. \A c \in Agents \ {a} : agents[c] # None => agents[c] # r
        BY <2>1, <2>2
      <3>3. \A c \in Agents : agents[c] # None => agents[c] \in Runtimes
        BY DEF LInv, TypeOK
      <3> QED BY <2>1, <2>2, <3>1, <3>2, <3>3
    <2>3. CASE rt' = Stopped(a)
      BY <2>1, <2>3
    <2> QED BY <2>2, <2>3
  <1>3. TypeOK'
    BY <1>1, <1>2 DEF LInv, TypeOK
  <1>4. StoredInOrder'
    BY <1>1 DEF LInv, StoredInOrder
  <1>5. RegisteredIsLive'
    BY <1>2 DEF LInv, TypeOK, RegisteredIsLive
  <1> QED BY <1>1, <1>2, <1>3, <1>4, <1>5 DEF LInv

-----------------------------------------------------------------------------
\* The process starts with an empty map and an empty database.
LEMMA InitInv == Init => LInv
  <1> SUFFICES ASSUME Init PROVE LInv
    OBVIOUS
  <1>1. Free \in Runtime /\ AgentIsSet(Free) /\ ItemIsSet(Free)
        /\ StoredBefore(Free, docs, fragments)
    BY DEF Free, Runtime, Places, AgentIsSet, ItemIsSet, StoredBefore
  <1>2. TypeOK
    <2>1. 0 \in 0..Len(BootOrder) /\ 0 \in 0..MaxCrashes
      BY LifecycleAssumption
    <2> QED BY <1>1, <2>1 DEF Init, TypeOK
  <1>3. StoredInOrder /\ RegisteredIsLive
    BY DEF Init, StoredInOrder, RegisteredIsLive
  <1> QED BY <1>1, <1>2, <1>3 DEF Init, LInv

\* A step of a start that is not its registration and does not fail.
LEMMA StoringKeeps ==
    ASSUME LInv, NEW r \in Runtimes,
           \/ CheckDocument(r) \/ LookDocument(r) \/ InsertDocument(r)
           \/ LookFragment(r) \/ InsertFragment(r)
    PROVE  LInv'
  <1> DEFINE x == rt[r]
             i == ItemOf(x)
  <1>1. /\ x \in Runtime /\ x.agent \in Agents
        /\ x.item \in 1..Len(knowledgeOf[x.agent]) /\ x.pc # "live"
    BY DEF LInv, TypeOK, AgentIsSet, ItemIsSet, CheckDocument, LookDocument,
           InsertDocument, LookFragment, InsertFragment
  <1>2. i \in Items /\ chunks[i] \in Nat
    BY <1>1, ItemOfType
  <1>3. /\ server \in BOOLEAN /\ boot \in 0..Len(BootOrder)
        /\ unawaited \in BOOLEAN /\ disturbed \subseteq Items
    BY DEF LInv, TypeOK
  <1>4. CASE CheckDocument(r)
    <2>1. x.item + 1 \in Nat \ {0}
      BY <1>1
    <2>2. CASE docs[i] = x.agent
      <3> DEFINE y == AtItem(x, x.item + 1)
      <3>1. rt' = [rt EXCEPT ![r] = y]
        BY <1>4, <2>2 DEF CheckDocument
      <3>2. /\ y \in Runtime /\ AgentIsSet(y) /\ ItemIsSet(y)
            /\ y.pc \in {"check", "clients"}
        BY <1>1, <2>1, AtItemType
      <3>3. StoredBefore(y, docs, fragments)
        BY <3>2 DEF StoredBefore
      <3> HIDE DEF y
      <3> QED BY <1>1, <1>3, <1>4, <3>1, <3>2, <3>3, MoveKeepsStored
              DEF CheckDocument
    <2>3. CASE docs[i] # x.agent
      <3> DEFINE y == [x EXCEPT !.pc = "lookDoc"]
      <3>1. rt' = [rt EXCEPT ![r] = y]
        BY <1>4, <2>3 DEF CheckDocument
      <3>2. /\ y \in Runtime /\ AgentIsSet(y) /\ ItemIsSet(y)
            /\ y.pc = "lookDoc"
        BY <1>1 DEF Runtime, Places, AgentIsSet, ItemIsSet
      <3>3. StoredBefore(y, docs, fragments)
        BY <3>2 DEF StoredBefore
      <3> HIDE DEF y
      <3> QED BY <1>1, <1>3, <1>4, <3>1, <3>2, <3>3, MoveKeepsStored
              DEF CheckDocument
    <2> QED BY <2>2, <2>3
  <1>5. CASE LookDocument(r)
    <2>1. disturbed' \subseteq Items
      BY <1>2, <1>3, <1>5 DEF LookDocument
    <2>2. CASE docs[i] = None
      <3> DEFINE y == [x EXCEPT !.pc = "insertDoc"]
      <3>1. rt' = [rt EXCEPT ![r] = y]
        BY <1>5, <2>2 DEF LookDocument
      <3>2. /\ y \in Runtime /\ AgentIsSet(y) /\ ItemIsSet(y)
            /\ y.pc = "insertDoc"
        BY <1>1 DEF Runtime, Places, AgentIsSet, ItemIsSet
      <3>3. StoredBefore(y, docs, fragments)
        BY <3>2 DEF StoredBefore
      <3> HIDE DEF y
      <3> QED BY <1>1, <1>3, <1>5, <2>1, <3>1, <3>2, <3>3, MoveKeepsStored
              DEF LookDocument
    <2>3. CASE docs[i] # None
      <3> DEFINE y == AtChunk(x, 1)
      <3>1. rt' = [rt EXCEPT ![r] = y]
        BY <1>5, <2>3 DEF LookDocument
      <3>2. /\ y \in Runtime /\ AgentIsSet(y) /\ ItemIsSet(y)
            /\ y.pc \in {"look", "check", "clients"}
            /\ y.pc = "look" =>
                  ItemOf(y) = i /\ y.chunk = 1 /\ 1 \in 1..chunks[i]
        BY <1>1, AtChunkType
      <3>3. StoredBefore(y, docs, fragments)
        BY <2>3, <3>2 DEF StoredBefore
      <3> HIDE DEF y
      <3> QED BY <1>1, <1>3, <1>5, <2>1, <3>1, <3>2, <3>3, MoveKeepsStored
              DEF LookDocument
    <2> QED BY <2>2, <2>3
  <1>6. CASE InsertDocument(r)
    <2> DEFINE y == AtChunk(x, 1)
    <2>1. rt' = [rt EXCEPT ![r] = y] /\ docs' = [docs EXCEPT ![i] = x.agent]
          /\ UNCHANGED <<fragments, agents, server, boot, unawaited,
                         crashes, disturbed>>
      BY <1>6 DEF InsertDocument
    <2>2. x.agent # None
      BY <1>1, LifecycleAssumption
    <2>3. /\ docs' \in [Items -> Agents \cup {None}] /\ docs'[i] # None
          /\ \A j \in Items : docs[j] # None => docs'[j] # None
      BY <1>1, <1>2, <2>1, <2>2 DEF LInv, TypeOK
    <2>4. StoredInOrder'
      BY <2>1, <2>3, FragmentsAre DEF LInv, StoredInOrder
    <2>5. /\ y \in Runtime /\ AgentIsSet(y) /\ ItemIsSet(y)
          /\ y.pc \in {"look", "check", "clients"}
          /\ y.pc = "look" =>
                ItemOf(y) = i /\ y.chunk = 1 /\ 1 \in 1..chunks[i]
      BY <1>1, AtChunkType
    <2>6. StoredBefore(y, docs', fragments')
      BY <2>3, <2>5 DEF StoredBefore
    <2>7. fragments' \in [Fragments -> Agents \cup {None}]
      BY <2>1 DEF LInv, TypeOK
    <2> HIDE DEF y
    <2> QED BY <1>1, <1>3, <2>1, <2>3, <2>4, <2>5, <2>6, <2>7, MoveKeeps
  <1>7. ASSUME x.pc \in {"look", "insert"}
        PROVE  /\ x.chunk \in 1..chunks[i] /\ x.chunk + 1 \in Nat \ {0}
               /\ docs[i] # None
               /\ \A n \in 1..(x.chunk - 1) : fragments[<<i, n>>] # None
               /\ FragmentOf(x) = <<i, x.chunk>> /\ <<i, x.chunk>> \in Fragments
    BY <1>2, <1>7, FragmentsAre DEF LInv, StoredBefore, FragmentOf
  <1>8. CASE LookFragment(r)
    <2>1. x.pc = "look"
      BY <1>8 DEF LookFragment
    <2>2. CASE fragments[FragmentOf(x)] = None
      <3> DEFINE y == [x EXCEPT !.pc = "insert"]
      <3>1. rt' = [rt EXCEPT ![r] = y]
        BY <1>8, <2>2 DEF LookFragment
      <3>2. /\ y \in Runtime /\ AgentIsSet(y) /\ ItemIsSet(y)
            /\ y.pc = "insert" /\ ItemOf(y) = i /\ y.chunk = x.chunk
        BY <1>1 DEF Runtime, Places, AgentIsSet, ItemIsSet, ItemOf
      <3>3. StoredBefore(y, docs, fragments)
        BY <1>7, <2>1, <3>2 DEF StoredBefore
      <3> HIDE DEF y
      <3> QED BY <1>1, <1>3, <1>8, <3>1, <3>2, <3>3, MoveKeepsStored
              DEF LookFragment
    <2>3. CASE fragments[FragmentOf(x)] # None
      <3> DEFINE y == AtChunk(x, x.chunk + 1)
      <3>1. rt' = [rt EXCEPT ![r] = y]
        BY <1>8, <2>3 DEF LookFragment
      <3>2. /\ y \in Runtime /\ AgentIsSet(y) /\ ItemIsSet(y)
            /\ y.pc \in {"look", "check", "clients"}
            /\ y.pc = "look" => /\ ItemOf(y) = i /\ y.chunk = x.chunk + 1
                                /\ x.chunk + 1 \in 1..chunks[i]
        BY <1>1, <1>7, <2>1, AtChunkType
      <3>3. \A n \in 1..x.chunk : fragments[<<i, n>>] # None
        BY <1>2, <1>7, <2>1, <2>3
      <3>4. StoredBefore(y, docs, fragments)
        BY <1>2, <1>7, <2>1, <3>2, <3>3 DEF StoredBefore
      <3> HIDE DEF y
      <3> QED BY <1>1, <1>3, <1>8, <3>1, <3>2, <3>4, MoveKeepsStored
              DEF LookFragment
    <2> QED BY <2>2, <2>3
  <1>9. CASE InsertFragment(r)
    <2> DEFINE y == AtChunk(x, x.chunk + 1)
    <2>1. /\ x.pc = "insert" /\ rt' = [rt EXCEPT ![r] = y]
          /\ fragments' = [fragments EXCEPT ![FragmentOf(x)] = x.agent]
          /\ UNCHANGED <<docs, agents, server, boot, unawaited,
                         crashes, disturbed>>
      BY <1>9 DEF InsertFragment
    <2>2. x.agent # None
      BY <1>1, LifecycleAssumption
    <2>3. /\ fragments' \in [Fragments -> Agents \cup {None}]
          /\ fragments'[<<i, x.chunk>>] # None
          /\ \A f \in Fragments :
                /\ fragments[f] # None => fragments'[f] # None
                /\ f # <<i, x.chunk>> => fragments'[f] = fragments[f]
      BY <1>1, <1>7, <2>1, <2>2 DEF LInv, TypeOK
    <2>4. \A n \in 1..x.chunk : fragments'[<<i, n>>] # None
      <3> SUFFICES ASSUME NEW n \in 1..x.chunk
                   PROVE  fragments'[<<i, n>>] # None
        OBVIOUS
      <3>1. n \in 1..chunks[i] /\ <<i, n>> \in Fragments
        BY <1>2, <1>7, <2>1, FragmentsAre
      <3>2. n = x.chunk \/ n \in 1..(x.chunk - 1)
        BY <1>7, <2>1
      <3> QED BY <1>7, <2>1, <2>3, <3>1, <3>2
    <2>5. StoredInOrder'
      <3> SUFFICES ASSUME NEW f \in Fragments, fragments'[f] # None
                   PROVE  /\ docs'[f[1]] # None
                          /\ \A n \in 1..f[2] : fragments'[<<f[1], n>>] # None
        BY DEF StoredInOrder
      <3>1. CASE f = <<i, x.chunk>>
        BY <1>7, <2>1, <2>4, <3>1
      <3>2. CASE f # <<i, x.chunk>>
        <4>1. /\ docs[f[1]] # None
              /\ \A n \in 1..f[2] : fragments[<<f[1], n>>] # None
          BY <2>3, <3>2 DEF LInv, StoredInOrder
        <4>2. \A n \in 1..f[2] : <<f[1], n>> \in Fragments
          <5>1. f[1] \in Items /\ f[2] \in 1..chunks[f[1]]
            BY FragmentsAre
          <5>2. chunks[f[1]] \in Nat
            BY <5>1, LifecycleAssumption
          <5>3. \A n \in 1..f[2] : n \in 1..chunks[f[1]]
            BY <5>1, <5>2
          <5> QED BY <5>1, <5>3, FragmentsAre
        <4> QED BY <2>1, <2>3, <4>1, <4>2
      <3> QED BY <3>1, <3>2
    <2>6. /\ y \in Runtime /\ AgentIsSet(y) /\ ItemIsSet(y)
          /\ y.pc \in {"look", "check", "clients"}
          /\ y.pc = "look" => /\ ItemOf(y) = i /\ y.chunk = x.chunk + 1
                              /\ x.chunk + 1 \in 1..chunks[i]
      BY <1>1, <1>7, <2>1, AtChunkType
    <2>7. StoredBefore(y, docs', fragments')
      BY <1>2, <1>7, <2>1, <2>4, <2>6 DEF StoredBefore
    <2>8. docs' \in [Items -> Agents \cup {None}]
          /\ \A j \in Items : docs[j] # None => docs'[j] # None
      BY <2>1 DEF LInv, TypeOK
    <2> HIDE DEF y
    <2> QED BY <1>1, <1>3, <2>1, <2>3, <2>5, <2>6, <2>7, <2>8, MoveKeeps
  <1> QED BY <1>4, <1>5, <1>6, <1>8, <1>9

\* Registration: whatever was registered for the agent is overwritten.
LEMMA RegisterKeeps ==
    ASSUME LInv, NEW r \in Runtimes, Register(r)
    PROVE  LInv'
  <1>1. /\ rt[r].pc = "clients" /\ rt' = [rt EXCEPT ![r].pc = "live"]
        /\ agents' = [agents EXCEPT ![rt[r].agent] = r]
        /\ UNCHANGED <<docs, fragments, server, boot, unawaited,
                       crashes, disturbed>>
    BY DEF Register, database
  <1>2. rt[r] \in Runtime /\ rt[r].agent \in Agents
    BY <1>1 DEF LInv, TypeOK, AgentIsSet
  <1>3. /\ rt' \in [Runtimes -> Runtime]
        /\ rt'[r].pc = "live" /\ rt'[r].agent = rt[r].agent
        /\ \A q \in Runtimes \ {r} : rt'[q] = rt[q]
    BY <1>1, <1>2 DEF LInv, TypeOK, Runtime, Places
  <1>4. \A q \in Runtimes : AgentIsSet(rt'[q]) /\ ItemIsSet(rt'[q])
    BY <1>2, <1>3 DEF LInv, TypeOK, AgentIsSet, ItemIsSet
  <1>5. TypeOK'
    BY <1>1, <1>2, <1>3, <1>4 DEF LInv, TypeOK
  <1>6. StoredInOrder'
    BY <1>1 DEF LInv, StoredInOrder
  <1>7. RegisteredIsLive'
    BY <1>1, <1>2, <1>3 DEF LInv, TypeOK, RegisteredIsLive
  <1>8. \A q \in Runtimes : StoredBefore(rt[q], docs, fragments)'
    BY <1>1, <1>3 DEF LInv, StoredBefore, ItemOf
  <1> QED BY <1>5, <1>6, <1>7, <1>8 DEF LInv

\* Every step preserves the invariant.
LEMMA NextInv == LInv /\ [Next]_vars => LInv'
  <1> SUFFICES ASSUME LInv, [Next]_vars PROVE LInv'
    OBVIOUS
  <1>1. /\ server \in BOOLEAN /\ boot \in 0..Len(BootOrder)
        /\ Len(BootOrder) \in Nat /\ crashes \in 0..MaxCrashes
        /\ unawaited \in BOOLEAN
        /\ MaxCrashes \in Nat /\ disturbed \subseteq Items
    BY LifecycleAssumption DEF LInv, TypeOK
  <1>2. ASSUME NEW r \in Runtimes, StartNext(r)
        PROVE  LInv'
    <2> DEFINE y == Begin(BootOrder[boot'], "boot")
    <2>1. /\ rt[r].pc = "free" /\ rt' = [rt EXCEPT ![r] = y]
          /\ boot' = boot + 1 /\ boot < Len(BootOrder)
          /\ unawaited' = TRUE
          /\ UNCHANGED <<database, agents, server, crashes, disturbed>>
      BY <1>2 DEF StartNext
    <2>2. boot' \in 1..Len(BootOrder) /\ boot' \in 0..Len(BootOrder)
      BY <1>1, <2>1
    <2>3. BootOrder[boot'] \in Agents
      BY <2>2, LifecycleAssumption
    <2>4. /\ y \in Runtime /\ AgentIsSet(y) /\ ItemIsSet(y)
          /\ y.pc \in {"check", "clients"}
      BY <2>3, BeginType
    <2>5. StoredBefore(y, docs, fragments)
      BY <2>4 DEF StoredBefore
    <2> HIDE DEF y
    <2> QED BY <1>1, <2>1, <2>2, <2>4, <2>5, MoveKeepsStored
  <1>3. ASSUME NEW r \in Runtimes, StartStep(r)
        PROVE  LInv'
    BY <1>3, StoringKeeps, RegisterKeeps DEF StartStep
  <1>4. ASSUME NEW r \in Runtimes, BootFails(r)
        PROVE  LInv'
    <2>1. /\ rt' = [rt EXCEPT ![r] = Free] /\ boot' = Len(BootOrder)
          /\ disturbed' \subseteq Items
          /\ UNCHANGED <<database, agents, server, unawaited, crashes>>
      BY <1>1, <1>4 DEF BootFails
    <2>2. rt[r].pc # "live"
      BY <1>4 DEF BootFails, Rejects, Conflict
    <2>3. /\ Free \in Runtime /\ AgentIsSet(Free) /\ ItemIsSet(Free)
          /\ Free.pc # "live" /\ StoredBefore(Free, docs, fragments)
      BY DEF Free, Runtime, Places, AgentIsSet, ItemIsSet, StoredBefore
    <2>4. boot' \in 0..Len(BootOrder)
      BY <1>1, <2>1
    <2> QED BY <1>1, <2>1, <2>2, <2>3, <2>4, MoveKeepsStored
  <1>5. ASSUME NEW r \in Runtimes, RequestFails(r)
        PROVE  LInv'
    BY <1>1, <1>5, EndKeeps DEF RequestFails
  <1>6. ASSUME NEW a \in Agents, NEW b \in Agents, NEW r \in Runtimes,
               SetAgent(a, b, r)
        PROVE  LInv'
    BY <1>6, ReplaceKeeps DEF SetAgent
  <1>7. ASSUME NEW a \in Agents, SetInvalid(a)
        PROVE  LInv'
    BY <1>1, <1>7, ReplaceKeeps DEF SetInvalid
  <1>8. ASSUME NEW a \in Agents, StopThrows(a)
        PROVE  LInv'
    BY <1>1, <1>8, EndKeeps DEF StopThrows
  <1>9. CASE Listen
    <2>1. /\ server' \in BOOLEAN
          /\ UNCHANGED <<docs, fragments, rt, agents, boot, unawaited,
                         crashes, disturbed>>
      BY <1>9 DEF Listen, database
    <2> QED BY <2>1 DEF LInv, TypeOK, StoredInOrder, RegisteredIsLive
  <1>10. CASE Crash
    <2>1. crashes' \in 0..MaxCrashes
      BY <1>1, <1>10 DEF Crash
    <2> QED BY <1>10, <2>1, EndKeeps DEF Crash
  <1>11. CASE UnawaitedSettle
    <2>1. /\ unawaited' \in BOOLEAN
          /\ UNCHANGED <<docs, fragments, rt, agents, server, boot,
                         crashes, disturbed>>
      BY <1>11 DEF UnawaitedSettle, database
    <2> QED BY <2>1 DEF LInv, TypeOK, StoredInOrder, RegisteredIsLive
  <1>12. CASE UnawaitedRejects
    BY <1>1, <1>12, EndKeeps DEF UnawaitedRejects
  <1>13. CASE UNCHANGED vars
    BY <1>13 DEF vars, database, LInv, TypeOK, StoredInOrder, RegisteredIsLive
  <1> QED BY <1>2, <1>3, <1>4, <1>5, <1>6, <1>7, <1>8, <1>9, <1>10, <1>11,
             <1>12, <1>13
          DEF Next, StartFails

\* The inductive invariant holds in every reachable state: the types, the two
\* properties below and the place of each runtime that stores fragments.
THEOREM LifecycleInvariant == Spec => []LInv
  BY InitInv, NextInv, PTL DEF Spec

\* knowledge.set's order of storing survives any overlap of starts, any crash
\* and any rejection: a fragment in the database has its document and all the
\* fragments before it.
THEOREM KnowledgeIsStoredInOrder == Spec => []StoredInOrder
  <1>1. LInv => StoredInOrder
    BY DEF LInv
  <1> QED BY <1>1, LifecycleInvariant, PTL

\* DirectClient.agents holds, under each id, a runtime of that agent that is
\* up, however requests to replace it overlap.
THEOREM WhatIsRegisteredRuns == Spec => []RegisteredIsLive
  <1>1. LInv => RegisteredIsLive
    BY DEF LInv
  <1> QED BY <1>1, LifecycleInvariant, PTL

-----------------------------------------------------------------------------
(***************************************************************************)
(* Whose knowledge is stored, and how completely.  For an item that was    *)
(* never disturbed: its storers are runtimes of one agent; a storer of     *)
(* another agent than the document's finds every fragment there; and an    *)
(* item with a document is complete or still being stored.  For a runtime: *)
(* the items before the one it is at have documents, of whatever agent.    *)
(***************************************************************************)
AllThere(i) == \A n \in 1..chunks[i] : fragments[<<i, n>>] # None

ItemInv(i) == i \notin disturbed =>
    /\ \A q, r \in Storing(i) : rt[q].agent = rt[r].agent
    /\ \A r \in Storing(i) : rt[r].agent = docs[i] \/ AllThere(i)
    /\ \A n \in 1..chunks[i] : fragments[<<i, n>>] \in {None, docs[i]}
    /\ docs[i] # None => AllThere(i) \/ Storing(i) # {}

\* Runtime x has gone past its item number k.
Past(x, k) == x.pc \in {"clients", "live"} \/ k < x.item

DocsBefore(x, d) ==
    x.pc # "free" =>
        \A k \in 1..Len(knowledgeOf[x.agent]) :
            Past(x, k) => d[knowledgeOf[x.agent][k]] # None

KParts ==
    /\ \A i \in Items : ItemInv(i)
    /\ \A r \in Runtimes : DocsBefore(rt[r], docs)

KInv == LInv /\ KParts

\* Going on with item k is past the items before k.
LEMMA AtItemDocs ==
    ASSUME NEW x \in Runtime, x.agent \in Agents, NEW k \in Nat, NEW d,
           \A j \in 1..Len(knowledgeOf[x.agent]) :
               j < k => d[knowledgeOf[x.agent][j]] # None
    PROVE  DocsBefore(AtItem(x, k), d)
  <1>1. Len(knowledgeOf[x.agent]) \in Nat
    BY LifecycleAssumption
  <1>2. CASE k \leq Len(knowledgeOf[x.agent])
    <2>1. AtItem(x, k) = [x EXCEPT !.pc = "check", !.item = k]
      BY <1>2 DEF AtItem
    <2>2. /\ AtItem(x, k).pc = "check" /\ AtItem(x, k).item = k
          /\ AtItem(x, k).agent = x.agent
      BY <2>1 DEF Runtime
    <2> QED BY <2>2 DEF DocsBefore, Past
  <1>3. CASE ~(k \leq Len(knowledgeOf[x.agent]))
    <2>1. AtItem(x, k) = [x EXCEPT !.pc = "clients"]
      BY <1>3 DEF AtItem
    <2>2. AtItem(x, k).agent = x.agent
      BY <2>1 DEF Runtime
    <2>3. \A j \in 1..Len(knowledgeOf[x.agent]) : j < k
      BY <1>1, <1>3
    <2> QED BY <2>2, <2>3 DEF DocsBefore
  <1> QED BY <1>2, <1>3

\* The record of a runtime at an item whose document is stored.
LEMMA NextItemDocs ==
    ASSUME NEW x \in Runtime, x.agent \in Agents, NEW d,
           x.item \in 1..Len(knowledgeOf[x.agent]), x.pc # "free",
           DocsBefore(x, d), d[ItemOf(x)] # None
    PROVE  DocsBefore(AtItem(x, x.item + 1), d)
  <1>1. ASSUME NEW j \in 1..Len(knowledgeOf[x.agent]), j < x.item + 1
        PROVE  d[knowledgeOf[x.agent][j]] # None
    <2>1. Len(knowledgeOf[x.agent]) \in Nat
      BY LifecycleAssumption
    <2>2. j < x.item \/ j = x.item
      BY <1>1, <2>1
    <2> QED BY <2>2 DEF DocsBefore, Past, ItemOf
  <1>2. x.item + 1 \in Nat
    BY DEF Runtime
  <1> QED BY <1>1, <1>2, AtItemDocs

LEMMA AtChunkDocs ==
    ASSUME NEW x \in Runtime, x.agent \in Agents, NEW d, NEW n \in Nat,
           x.item \in 1..Len(knowledgeOf[x.agent]),
           x.pc \notin {"free", "clients", "live"},
           DocsBefore(x, d), d[ItemOf(x)] # None
    PROVE  DocsBefore(AtChunk(x, n), d)
  <1>1. CASE n \leq chunks[ItemOf(x)]
    <2>1. AtChunk(x, n) = [x EXCEPT !.pc = "look", !.chunk = n]
      BY <1>1 DEF AtChunk
    <2>2. /\ AtChunk(x, n).pc = "look" /\ AtChunk(x, n).item = x.item
          /\ AtChunk(x, n).agent = x.agent
      BY <2>1 DEF Runtime
    <2> QED BY <2>2 DEF DocsBefore, Past
  <1>2. CASE ~(n \leq chunks[ItemOf(x)])
    BY <1>2, NextItemDocs DEF AtChunk
  <1> QED BY <1>1, <1>2

\* A runtime leaves the storing of its item only past the last fragment.
LEMMA AtChunkStays ==
    ASSUME NEW x \in Runtime, NEW n \in Nat, n \leq chunks[ItemOf(x)]
    PROVE  /\ AtChunk(x, n).pc = "look" /\ AtChunk(x, n).agent = x.agent
           /\ ItemOf(AtChunk(x, n)) = ItemOf(x)
  <1>1. AtChunk(x, n) = [x EXCEPT !.pc = "look", !.chunk = n]
    BY DEF AtChunk
  <1>2. /\ AtChunk(x, n).pc = "look" /\ AtChunk(x, n).item = x.item
        /\ AtChunk(x, n).agent = x.agent
    BY <1>1 DEF Runtime
  <1> QED BY <1>2 DEF ItemOf

\* A new runtime is past no item.
LEMMA BeginDocs ==
    ASSUME NEW a \in Agents, NEW how \in {"boot", "http"}, NEW d
    PROVE  DocsBefore(Begin(a, how), d)
  <1> DEFINE x == [pc |-> "check", agent |-> a, via |-> how,
                   item |-> 1, chunk |-> 0]
  <1>1. x \in Runtime /\ x.agent = a
    BY DEF Runtime, Places
  <1> HIDE DEF x
  <1>2. \A j \in 1..Len(knowledgeOf[x.agent]) : ~(j < 1)
    BY <1>1, LifecycleAssumption
  <1>3. DocsBefore(AtItem(x, 1), d)
    BY <1>1, <1>2, AtItemDocs
  <1> QED BY <1>3 DEF Begin, x

\* When one runtime moves and documents are only added, it is enough to look at
\* that runtime.
LEMMA DocsMoveKeeps ==
    ASSUME LInv, \A q \in Runtimes : DocsBefore(rt[q], docs),
           NEW r \in Runtimes, NEW y, rt' = [rt EXCEPT ![r] = y],
           \A i \in Items : docs[i] # None => docs'[i] # None,
           DocsBefore(y, docs')
    PROVE  \A q \in Runtimes : DocsBefore(rt[q], docs)'
  <1> SUFFICES ASSUME NEW q \in Runtimes PROVE DocsBefore(rt'[q], docs')
    OBVIOUS
  <1>1. CASE q = r
    BY <1>1 DEF LInv, TypeOK
  <1>2. CASE q # r
    <2>1. rt'[q] = rt[q] /\ DocsBefore(rt[q], docs)
      BY <1>2 DEF LInv, TypeOK
    <2>2. rt[q].pc # "free" => knowledgeOf[rt[q].agent] \in Seq(Items)
      BY LifecycleAssumption DEF LInv, TypeOK, AgentIsSet
    <2> QED BY <2>1, <2>2 DEF DocsBefore
  <1> QED BY <1>1, <1>2

-----------------------------------------------------------------------------
\* Item i is kept by a step that leaves its rows and its storers alone, or that
\* notes it as disturbed.
LEMMA QuietItem ==
    ASSUME NEW i \in Items, ItemInv(i),
           disturbed \subseteq disturbed',
           i \notin disturbed' =>
              /\ Storing(i)' = Storing(i)
              /\ \A q \in Storing(i) : rt'[q].agent = rt[q].agent
              /\ docs'[i] = docs[i]
              /\ \A n \in 1..chunks[i] : fragments'[<<i, n>>] = fragments[<<i, n>>]
    PROVE  ItemInv(i)'
  <1> SUFFICES ASSUME i \notin disturbed' PROVE ItemInv(i)'
    BY DEF ItemInv
  <1>1. AllThere(i)' <=> AllThere(i)
    BY DEF AllThere
  <1> QED BY <1>1 DEF ItemInv

\* One runtime moves: who stores item i afterwards.
LEMMA StoringAfter ==
    ASSUME LInv, NEW r \in Runtimes, NEW y, rt' = [rt EXCEPT ![r] = y]
    PROVE  /\ rt'[r] = y
           /\ \A q \in Runtimes \ {r} : rt'[q] = rt[q]
           /\ \A i \in Items :
                 /\ Storing(i)' \ {r} = Storing(i) \ {r}
                 /\ r \in Storing(i)' <=>
                       y.pc \in {"look", "insert"} /\ ItemOf(y) = i
                 /\ \A q \in Storing(i) \ {r} : rt'[q] = rt[q]
  BY DEF LInv, TypeOK, Storing

\* A move of one runtime, which stores the same item as before or none before
\* and after, is quiet for every item.
LEMMA QuietMove ==
    ASSUME KInv, NEW r \in Runtimes, NEW y, rt' = [rt EXCEPT ![r] = y],
           \/ /\ rt[r].pc \notin {"look", "insert"}
              /\ y.pc \notin {"look", "insert"}
           \/ /\ rt[r].pc \in {"look", "insert"} /\ y.pc \in {"look", "insert"}
              /\ ItemOf(y) = ItemOf(rt[r]) /\ y.agent = rt[r].agent,
           UNCHANGED database, disturbed \subseteq disturbed'
    PROVE  \A i \in Items : ItemInv(i)'
  <1> SUFFICES ASSUME NEW i \in Items PROVE ItemInv(i)'
    OBVIOUS
  <1>1. LInv /\ ItemInv(i)
    BY DEF KInv, KParts
  <1>2. /\ rt'[r] = y
        /\ Storing(i)' \ {r} = Storing(i) \ {r}
        /\ r \in Storing(i)' <=> y.pc \in {"look", "insert"} /\ ItemOf(y) = i
        /\ \A q \in Storing(i) \ {r} : rt'[q] = rt[q]
    BY <1>1, StoringAfter
  <1>3. r \in Storing(i) <=>
           rt[r].pc \in {"look", "insert"} /\ ItemOf(rt[r]) = i
    BY DEF Storing
  <1>4. r \in Storing(i)' <=> r \in Storing(i)
    BY <1>2, <1>3
  <1>5. Storing(i)' = Storing(i)
    BY <1>2, <1>4
  <1>6. \A q \in Storing(i) : rt'[q].agent = rt[q].agent
    BY <1>2, <1>3
  <1>7. docs' = docs /\ fragments' = fragments
    BY DEF database
  <1> QED BY <1>1, <1>5, <1>6, <1>7, QuietItem

\* What is known of a runtime on its way through its items.
LEMMA OnTheWay ==
    ASSUME KInv, NEW r \in Runtimes,
           rt[r].pc \notin {"free", "clients", "live"}
    PROVE  /\ rt[r] \in Runtime /\ rt[r].agent \in Agents
           /\ rt[r].agent # None
           /\ rt[r].item \in 1..Len(knowledgeOf[rt[r].agent])
           /\ ItemOf(rt[r]) \in Items /\ chunks[ItemOf(rt[r])] \in Nat
           /\ ItemInv(ItemOf(rt[r])) /\ DocsBefore(rt[r], docs)
  <1>1. /\ rt[r] \in Runtime /\ rt[r].agent \in Agents
        /\ rt[r].item \in 1..Len(knowledgeOf[rt[r].agent])
    BY DEF KInv, KParts, LInv, TypeOK, AgentIsSet, ItemIsSet
  <1> QED BY <1>1, ItemOfType, LifecycleAssumption DEF KInv, KParts

\* What is known of one that stores fragments.
LEMMA AtAFragment ==
    ASSUME KInv, NEW r \in Runtimes, rt[r].pc \in {"look", "insert"}
    PROVE  LET x == rt[r]  i == ItemOf(rt[r]) IN
           /\ r \in Storing(i)
           /\ x.chunk \in 1..chunks[i]
           /\ docs[i] # None
           /\ \A n \in 1..(x.chunk - 1) : fragments[<<i, n>>] # None
           /\ FragmentOf(x) = <<i, x.chunk>> /\ <<i, x.chunk>> \in Fragments
  <1>1. ItemOf(rt[r]) \in Items /\ StoredBefore(rt[r], docs, fragments)
    BY OnTheWay DEF KInv, KParts, LInv
  <1> QED BY <1>1, FragmentsAre DEF StoredBefore, FragmentOf, Storing

-----------------------------------------------------------------------------
\* The steps of a start, one by one.
LEMMA CheckKnows ==
    ASSUME KInv, NEW r \in Runtimes, CheckDocument(r)
    PROVE  KParts'
  <1>0. PICK x, i : x = rt[r] /\ i = ItemOf(rt[r])
    OBVIOUS
  <1> USE <1>0
  <1>1. /\ x.pc = "check"
        /\ UNCHANGED <<database, agents, server, boot, crashes, disturbed>>
        /\ docs' = docs
    BY DEF CheckDocument, database
  <1>2. /\ x \in Runtime /\ x.agent \in Agents /\ x.agent # None
        /\ x.item \in 1..Len(knowledgeOf[x.agent])
        /\ DocsBefore(x, docs)
    BY <1>1, OnTheWay
  <1>3. PICK y : /\ rt' = [rt EXCEPT ![r] = y]
                 /\ y.pc \in {"check", "clients", "lookDoc"}
                 /\ DocsBefore(y, docs)
    <2>1. CASE docs[i] = x.agent
      <3>1. rt' = [rt EXCEPT ![r] = AtItem(x, x.item + 1)]
        BY <2>1 DEF CheckDocument
      <3>2. AtItem(x, x.item + 1).pc \in {"check", "clients"}
        <4>1. x.item + 1 \in Nat \ {0}
          BY <1>2
        <4> QED BY <1>2, <4>1, AtItemType
      <3>3. DocsBefore(AtItem(x, x.item + 1), docs)
        BY <1>1, <1>2, <2>1, NextItemDocs
      <3> QED BY <3>1, <3>2, <3>3
    <2>2. CASE docs[i] # x.agent
      <3> DEFINE y == [x EXCEPT !.pc = "lookDoc"]
      <3>1. rt' = [rt EXCEPT ![r] = y]
        BY <2>2 DEF CheckDocument
      <3>2. y.pc = "lookDoc" /\ y.agent = x.agent /\ y.item = x.item
        BY <1>2 DEF Runtime
      <3> HIDE DEF y
      <3>3. DocsBefore(y, docs)
        BY <1>1, <1>2, <3>2 DEF DocsBefore, Past
      <3> QED BY <3>1, <3>2, <3>3
    <2> QED BY <2>1, <2>2
  <1>4. \A j \in Items : ItemInv(j)'
    BY <1>1, <1>3, QuietMove
  <1>5. \A q \in Runtimes : DocsBefore(rt[q], docs)'
    BY <1>1, <1>3, DocsMoveKeeps DEF KInv, KParts
  <1> QED BY <1>4, <1>5 DEF KParts

\* A document is looked for: finding one, the runtime joins the storers of the
\* item, unless one of another agent is at work on it, which is a disturbance.
LEMMA LookDocumentKnows ==
    ASSUME KInv, NEW r \in Runtimes, LookDocument(r)
    PROVE  KParts'
  <1>0. PICK x, i : x = rt[r] /\ i = ItemOf(rt[r])
    OBVIOUS
  <1> USE <1>0
  <1>1. /\ x.pc = "lookDoc" /\ UNCHANGED database
        /\ docs' = docs /\ fragments' = fragments
        /\ disturbed \subseteq disturbed'
        /\ i \notin disturbed' => \A q \in Storing(i) : rt[q].agent = x.agent
    BY DEF LookDocument, database
  <1>2. /\ x \in Runtime /\ x.agent \in Agents
        /\ x.item \in 1..Len(knowledgeOf[x.agent])
        /\ i \in Items /\ chunks[i] \in Nat /\ ItemInv(i)
        /\ DocsBefore(x, docs)
    BY <1>1, OnTheWay
  <1>3. CASE docs[i] = None
    <2> DEFINE y == [x EXCEPT !.pc = "insertDoc"]
    <2>1. rt' = [rt EXCEPT ![r] = y]
      BY <1>3 DEF LookDocument
    <2>2. y.pc = "insertDoc" /\ y.agent = x.agent /\ y.item = x.item
      BY <1>2 DEF Runtime
    <2> HIDE DEF y
    <2>3. DocsBefore(y, docs)
      BY <1>1, <1>2, <2>2 DEF DocsBefore, Past
    <2>4. \A j \in Items : ItemInv(j)'
      BY <1>1, <2>1, <2>2, QuietMove
    <2>5. \A q \in Runtimes : DocsBefore(rt[q], docs)'
      BY <1>1, <2>1, <2>3, DocsMoveKeeps DEF KInv, KParts
    <2> QED BY <2>4, <2>5 DEF KParts
  <1>4. CASE docs[i] # None
    <2> DEFINE y == AtChunk(x, 1)
    <2>1. rt' = [rt EXCEPT ![r] = y]
      BY <1>4 DEF LookDocument
    <2>2. DocsBefore(y, docs)
      BY <1>1, <1>2, <1>4, AtChunkDocs
    <2>3. /\ y.pc \in {"look", "check", "clients"} /\ y.agent = x.agent
          /\ y.pc = "look" => ItemOf(y) = i /\ 1 \in 1..chunks[i]
      BY <1>2, AtChunkType
    <2> HIDE DEF y
    <2>4. \A q \in Runtimes : DocsBefore(rt[q], docs)'
      BY <1>1, <2>1, <2>2, DocsMoveKeeps DEF KInv, KParts
    <2>5. CASE y.pc # "look"
      <3>1. \A j \in Items : ItemInv(j)'
        BY <1>1, <2>1, <2>3, <2>5, QuietMove
      <3> QED BY <2>4, <3>1 DEF KParts
    <2>6. CASE y.pc = "look"
      <3>1. /\ rt'[r] = y
            /\ \A q \in Runtimes \ {r} : rt'[q] = rt[q]
            /\ \A j \in Items :
                  /\ Storing(j)' \ {r} = Storing(j) \ {r}
                  /\ r \in Storing(j)' <=> y.pc \in {"look", "insert"} /\ ItemOf(y) = j
                  /\ \A q \in Storing(j) \ {r} : rt'[q] = rt[q]
        BY <2>1, StoringAfter DEF KInv
      <3>2. \A j \in Items : r \notin Storing(j)
        BY <1>1 DEF Storing
      <3>3. ASSUME NEW j \in Items, j # i
            PROVE  ItemInv(j)'
        <4>1. r \notin Storing(j)'
          BY <2>3, <2>6, <3>1, <3>3
        <4>2. Storing(j)' = Storing(j)
          BY <3>1, <3>2, <4>1
        <4>3. \A q \in Storing(j) : rt'[q].agent = rt[q].agent
          BY <3>1, <3>2
        <4>4. ItemInv(j)
          BY DEF KInv, KParts
        <4> QED BY <1>1, <4>2, <4>3, <4>4, QuietItem
      <3>4. ItemInv(i)'
        <4> SUFFICES ASSUME i \notin disturbed' PROVE ItemInv(i)'
          BY DEF ItemInv
        <4>1. r \in Storing(i)' /\ Storing(i)' = Storing(i) \cup {r}
          BY <1>2, <2>3, <2>6, <3>1
        <4>2. \A q \in Storing(i)' : rt'[q].agent = x.agent
          BY <1>1, <1>2, <2>3, <3>1, <4>1
        <4>3. x.agent = docs[i] \/ AllThere(i)
          BY <1>1, <1>2, <1>4 DEF ItemInv
        <4>4. AllThere(i)' <=> AllThere(i)
          BY <1>1 DEF AllThere
        <4>5. \A n \in 1..chunks[i] : fragments[<<i, n>>] \in {None, docs[i]}
          BY <1>1, <1>2 DEF ItemInv
        <4> QED BY <1>1, <4>1, <4>2, <4>3, <4>4, <4>5 DEF ItemInv
      <3> QED BY <2>4, <3>3, <3>4 DEF KParts
    <2> QED BY <2>3, <2>5, <2>6
  <1> QED BY <1>3, <1>4

\* The document is inserted: the item has no fragment and no storer yet.
LEMMA InsertDocumentKnows ==
    ASSUME KInv, NEW r \in Runtimes, InsertDocument(r)
    PROVE  KParts'
  <1>0. PICK x, i : x = rt[r] /\ i = ItemOf(rt[r])
    OBVIOUS
  <1> USE <1>0
  <1> DEFINE y == AtChunk(x, 1)
  <1>1. /\ x.pc = "insertDoc" /\ docs[i] = None
        /\ docs' = [docs EXCEPT ![i] = x.agent]
        /\ rt' = [rt EXCEPT ![r] = y]
        /\ fragments' = fragments /\ disturbed' = disturbed
    BY DEF InsertDocument
  <1>2. /\ x \in Runtime /\ x.agent \in Agents /\ x.agent # None
        /\ x.item \in 1..Len(knowledgeOf[x.agent])
        /\ i \in Items /\ chunks[i] \in Nat
        /\ DocsBefore(x, docs)
    BY <1>1, OnTheWay
  <1>3. /\ docs'[i] = x.agent
        /\ \A j \in Items \ {i} : docs'[j] = docs[j]
        /\ \A j \in Items : docs[j] # None => docs'[j] # None
    BY <1>1, <1>2 DEF KInv, LInv, TypeOK
  <1>4. DocsBefore(y, docs')
    <2>1. knowledgeOf[x.agent] \in Seq(Items)
      BY <1>2, LifecycleAssumption
    <2>2. DocsBefore(x, docs')
      BY <1>2, <1>3, <2>1 DEF DocsBefore
    <2> QED BY <1>1, <1>2, <1>3, <2>2, AtChunkDocs
  <1>5. /\ y.pc \in {"look", "check", "clients"} /\ y.agent = x.agent
        /\ y.pc = "look" => ItemOf(y) = i
    BY <1>2, AtChunkType
  <1>6. y.pc # "look" => chunks[i] < 1
    BY <1>2, AtChunkStays
  <1>7. Storing(i) = {}
    <2> SUFFICES ASSUME NEW q \in Runtimes, rt[q].pc \in {"look", "insert"},
                        ItemOf(rt[q]) = i
                 PROVE  FALSE
      BY DEF Storing
    <2> QED BY <1>1, AtAFragment
  <1>8. \A n \in 1..chunks[i] : fragments[<<i, n>>] = None
    <2> SUFFICES ASSUME NEW n \in 1..chunks[i] PROVE fragments[<<i, n>>] = None
      OBVIOUS
    <2>1. <<i, n>> \in Fragments /\ <<i, n>>[1] = i
      BY <1>2, FragmentsAre
    <2> QED BY <1>1, <2>1 DEF KInv, LInv, StoredInOrder
  <1> HIDE DEF y
  <1>9. \A q \in Runtimes : DocsBefore(rt[q], docs)'
    BY <1>1, <1>3, <1>4, DocsMoveKeeps DEF KInv, KParts
  <1>10. /\ rt'[r] = y
         /\ \A j \in Items :
               /\ Storing(j)' \ {r} = Storing(j) \ {r}
               /\ r \in Storing(j)' <=> y.pc \in {"look", "insert"} /\ ItemOf(y) = j
               /\ \A q \in Storing(j) \ {r} : rt'[q] = rt[q]
    BY <1>1, StoringAfter DEF KInv
  <1>11. \A j \in Items : r \notin Storing(j)
    BY <1>1 DEF Storing
  <1>12. ASSUME NEW j \in Items, j # i
         PROVE  ItemInv(j)'
    <2>1. Storing(j)' = Storing(j)
      BY <1>5, <1>10, <1>11, <1>12
    <2>2. \A q \in Storing(j) : rt'[q].agent = rt[q].agent
      BY <1>10, <1>11
    <2>3. ItemInv(j)
      BY DEF KInv, KParts
    <2> QED BY <1>1, <1>3, <1>12, <2>1, <2>2, <2>3, QuietItem
  <1>13. ItemInv(i)'
    <2>1. Storing(i)' = IF y.pc = "look" THEN {r} ELSE {}
      BY <1>2, <1>5, <1>7, <1>10
    <2>2. \A q \in Storing(i)' : rt'[q].agent = docs'[i]
      BY <1>3, <1>5, <1>10, <2>1
    <2>3. Storing(i)' = {} => AllThere(i)'
      <3>1. Storing(i)' = {} => chunks[i] < 1
        BY <1>6, <2>1
      <3>2. chunks[i] < 1 => 1..chunks[i] = {}
        BY <1>2
      <3> QED BY <3>1, <3>2 DEF AllThere
    <2>4. \A n \in 1..chunks[i] : fragments'[<<i, n>>] = None
      BY <1>1, <1>8
    <2> QED BY <2>2, <2>3, <2>4 DEF ItemInv
  <1> QED BY <1>9, <1>12, <1>13 DEF KParts

\* A storer goes on behind its fragment, which it has found or inserted.
LEMMA FragmentKnows ==
    ASSUME KInv, NEW r \in Runtimes, rt[r].pc \in {"look", "insert"},
           rt' = [rt EXCEPT ![r] = AtChunk(@, @.chunk + 1)],
           \/ /\ fragments[FragmentOf(rt[r])] # None
              /\ fragments' = fragments
           \/ /\ fragments[FragmentOf(rt[r])] = None
              /\ fragments' = [fragments EXCEPT
                                  ![FragmentOf(rt[r])] = rt[r].agent],
           docs' = docs, disturbed' = disturbed
    PROVE  KParts'
  <1>0. PICK x, i : x = rt[r] /\ i = ItemOf(rt[r])
    OBVIOUS
  <1> USE <1>0
  <1> DEFINE y == AtChunk(x, x.chunk + 1)
  <1>1. /\ x \in Runtime /\ x.agent \in Agents /\ x.agent # None
        /\ x.item \in 1..Len(knowledgeOf[x.agent])
        /\ i \in Items /\ chunks[i] \in Nat /\ ItemInv(i)
        /\ DocsBefore(x, docs)
    BY OnTheWay
  <1>2. /\ r \in Storing(i)
        /\ x.chunk \in 1..chunks[i]
        /\ docs[i] # None
        /\ \A n \in 1..(x.chunk - 1) : fragments[<<i, n>>] # None
        /\ FragmentOf(x) = <<i, x.chunk>> /\ <<i, x.chunk>> \in Fragments
    BY AtAFragment
  <1>3. x.chunk + 1 \in Nat \ {0} /\ rt' = [rt EXCEPT ![r] = y]
    BY <1>1, <1>2
  <1>4. DocsBefore(y, docs)
    BY <1>1, <1>2, <1>3, AtChunkDocs
  <1>5. /\ y.pc \in {"look", "check", "clients"} /\ y.agent = x.agent
        /\ y.pc = "look" => ItemOf(y) = i
    BY <1>1, <1>3, AtChunkType
  <1>6. y.pc # "look" => ~(x.chunk + 1 \leq chunks[i])
    BY <1>1, <1>3, AtChunkStays
  <1> HIDE DEF y
  <1>7. \A q \in Runtimes : DocsBefore(rt[q], docs)'
    BY <1>3, <1>4, DocsMoveKeeps DEF KInv, KParts
  <1>8. /\ rt'[r] = y
        /\ \A j \in Items :
              /\ Storing(j)' \ {r} = Storing(j) \ {r}
              /\ r \in Storing(j)' <=> y.pc \in {"look", "insert"} /\ ItemOf(y) = j
              /\ \A q \in Storing(j) \ {r} : rt'[q] = rt[q]
    BY <1>3, StoringAfter DEF KInv
  <1>9. /\ fragments'[<<i, x.chunk>>] # None
        /\ fragments'[<<i, x.chunk>>] \in {fragments[<<i, x.chunk>>], x.agent}
        /\ fragments[<<i, x.chunk>>] # None => fragments' = fragments
        /\ \A f \in Fragments \ {<<i, x.chunk>>} : fragments'[f] = fragments[f]
    BY <1>1, <1>2 DEF KInv, LInv, TypeOK
  <1>10. ASSUME NEW j \in Items, j # i
         PROVE  ItemInv(j)'
    <2>1. r \notin Storing(j) /\ r \notin Storing(j)'
      BY <1>2, <1>5, <1>8, <1>10 DEF Storing
    <2>2. Storing(j)' = Storing(j)
      BY <1>8, <2>1
    <2>3. \A q \in Storing(j) : rt'[q].agent = rt[q].agent
      BY <1>8, <2>1
    <2>4. \A n \in 1..chunks[j] : fragments'[<<j, n>>] = fragments[<<j, n>>]
      BY <1>9, <1>10, FragmentsAre
    <2>5. ItemInv(j)
      BY DEF KInv, KParts
    <2> QED BY <2>2, <2>3, <2>4, <2>5, QuietItem
  <1>11. ItemInv(i)'
    <2> SUFFICES ASSUME i \notin disturbed' PROVE ItemInv(i)'
      BY DEF ItemInv
    <2>1. /\ \A p, q \in Storing(i) : rt[p].agent = rt[q].agent
          /\ x.agent = docs[i] \/ AllThere(i)
          /\ \A q \in Storing(i) : rt[q].agent = docs[i] \/ AllThere(i)
          /\ \A n \in 1..chunks[i] : fragments[<<i, n>>] \in {None, docs[i]}
      BY <1>1, <1>2 DEF ItemInv
    <2>2. /\ Storing(i)' \subseteq Storing(i)
          /\ \A q \in Storing(i)' : rt'[q].agent = rt[q].agent
      BY <1>1, <1>2, <1>5, <1>8
    <2>3. \A n \in 1..chunks[i] :
             /\ <<i, n>> \in Fragments
             /\ fragments[<<i, n>>] # None => fragments'[<<i, n>>] # None
      BY <1>1, <1>9, FragmentsAre
    <2>4. AllThere(i) => AllThere(i)'
      BY <2>3 DEF AllThere
    <2>5. \A n \in 1..chunks[i] : fragments'[<<i, n>>] \in {None, docs[i]}
      <3>1. fragments'[<<i, x.chunk>>] \in {None, docs[i]}
        <4>1. CASE fragments[<<i, x.chunk>>] # None
          BY <1>2, <1>9, <2>1, <4>1
        <4>2. CASE fragments[<<i, x.chunk>>] = None
          <5>1. ~AllThere(i)
            BY <1>2, <4>2 DEF AllThere
          <5> QED BY <1>9, <2>1, <4>2, <5>1
        <4> QED BY <4>1, <4>2
      <3> QED BY <1>9, <2>1, <2>3, <3>1
    <2>6. AllThere(i)' \/ Storing(i)' # {}
      <3>1. CASE y.pc = "look"
        BY <1>1, <1>5, <1>8, <3>1
      <3>2. CASE y.pc # "look"
        <4>1. \A n \in 1..chunks[i] : n = x.chunk \/ n \in 1..(x.chunk - 1)
          BY <1>1, <1>2, <1>6, <3>2
        <4> QED BY <1>2, <1>9, <2>3, <4>1 DEF AllThere
      <3> QED BY <3>1, <3>2
    <2> QED BY <2>1, <2>2, <2>4, <2>5, <2>6 DEF ItemInv
  <1> QED BY <1>7, <1>10, <1>11 DEF KParts

\* A new runtime, one that is up or one that is gone stores nothing: a step that
\* puts such runtimes in the place of others that store nothing either, or of
\* some whose items it notes, is quiet for every item.
LEMMA NoStorerMoves ==
    ASSUME KInv, UNCHANGED database, disturbed \subseteq disturbed',
           \A q \in Runtimes :
              \/ rt'[q] = rt[q]
              \/ /\ rt'[q].pc \notin {"look", "insert"}
                 /\ \/ rt[q].pc \notin {"look", "insert"}
                    \/ ItemOf(rt[q]) \in disturbed'
    PROVE  \A i \in Items : ItemInv(i)'
  <1> SUFFICES ASSUME NEW i \in Items PROVE ItemInv(i)'
    OBVIOUS
  <1>1. ItemInv(i) /\ docs' = docs /\ fragments' = fragments
    BY DEF KInv, KParts, database
  <1>2. ASSUME i \notin disturbed'
        PROVE  /\ Storing(i)' = Storing(i)
               /\ \A q \in Storing(i) : rt'[q].agent = rt[q].agent
    BY <1>2 DEF Storing
  <1> QED BY <1>1, <1>2, QuietItem

\* A runtime that is gone is past no item.
LEMMA FreeDocs == \A d : DocsBefore(Free, d)
  BY DEF DocsBefore, Free

\* The same for the end of the process, which notes every item being stored.
LEMMA EndKnows ==
    ASSUME KInv, ProcessEnds
    PROVE  KParts'
  <1>1. /\ UNCHANGED database /\ docs' = docs
        /\ \A q \in Runtimes : rt'[q] = Free
        /\ disturbed' = disturbed \cup {i \in Items : Storing(i) # {}}
    BY DEF ProcessEnds, database
  <1>2. ASSUME NEW q \in Runtimes, rt[q].pc \in {"look", "insert"}
        PROVE  ItemOf(rt[q]) \in disturbed'
    BY <1>1, <1>2, OnTheWay, AtAFragment
  <1>3. \A i \in Items : ItemInv(i)'
    BY <1>1, <1>2, NoStorerMoves DEF Free
  <1>4. \A q \in Runtimes : DocsBefore(rt[q], docs)'
    BY <1>1, FreeDocs
  <1> QED BY <1>3, <1>4 DEF KParts

\* Only a runtime that is up is stopped, and it stores nothing.
LEMMA StoppedKnows ==
    ASSUME KInv, NEW a \in Agents
    PROVE  /\ DOMAIN Stopped(a) = Runtimes
           /\ \A q \in Runtimes :
                 /\ DocsBefore(Stopped(a)[q], docs)
                 /\ \/ Stopped(a)[q] = rt[q]
                    \/ Stopped(a)[q].pc = "free" /\ rt[q].pc = "live"
  <1>1. /\ DOMAIN rt = Runtimes
        /\ \A q \in Runtimes : DocsBefore(rt[q], docs)
        /\ agents[a] # None => rt[agents[a]].pc = "live"
    BY DEF KInv, KParts, LInv, TypeOK, RegisteredIsLive
  <1>2. Free.pc = "free" /\ DocsBefore(Free, docs)
    BY FreeDocs DEF Free
  <1> QED BY <1>1, <1>2 DEF Stopped

\* A request that replaces or stops an agent.
LEMMA ReplaceKnows ==
    ASSUME KInv, NEW a \in Agents,
           UNCHANGED <<database, disturbed>>,
           \/ rt' = Stopped(a)
           \/ \E r \in Runtimes, b \in Agents :
                 /\ Stopped(a)[r].pc = "free"
                 /\ rt' = [Stopped(a) EXCEPT ![r] = Begin(b, "http")]
    PROVE  KParts'
  <1>1. /\ DOMAIN Stopped(a) = Runtimes
        /\ \A q \in Runtimes :
              /\ DocsBefore(Stopped(a)[q], docs)
              /\ \/ Stopped(a)[q] = rt[q]
                 \/ Stopped(a)[q].pc = "free" /\ rt[q].pc = "live"
    BY StoppedKnows
  <1>2. docs' = docs
    BY DEF database
  <1>3. \A q \in Runtimes :
           \/ rt'[q] = Stopped(a)[q]
           \/ /\ Stopped(a)[q].pc = "free"
              /\ \E b \in Agents : rt'[q] = Begin(b, "http")
    BY <1>1
  <1>4. \A b \in Agents : /\ Begin(b, "http").pc \in {"check", "clients"}
                          /\ DocsBefore(Begin(b, "http"), docs)
    BY BeginType, BeginDocs
  <1>5. \A i \in Items : ItemInv(i)'
    <2>1. \A q \in Runtimes :
             \/ rt'[q] = rt[q]
             \/ /\ rt'[q].pc \notin {"look", "insert"}
                /\ rt[q].pc \notin {"look", "insert"}
      BY <1>1, <1>3, <1>4
    <2> QED BY <2>1, NoStorerMoves
  <1>6. \A q \in Runtimes : DocsBefore(rt[q], docs)'
    BY <1>1, <1>2, <1>3, <1>4
  <1> QED BY <1>5, <1>6 DEF KParts

\* Registration, and the start of the next character.
LEMMA RegisterKnows ==
    ASSUME KInv, NEW r \in Runtimes, Register(r)
    PROVE  KParts'
  <1> DEFINE y == [rt[r] EXCEPT !.pc = "live"]
  <1>1. /\ rt' = [rt EXCEPT ![r] = y] /\ rt[r].pc = "clients"
        /\ UNCHANGED <<database, disturbed>> /\ docs' = docs
    BY DEF Register, database
  <1>2. rt[r] \in Runtime /\ DocsBefore(rt[r], docs)
    BY DEF KInv, KParts, LInv, TypeOK
  <1>3. y.pc = "live" /\ y.agent = rt[r].agent
    BY <1>2 DEF Runtime
  <1> HIDE DEF y
  <1>4. DocsBefore(y, docs)
    BY <1>1, <1>2, <1>3 DEF DocsBefore, Past
  <1>5. \A i \in Items : ItemInv(i)'
    BY <1>1, <1>3, QuietMove
  <1>6. \A q \in Runtimes : DocsBefore(rt[q], docs)'
    BY <1>1, <1>4, DocsMoveKeeps DEF KInv, KParts
  <1> QED BY <1>5, <1>6 DEF KParts

LEMMA StartNextKnows ==
    ASSUME KInv, NEW r \in Runtimes, StartNext(r)
    PROVE  KParts'
  <1> DEFINE y == Begin(BootOrder[boot'], "boot")
  <1>1. /\ rt[r].pc = "free" /\ rt' = [rt EXCEPT ![r] = y]
        /\ boot' = boot + 1 /\ boot < Len(BootOrder)
        /\ UNCHANGED <<database, disturbed>> /\ docs' = docs
    BY DEF StartNext, database
  <1>2. boot \in 0..Len(BootOrder) /\ Len(BootOrder) \in Nat
    BY LifecycleAssumption DEF KInv, LInv, TypeOK
  <1>3. BootOrder[boot'] \in Agents
    <2>1. boot' \in 1..Len(BootOrder)
      BY <1>1, <1>2
    <2> QED BY <2>1, LifecycleAssumption
  <1>4. y.pc \in {"check", "clients"} /\ DocsBefore(y, docs)
    BY <1>3, BeginType, BeginDocs
  <1> HIDE DEF y
  <1>5. \A i \in Items : ItemInv(i)'
    BY <1>1, <1>4, QuietMove
  <1>6. \A q \in Runtimes : DocsBefore(rt[q], docs)'
    BY <1>1, <1>4, DocsMoveKeeps DEF KInv, KParts
  <1> QED BY <1>5, <1>6 DEF KParts

\* A start that is given up notes the item it was storing.
LEMMA BootFailsKnows ==
    ASSUME KInv, NEW r \in Runtimes, BootFails(r)
    PROVE  KParts'
  <1>1. /\ rt' = [rt EXCEPT ![r] = Free] /\ rt[r].pc \notin {"free", "live"}
        /\ disturbed' = disturbed \cup {i \in Items : r \in Storing(i)}
        /\ UNCHANGED database /\ docs' = docs
    BY DEF BootFails, Rejects, Conflict, database
  <1>2. ASSUME rt[r].pc \in {"look", "insert"}
        PROVE  ItemOf(rt[r]) \in disturbed'
    BY <1>1, <1>2, OnTheWay, AtAFragment
  <1>3. \A q \in Runtimes : IF q = r THEN rt'[q] = Free ELSE rt'[q] = rt[q]
    BY <1>1 DEF KInv, LInv, TypeOK
  <1>4. Free.pc = "free" /\ DocsBefore(Free, docs)
    BY FreeDocs DEF Free
  <1>5. \A i \in Items : ItemInv(i)'
    BY <1>1, <1>2, <1>3, <1>4, NoStorerMoves
  <1>6. \A q \in Runtimes : DocsBefore(rt[q], docs)'
    BY <1>1, <1>3, <1>4 DEF KInv, KParts
  <1> QED BY <1>5, <1>6 DEF KParts

\* A fragment is looked for: if it is not there, the storer stays where it is.
LEMMA LookFragmentKnows ==
    ASSUME KInv, NEW r \in Runtimes, LookFragment(r)
    PROVE  KParts'
  <1>1. /\ rt[r].pc = "look" /\ UNCHANGED <<database, disturbed>>
        /\ docs' = docs /\ fragments' = fragments
    BY DEF LookFragment, database
  <1>2. CASE fragments[FragmentOf(rt[r])] = None
    <2> DEFINE y == [rt[r] EXCEPT !.pc = "insert"]
    <2>1. rt' = [rt EXCEPT ![r] = y]
      BY <1>2 DEF LookFragment
    <2>2. rt[r] \in Runtime /\ DocsBefore(rt[r], docs)
      BY <1>1, OnTheWay
    <2>3. /\ y.pc = "insert" /\ y.agent = rt[r].agent
          /\ y.item = rt[r].item /\ ItemOf(y) = ItemOf(rt[r])
      BY <2>2 DEF Runtime, ItemOf
    <2> HIDE DEF y
    <2>4. DocsBefore(y, docs)
      BY <1>1, <2>2, <2>3 DEF DocsBefore, Past
    <2>5. \A i \in Items : ItemInv(i)'
      BY <1>1, <2>1, <2>3, QuietMove
    <2>6. \A q \in Runtimes : DocsBefore(rt[q], docs)'
      BY <1>1, <2>1, <2>4, DocsMoveKeeps DEF KInv, KParts
    <2> QED BY <2>5, <2>6 DEF KParts
  <1>3. CASE fragments[FragmentOf(rt[r])] # None
    <2>1. rt' = [rt EXCEPT ![r] = AtChunk(@, @.chunk + 1)]
      BY <1>3 DEF LookFragment
    <2> QED BY <1>1, <1>3, <2>1, FragmentKnows
  <1> QED BY <1>2, <1>3

\* Every step keeps what is known of the items and of the runtimes.
LEMMA NextKInv == KInv /\ [Next]_vars => KInv'
  <1> SUFFICES ASSUME KInv, [Next]_vars PROVE KParts'
    BY NextInv DEF KInv
  <1>1. ASSUME NEW r \in Runtimes, StartStep(r)
        PROVE  KParts'
    <2>1. CASE InsertFragment(r)
      BY <2>1, FragmentKnows DEF InsertFragment
    <2> QED BY <1>1, <2>1, CheckKnows, LookDocumentKnows, InsertDocumentKnows,
               LookFragmentKnows, RegisterKnows DEF StartStep
  <1>2. ASSUME NEW r \in Runtimes, StartFails(r)
        PROVE  KParts'
    BY <1>2, BootFailsKnows, EndKnows DEF StartFails, RequestFails
  <1>3. ASSUME NEW a \in Agents, NEW b \in Agents, NEW r \in Runtimes,
               SetAgent(a, b, r)
        PROVE  KParts'
    BY <1>3, ReplaceKnows DEF SetAgent
  <1>4. ASSUME NEW a \in Agents, SetInvalid(a) \/ StopThrows(a)
        PROVE  KParts'
    BY <1>4, ReplaceKnows, EndKnows DEF SetInvalid, StopThrows
  <1>5. CASE Crash \/ UnawaitedRejects
    BY <1>5, EndKnows DEF Crash, UnawaitedRejects
  <1>6. CASE Listen \/ UnawaitedSettle \/ UNCHANGED vars
    <2>1. UNCHANGED <<database, disturbed, rt>> /\ docs' = docs
      BY <1>6 DEF Listen, UnawaitedSettle, vars, database
    <2>2. \A i \in Items : ItemInv(i)'
      BY <2>1, NoStorerMoves
    <2>3. \A q \in Runtimes : DocsBefore(rt[q], docs)'
      BY <2>1 DEF KInv, KParts
    <2> QED BY <2>2, <2>3 DEF KParts
  <1> QED BY <1>1, <1>2, <1>3, <1>4, <1>5, <1>6, StartNextKnows DEF Next

\* The database starts without knowledge.
LEMMA InitKInv == Init => KInv
  <1> SUFFICES ASSUME Init PROVE KParts
    BY InitInv DEF KInv
  <1>1. \A q \in Runtimes : rt[q] = Free
    BY DEF Init
  <1>2. \A i \in Items : Storing(i) = {} /\ docs[i] = None
    BY <1>1 DEF Init, Storing, Free
  <1>3. \A i \in Items : \A n \in 1..chunks[i] : fragments[<<i, n>>] = None
    BY FragmentsAre DEF Init
  <1>4. \A i \in Items : ItemInv(i)
    BY <1>2, <1>3 DEF ItemInv
  <1> QED BY <1>1, <1>4, FreeDocs DEF KParts

LEMMA KnowledgeInvariant == Spec => []KInv
  BY InitKInv, NextKInv, PTL DEF Spec

\* Agents that share an item of knowledge share one document and one set of
\* fragments; unless two of them stored it at the same time or one was cut off
\* while storing it, every fragment belongs to the agent the document belongs to.
THEOREM FragmentsHaveTheirDocument == Spec => []FragmentsResolve
  <1>1. KInv => FragmentsResolve
    <2> SUFFICES ASSUME KInv, NEW f \in Fragments, f[1] \notin disturbed
                 PROVE  fragments[f] \in {None, docs[f[1]]}
      BY DEF FragmentsResolve
    <2>1. f = <<f[1], f[2]>> /\ f[1] \in Items /\ f[2] \in 1..chunks[f[1]]
      BY FragmentsAre
    <2>2. ItemInv(f[1])
      BY <2>1 DEF KInv, KParts
    <2> QED BY <2>1, <2>2 DEF ItemInv
  <1> QED BY <1>1, KnowledgeInvariant, PTL

-----------------------------------------------------------------------------
\* A document belongs to an agent that knows its item.
OwnersKnow == \A i \in Items : docs[i] # None => docs[i] \in Knowing(i)

LEMMA NextOwners == LInv /\ OwnersKnow /\ [Next]_vars => OwnersKnow'
  <1> SUFFICES ASSUME LInv, OwnersKnow, [Next]_vars PROVE OwnersKnow'
    OBVIOUS
  <1>1. docs' = docs \/ \E r \in Runtimes : InsertDocument(r)
    BY DEF Next, vars, database, StartNext, StartStep, CheckDocument,
           LookDocument, LookFragment, InsertFragment, Register, StartFails,
           BootFails, RequestFails, SetAgent, SetInvalid, StopThrows, Listen,
           UnawaitedSettle, UnawaitedRejects, Crash, ProcessEnds
  <1>2. CASE docs' = docs
    BY <1>2 DEF OwnersKnow
  <1>3. ASSUME NEW r \in Runtimes, InsertDocument(r)
        PROVE  OwnersKnow'
    <2>1. /\ rt[r].agent \in Agents
          /\ rt[r].item \in 1..Len(knowledgeOf[rt[r].agent])
      BY <1>3 DEF InsertDocument, LInv, TypeOK, AgentIsSet, ItemIsSet
    <2>2. rt[r].agent \in Knowing(ItemOf(rt[r]))
      BY <2>1 DEF Knowing, KnownTo, ItemOf
    <2>3. docs \in [Items -> Agents \cup {None}]
      BY DEF LInv, TypeOK
    <2>4. docs' = [docs EXCEPT ![ItemOf(rt[r])] = rt[r].agent]
      BY <1>3 DEF InsertDocument
    <2>5. \A i \in Items : docs'[i] = docs[i]
                          \/ (i = ItemOf(rt[r]) /\ docs'[i] = rt[r].agent)
      BY <2>3, <2>4
    <2> QED BY <2>2, <2>5 DEF OwnersKnow
  <1> QED BY <1>1, <1>2, <1>3

LEMMA OwnersInvariant == Spec => []OwnersKnow
  <1>1. Init => OwnersKnow
    BY DEF Init, OwnersKnow
  <1> QED BY <1>1, NextOwners, LifecycleInvariant, PTL DEF Spec

\* While an agent is registered, so that messages reach it, each item of its
\* character's knowledge is stored complete for one agent that knows it, where
\* that agent's knowledge.get finds it; for the registered agent itself if no
\* other knows it.  Not so while a runtime that came after is storing the item,
\* or if its storing was once disturbed.
THEOREM RegisteredAgentsKnow == Spec => []RegisteredKnows
  <1>1. KInv /\ OwnersKnow => RegisteredKnows
    <2> SUFFICES ASSUME KInv, OwnersKnow,
                        NEW a \in Agents, agents[a] # None,
                        NEW i \in KnownTo(a), i \notin disturbed,
                        Storing(i) = {}
                 PROVE  \E c \in Knowing(i) : StoredFor(c, i)
      BY DEF RegisteredKnows
    <2>1. /\ agents[a] \in Runtimes
          /\ rt[agents[a]].pc = "live" /\ rt[agents[a]].agent = a
      BY DEF KInv, LInv, TypeOK, RegisteredIsLive
    <2>2. docs[i] # None
      BY <2>1 DEF KInv, KParts, DocsBefore, Past, KnownTo
    <2>3. i \in Items
      BY LifecycleAssumption DEF KnownTo
    <2>4. /\ AllThere(i)
          /\ \A n \in 1..chunks[i] : fragments[<<i, n>>] \in {None, docs[i]}
      BY <2>2, <2>3 DEF KInv, KParts, ItemInv
    <2>5. StoredFor(docs[i], i)
      BY <2>4 DEF StoredFor, AllThere
    <2> QED BY <2>2, <2>3, <2>5 DEF OwnersKnow
  <1> QED BY <1>1, KnowledgeInvariant, OwnersInvariant, PTL
=============================================================================
