---------------------------- MODULE Sources_proofs --------------------------
(***************************************************************************)
(* What the approaches know of the sources of the kernel.                  *)
(*                                                                         *)
(* CallGraph: the traversals of the call graphs are exact, the mirrored    *)
(* edge lists agree and a reload makes the new file win, for every set of  *)
(* functions and every set of call graph files.                            *)
(*                                                                         *)
(* DiffBlocks: the blocks of changed lines are exact, for everything that  *)
(* ndiff may say.                                                          *)
(***************************************************************************)
EXTENDS CallGraph, DiffBlocks, TLAPS, SequenceTheorems

\* What a method has to note about a set V of visited functions.
NotesOf(V) ==
  CASE query.method = "get_all_call"    -> V
    [] query.method = "get_ground_func" -> {n \in V : caller[n] = << >>}
    [] query.method = "get_syscall"     -> V \cap Syscall

\* The traversal's loop invariant: everything seen is reachable, and what is
\* reachable in one edge from a visited function is visited or on the stack.
WalkInv ==
  /\ graph_pc = "load" => query.method = "none"
  /\ graph_pc = "walk" =>
    /\ query.method \in {"get_all_call", "get_ground_func", "get_syscall"}
    /\ query.root \in node_map
    /\ query.root \in visited_set \cup ToSet(stack)
    /\ visited_set \cup ToSet(stack) \subseteq Reach(query.root)
    /\ \A f \in visited_set : ToSet(caller[f]) \subseteq visited_set \cup ToSet(stack)
    /\ found = NotesOf(visited_set)

IInv ==
  /\ TypeOK
  /\ WalkInv
  /\ ResultExact
  /\ EdgesMirrored
  /\ EdgesKnown
  /\ LatestWins

-----------------------------------------------------------------------------
\* The elements of a list that was extended (stack.extend).
LEMMA ExtendElements ==
  ASSUME NEW S, NEW s \in Seq(S), NEW t \in Seq(S)
  PROVE  s \o t \in Seq(S) /\ ToSet(s \o t) = ToSet(s) \cup ToSet(t)
<1> DEFINE u == s \o t
<1>1. /\ u \in Seq(S)
      /\ Len(u) = Len(s) + Len(t)
      /\ \A i \in 1 .. Len(s) + Len(t) :
           u[i] = IF i <= Len(s) THEN s[i] ELSE t[i - Len(s)]
      /\ DOMAIN u = 1 .. Len(u)
      /\ DOMAIN s = 1 .. Len(s) /\ Len(s) \in Nat
      /\ DOMAIN t = 1 .. Len(t) /\ Len(t) \in Nat
  BY ConcatProperties, LenProperties
<1> HIDE DEF u
<1>2. ASSUME NEW i \in 1 .. Len(s) PROVE s[i] \in ToSet(u)
  <2>1. i \in DOMAIN u /\ u[i] = s[i]
    BY <1>1
  <2> QED
    BY <2>1 DEF ToSet
<1>3. ASSUME NEW i \in 1 .. Len(t) PROVE t[i] \in ToSet(u)
  <2>0. \A m, n \in Nat : \A j \in 1 .. n : m + j \in 1 .. m + n /\ m + j > m
    OBVIOUS
  <2>1. Len(s) + i \in DOMAIN u /\ u[Len(s) + i] = t[i]
    BY <1>1, <2>0, SMTT(60)
  <2> QED
    BY <2>1 DEF ToSet
<1>4. ASSUME NEW i \in DOMAIN u PROVE u[i] \in ToSet(s) \cup ToSet(t)
  <2>1. CASE i <= Len(s)
    <3>1. i \in DOMAIN s /\ u[i] = s[i]
      BY <1>1, <2>1
    <3> QED
      BY <3>1, Zenon DEF ToSet
  <2>2. CASE ~ i <= Len(s)
    <3>1. i - Len(s) \in DOMAIN t /\ u[i] = t[i - Len(s)]
      BY <1>1, <2>2
    <3> QED
      BY <3>1 DEF ToSet
  <2> QED
    BY <2>1, <2>2, Zenon
<1>5. ToSet(u) \subseteq ToSet(s) \cup ToSet(t)
  BY <1>4 DEF ToSet
<1>6. ToSet(s) \subseteq ToSet(u) /\ ToSet(t) \subseteq ToSet(u)
  BY <1>1, <1>2, <1>3 DEF ToSet
<1> QED
  BY <1>1, <1>5, <1>6 DEF u

\* The elements of a list that was popped (stack.pop).
LEMMA PopElements ==
  ASSUME NEW S, NEW s \in Seq(S), s # << >>
  PROVE  /\ Front(s) \in Seq(S)
         /\ Last(s) \in S
         /\ ToSet(s) = ToSet(Front(s)) \cup {Last(s)}
<1>1. Len(s) \in Nat /\ Len(s) >= 1
  BY EmptySeq, LenProperties
<1>2. /\ Front(s) \in Seq(S)
      /\ Len(Front(s)) = Len(s) - 1
      /\ \A i \in 1 .. Len(s) - 1 : Front(s)[i] = s[i]
  <2> DEFINE n == Len(s) - 1
  <2>1. n \in Nat /\ n \in Int /\ \A i \in 1 .. n : s[i] \in S
    BY <1>1
  <2> HIDE DEF n
  <2>2. /\ SubSeq(s, 1, n) \in Seq(S)
        /\ Len(SubSeq(s, 1, n)) = IF 1 <= n THEN n - 1 + 1 ELSE 0
        /\ \A i \in 1 .. n - 1 + 1 : SubSeq(s, 1, n)[i] = s[1 + i - 1]
    BY <2>1, SubSeqProperties
  <2>3. Front(s) = SubSeq(s, 1, n)
    BY Zenon DEF Front, n
  <2>4. Len(Front(s)) = n /\ \A i \in 1 .. n : Front(s)[i] = s[i]
    <3> DEFINE front == SubSeq(s, 1, n)
    <3> HIDE DEF front
    <3>1. Len(front) = n /\ \A i \in 1 .. n : front[i] = s[i]
      BY <2>1, <2>2 DEF front
    <3> QED
      BY <2>3, <3>1, Zenon DEF front
  <2> QED
    BY <2>2, <2>3, <2>4, Zenon DEF n
<1>3. Last(s) = s[Len(s)] /\ Last(s) \in S
  BY <1>1 DEF Last
<1>4. DOMAIN s = 1 .. Len(s) /\ DOMAIN Front(s) = 1 .. Len(s) - 1
  BY <1>2, LenProperties
<1>5. ASSUME NEW i \in DOMAIN s PROVE s[i] \in ToSet(Front(s)) \cup {Last(s)}
  <2>1. CASE i = Len(s)
    BY <1>3, <2>1
  <2>2. CASE i # Len(s)
    <3>1. i \in DOMAIN Front(s) /\ Front(s)[i] = s[i]
      BY <1>1, <1>2, <1>4, <2>2
    <3> QED
      BY <3>1, Zenon DEF ToSet
  <2> QED
    BY <2>1, <2>2
<1>6. ASSUME NEW i \in DOMAIN Front(s) PROVE Front(s)[i] \in ToSet(s)
  <2>1. i \in DOMAIN s /\ Front(s)[i] = s[i]
    BY <1>1, <1>2, <1>4
  <2> QED
    BY <2>1 DEF ToSet
<1>7. Last(s) \in ToSet(s)
  <2>1. Len(s) \in DOMAIN s
    BY <1>1, <1>4
  <2> QED
    BY <1>3, <2>1 DEF ToSet
<1>8. ToSet(s) \subseteq ToSet(Front(s)) \cup {Last(s)}
  BY <1>5 DEF ToSet
<1>9. ToSet(Front(s)) \subseteq ToSet(s)
  BY <1>6 DEF ToSet
<1> QED
  BY <1>2, <1>3, <1>7, <1>8, <1>9

\* The elements of a list of functions are functions.
LEMMA ElementsTyped ==
  ASSUME NEW S, NEW s \in Seq(S)
  PROVE  ToSet(s) \subseteq S
  BY DEF ToSet

\* Reachability contains the root and is closed under the edges.
LEMMA ReachClosed ==
  ASSUME TypeOK, NEW r \in Func
  PROVE  /\ r \in Reach(r)
         /\ Reach(r) \subseteq Func
         /\ \A f \in Reach(r) : ToSet(caller[f]) \subseteq Reach(r)
<1>1. \A f \in Func : ToSet(caller[f]) \subseteq Func
  BY ElementsTyped DEF TypeOK
<1> QED
  BY <1>1 DEF Reach, Closed

\* A closed set that contains the root contains what is reachable from it.
LEMMA ReachLeast ==
  ASSUME NEW r, NEW S \in SUBSET Func, r \in S,
         \A f \in S : ToSet(caller[f]) \subseteq S
  PROVE  Reach(r) \subseteq S
  BY Zenon DEF Reach, Closed

\* The empty object satisfies the invariant.
LEMMA InitIInv == GraphInit => IInv
<1> SUFFICES ASSUME GraphInit PROVE IInv
  BY Zenon
<1>1. \A f \in Func : caller[f] = << >> /\ ToSet(caller[f]) = {}
  BY DEF GraphInit, ToSet
<1>2. TypeOK
  BY DEF GraphInit, TypeOK
<1>3. WalkInv /\ ResultExact
  BY Zenon DEF GraphInit, WalkInv, ResultExact
<1>4. EdgesMirrored /\ EdgesKnown /\ LatestWins
  BY <1>1 DEF GraphInit, EdgesMirrored, EdgesKnown, LatestWins
<1> QED
  BY <1>2, <1>3, <1>4 DEF IInv

-----------------------------------------------------------------------------
\* Steps that leave the graph alone keep the facts about it.
LEMMA GraphKept ==
  ASSUME IInv, UNCHANGED graph
  PROVE  /\ EdgesMirrored'
         /\ EdgesKnown'
         /\ \A r : Reach(r)' = Reach(r)
  BY Zenon DEF IInv, graph, EdgesMirrored, EdgesKnown, Reach, Closed

\* Calling load_from_source.
LEMMA LoadIInv ==
  ASSUME IInv, NEW file \in CgFiles \cup GlibcFiles, load_from_source(file)
  PROVE  IInv'
<1>1. file \in Seq(Entry)
  BY FilesAssumption, Zenon
<1>2. TypeOK'
  BY <1>1 DEF IInv, TypeOK, load_from_source, graph
<1>3. WalkInv' /\ ResultExact'
  BY Zenon DEF load_from_source, WalkInv, ResultExact
<1>4. LatestWins'
  BY DEF load_from_source, LatestWins
<1>5. EdgesMirrored' /\ EdgesKnown'
  BY GraphKept, Zenon DEF load_from_source
<1> QED
  BY <1>2, <1>3, <1>4, <1>5, Zenon DEF IInv

\* One entry of the file.
LEMMA EntryIInv ==
  ASSUME IInv, LoadEntry
  PROVE  IInv'
<1> DEFINE f == src[next].func
           cs == src[next].callers
<1>1. next \in 1 .. Len(src) /\ src[next] \in Entry
  BY DEF IInv, TypeOK, LoadEntry
<1>2. f \in Func /\ cs \in Seq(Func) /\ ToSet(cs) \subseteq Func
  BY <1>1, ElementsTyped, Zenon DEF Entry
<1>3. /\ node_map' = node_map \cup {f} \cup ToSet(cs)
      /\ caller' = [caller EXCEPT ![f] = IF format = "cg" THEN cs ELSE caller[f] \o cs]
      /\ callee' = [g \in Func |-> IF g \in ToSet(cs) THEN callee[g] \cup {f}
                                                      ELSE callee[g]]
      /\ next' = next + 1
      /\ UNCHANGED <<format, src, query, stack, visited_set, found, result, graph_pc>>
      /\ graph_pc = "load"
  BY Zenon DEF LoadEntry, walk
<1> HIDE DEF f, cs
<1>4. caller[f] \in Seq(Func) /\ caller[f] \o cs \in Seq(Func)
        /\ ToSet(caller[f] \o cs) = ToSet(caller[f]) \cup ToSet(cs)
  <2>1. caller[f] \in Seq(Func)
    BY <1>2, Zenon DEF IInv, TypeOK
  <2> QED
    BY <1>2, <2>1, ExtendElements
<1>5. /\ caller' \in [Func -> Seq(Func)]
      /\ \A g \in Func \ {f} : caller'[g] = caller[g]
      /\ format = "cg" => caller'[f] = cs
      /\ ToSet(cs) \subseteq ToSet(caller'[f])
      /\ ToSet(caller'[f]) \subseteq ToSet(caller[f]) \cup ToSet(cs)
  BY <1>2, <1>3, <1>4 DEF IInv, TypeOK
<1>6. TypeOK'
  BY <1>1, <1>2, <1>3, <1>5 DEF IInv, TypeOK
<1>7. WalkInv' /\ ResultExact'
  BY <1>3, Zenon DEF IInv, WalkInv, ResultExact
<1>8. EdgesMirrored'
  <2> SUFFICES ASSUME NEW g \in Func, NEW h \in ToSet(caller'[g])
               PROVE  g \in callee'[h]
    BY Zenon DEF EdgesMirrored
  <2>1. CASE g = f /\ h \in ToSet(cs)
    BY <1>2, <1>3, <2>1
  <2>2. CASE g # f \/ h \notin ToSet(cs)
    <3>1. h \in ToSet(caller[g])
      BY <1>5, <2>2
    <3>2. h \in Func /\ g \in callee[h]
      BY <3>1, ElementsTyped DEF IInv, TypeOK, EdgesMirrored
    <3> QED
      BY <1>3, <3>2
  <2> QED
    BY <2>1, <2>2, Zenon
<1>9. EdgesKnown'
  <2> SUFFICES ASSUME NEW g \in Func
               PROVE  ToSet(caller'[g]) \subseteq node_map' /\ callee'[g] \subseteq node_map'
    BY Zenon DEF EdgesKnown
  <2>1. ToSet(caller[g]) \subseteq node_map /\ callee[g] \subseteq node_map
    BY Zenon DEF IInv, EdgesKnown
  <2>2. ToSet(caller'[g]) \subseteq ToSet(caller[g]) \cup ToSet(cs)
    BY <1>5, Zenon
  <2>3. callee'[g] \subseteq callee[g] \cup {f}
    BY <1>3, Zenon
  <2> QED
    BY <1>3, <2>1, <2>2, <2>3
<1>10. LatestWins'
  <2> SUFFICES ASSUME format = "cg", NEW i \in 1 .. next,
                      \A j \in i + 1 .. next : src[j].func # src[i].func
               PROVE  caller'[src[i].func] = src[i].callers
    BY <1>1, <1>3 DEF LatestWins
  <2>1. CASE i = next
    BY <1>5, <2>1, Zenon DEF f, cs
  <2>2. CASE i # next
    <3>1. i \in 1 .. next - 1 /\ next \in i + 1 .. next
            /\ \A j \in i + 1 .. next - 1 : j \in i + 1 .. next
      BY <1>1, <2>2
    <3>2. src[i].func # f
      BY <3>1, Zenon DEF f
    <3>3. caller[src[i].func] = src[i].callers
      BY <3>1, Zenon DEF IInv, LatestWins
    <3>4. src[i].func \in Func
      <4>1. i \in 1 .. Len(src)
        BY <1>1, <3>1 DEF IInv, TypeOK
      <4>2. src[i] \in Entry
        BY <4>1 DEF IInv, TypeOK
      <4> QED
        BY <4>2, Zenon DEF Entry
    <3> QED
      BY <1>5, <3>2, <3>3, <3>4
  <2> QED
    BY <2>1, <2>2
<1> QED
  BY <1>6, <1>7, <1>8, <1>9, <1>10 DEF IInv

\* The file is exhausted.
LEMMA LoadedIInv ==
  ASSUME IInv, Loaded
  PROVE  IInv'
<1>1. EdgesMirrored' /\ EdgesKnown'
  BY GraphKept, Zenon DEF Loaded
<1>2. query' = query /\ query.method = "none"
  BY Zenon DEF IInv, WalkInv, Loaded, walk
<1>3. TypeOK' /\ LatestWins'
  BY Zenon DEF IInv, TypeOK, LatestWins, Loaded, graph, walk
<1>4. WalkInv' /\ ResultExact'
  BY <1>2 DEF WalkInv, ResultExact, Loaded
<1> QED
  BY <1>1, <1>3, <1>4 DEF IInv

\* A traversal from a root that has a node.
LEMMA StartIInv ==
  ASSUME IInv, NEW m \in Methods, NEW r \in Func, StartWalk(m, r)
  PROVE  IInv'
<1>1. EdgesMirrored' /\ EdgesKnown' /\ Reach(r)' = Reach(r)
  BY GraphKept DEF StartWalk
<1>2. /\ query' = [method |-> m, root |-> r]
      /\ m \in {"get_all_call", "get_ground_func", "get_syscall"}
      /\ stack' = <<r>> /\ visited_set' = {} /\ found' = {} /\ graph_pc' = "walk"
      /\ r \in node_map /\ UNCHANGED <<format, node_map, caller, callee, src, next, result>>
  BY Zenon DEF StartWalk, Methods, graph
<1>3. TypeOK' /\ LatestWins'
  BY <1>2 DEF IInv, TypeOK, LatestWins
<1>4. ToSet(stack') = {r}
  BY <1>2 DEF ToSet
<1>5. found' = NotesOf(visited_set)'
  BY <1>2 DEF NotesOf
<1>6. r \in Reach(r)
  BY ReachClosed DEF IInv
<1>7. WalkInv'
  BY <1>1, <1>2, <1>4, <1>5, <1>6 DEF WalkInv
<1>8. ResultExact'
  BY <1>2, Zenon DEF ResultExact
<1> QED
  BY <1>1, <1>3, <1>7, <1>8 DEF IInv

\* A traversal from a root that has none.
LEMMA NoRootIInv ==
  ASSUME IInv, NEW m \in Methods, NEW r \in Func, NoRoot(m, r)
  PROVE  IInv'
<1>1. EdgesMirrored' /\ EdgesKnown'
  BY GraphKept, Zenon DEF NoRoot
<1>2. /\ query' = [method |-> m, root |-> r]
      /\ m \in {"get_all_call", "get_ground_func", "get_syscall"}
      /\ r \notin node_map /\ result' = {} /\ graph_pc' \in {"idle", "raised"}
      /\ UNCHANGED <<format, node_map, caller, callee, src, next, stack, visited_set, found>>
  BY Zenon DEF NoRoot, Methods, graph
<1>3. TypeOK' /\ LatestWins'
  BY <1>2 DEF IInv, TypeOK, LatestWins
<1>4. WalkInv'
  BY <1>2 DEF WalkInv
<1>5. ResultExact'
  BY <1>2, Zenon DEF ResultExact, Answer
<1> QED
  BY <1>1, <1>3, <1>4, <1>5 DEF IInv

\* One round of the loop.
LEMMA VisitIInv ==
  ASSUME IInv, Visit
  PROVE  IInv'
<1> DEFINE n == Last(stack)
           r == query.root
<1>1. EdgesMirrored' /\ EdgesKnown' /\ Reach(r)' = Reach(r)
  BY GraphKept DEF Visit
<1>2. /\ graph_pc = "walk" /\ stack # << >> /\ stack \in Seq(Func)
      /\ UNCHANGED <<format, node_map, caller, callee, src, next, query, result, graph_pc>>
  BY Zenon DEF IInv, TypeOK, Visit, graph
<1>3. /\ n \in Func /\ Front(stack) \in Seq(Func)
      /\ ToSet(stack) = ToSet(Front(stack)) \cup {n}
  BY <1>2, PopElements
<1>4. /\ query.method \in {"get_all_call", "get_ground_func", "get_syscall"}
      /\ r \in node_map
      /\ r \in visited_set \cup ToSet(stack)
      /\ visited_set \cup ToSet(stack) \subseteq Reach(r)
      /\ \A f \in visited_set : ToSet(caller[f]) \subseteq visited_set \cup ToSet(stack)
      /\ found = NotesOf(visited_set)
  BY <1>2 DEF IInv, WalkInv
<1>5. r \in Func /\ visited_set \subseteq Func /\ found \subseteq Func
        /\ caller[n] \in Seq(Func) /\ ToSet(caller[n]) \subseteq Func
  BY <1>3, <1>4, ElementsTyped DEF IInv, TypeOK
<1>6. LatestWins' /\ ResultExact'
  BY <1>2 DEF IInv, LatestWins, ResultExact
<1> HIDE DEF n, r
<1>7. CASE n \in visited_set
  <2>1. stack' = Front(stack) /\ visited_set' = visited_set /\ found' = found
    BY <1>7, Zenon DEF Visit, n
  <2>2. TypeOK'
    BY <1>2, <1>3, <2>1 DEF IInv, TypeOK
  <2>3. visited_set' \cup ToSet(stack') = visited_set \cup ToSet(stack)
    BY <1>3, <1>7, <2>1
  <2>4. NotesOf(visited_set)' = NotesOf(visited_set)
    BY <1>2, <2>1 DEF NotesOf
  <2>5. WalkInv'
    BY <1>1, <1>2, <1>4, <2>1, <2>3, <2>4 DEF WalkInv, r
  <2> QED
    BY <1>1, <1>6, <2>2, <2>5 DEF IInv
<1>8. CASE n \notin visited_set
  <2>1. /\ stack' = Front(stack) \o caller[n]
        /\ visited_set' = visited_set \cup {n}
        /\ found' = found \cup Notes(n)
    BY <1>8, Zenon DEF Visit, n
  <2>2. /\ stack' \in Seq(Func)
        /\ ToSet(stack') = ToSet(Front(stack)) \cup ToSet(caller[n])
    BY <1>3, <1>5, <2>1, ExtendElements
  <2>3. Notes(n) \subseteq {n} /\ NotesOf(visited_set \cup {n}) = NotesOf(visited_set) \cup Notes(n)
    BY <1>4 DEF Notes, NotesOf
  <2>4. found' = NotesOf(visited_set)'
    BY <1>2, <1>4, <2>1, <2>3 DEF NotesOf
  <2>5. TypeOK'
    BY <1>2, <1>3, <1>5, <2>1, <2>2, <2>3 DEF IInv, TypeOK
  <2>6. visited_set' \cup ToSet(stack') = visited_set \cup ToSet(stack) \cup ToSet(caller[n])
    BY <1>3, <2>1, <2>2
  <2>7. n \in Reach(r) /\ ToSet(caller[n]) \subseteq Reach(r)
    BY <1>3, <1>4, <1>5, ReachClosed DEF IInv
  <2>8. \A f \in visited_set' : ToSet(caller[f]) \subseteq visited_set' \cup ToSet(stack')
    BY <1>4, <2>1, <2>6
  <2>9. WalkInv'
    BY <1>1, <1>2, <1>4, <2>4, <2>6, <2>7, <2>8 DEF WalkInv, r
  <2> QED
    BY <1>1, <1>6, <2>5, <2>9, Zenon DEF IInv
<1> QED
  BY <1>7, <1>8

\* The loop ends with an empty stack: the visited set is closed.
LEMMA ReturnIInv ==
  ASSUME IInv, ReturnWalk
  PROVE  IInv'
<1> DEFINE r == query.root
<1>1. EdgesMirrored' /\ EdgesKnown' /\ Reach(r)' = Reach(r)
  BY GraphKept, Zenon DEF ReturnWalk
<1>2. /\ graph_pc = "walk" /\ stack = << >> /\ result' = found /\ graph_pc' = "idle"
      /\ UNCHANGED <<format, node_map, caller, callee, src, next, query, stack, visited_set, found>>
  BY Zenon DEF ReturnWalk, graph
<1>3. ToSet(stack) = {}
  BY <1>2 DEF ToSet
<1>4. /\ query.method \in {"get_all_call", "get_ground_func", "get_syscall"}
      /\ r \in node_map /\ r \in visited_set
      /\ visited_set \subseteq Reach(r)
      /\ \A f \in visited_set : ToSet(caller[f]) \subseteq visited_set
      /\ found = NotesOf(visited_set)
      /\ visited_set \subseteq Func
  BY <1>2, <1>3 DEF IInv, WalkInv, TypeOK
<1>5. visited_set = Reach(r)
  BY <1>4, ReachLeast, Zenon
<1>6. found = Answer
  BY <1>4, <1>5 DEF NotesOf, Answer
<1>7. Answer' = Answer
  BY <1>1, <1>2 DEF Answer
<1>8. ResultExact' /\ WalkInv'
  BY <1>2, <1>6, <1>7 DEF ResultExact, WalkInv
<1>9. TypeOK' /\ LatestWins'
  BY <1>2 DEF IInv, TypeOK, LatestWins
<1> QED
  BY <1>1, <1>8, <1>9 DEF IInv

-----------------------------------------------------------------------------
\* Every step preserves the invariant.
LEMMA NextIInv == IInv /\ [GraphNext]_graph_vars => IInv'
<1> SUFFICES ASSUME IInv, [GraphNext]_graph_vars PROVE IInv'
  BY Zenon
<1>1. CASE UNCHANGED graph_vars
  <2>1. UNCHANGED graph /\ UNCHANGED <<src, next, query, stack, visited_set, found, result, graph_pc>>
    BY <1>1, Zenon DEF graph_vars, walk
  <2>2. EdgesMirrored' /\ EdgesKnown' /\ \A r : Reach(r)' = Reach(r)
    BY <2>1, GraphKept
  <2>3. TypeOK' /\ LatestWins'
    BY <2>1, Zenon DEF IInv, TypeOK, LatestWins, graph
  <2>6. Reach(query.root)' = Reach(query.root)
    BY <2>1, Zenon DEF graph, Reach, Closed
  <2>4. NotesOf(visited_set)' = NotesOf(visited_set) /\ Answer' = Answer
    BY <2>1, <2>6 DEF NotesOf, Answer, graph
  <2>5. WalkInv' /\ ResultExact'
    BY <2>1, <2>6, <2>4 DEF IInv, WalkInv, ResultExact, graph
  <2> QED
    BY <2>2, <2>3, <2>5 DEF IInv
<1> QED
  BY <1>1, LoadIInv, EntryIInv, LoadedIInv, StartIInv, NoRootIInv, VisitIInv,
     ReturnIInv DEF GraphNext

\* Type correctness of a call graph object, its loader and its traversals.
THEOREM TypeCorrect == GraphSpec => []TypeOK
<1>1. IInv => TypeOK
  BY DEF IInv
<1> QED
  BY <1>1, InitIInv, NextIInv, PTL DEF GraphSpec

\* get_all_call, get_ground_func and get_syscall return exactly the reachable
\* functions they are asked for, on every call graph.
THEOREM TraversalsExact == GraphSpec => []ResultExact
<1>1. IInv => ResultExact
  BY Zenon DEF IInv
<1> QED
  BY <1>1, InitIInv, NextIInv, PTL DEF GraphSpec

\* The mirrored edge lists agree after any sequence of loads.
THEOREM MirroredEdges == GraphSpec => [](EdgesMirrored /\ EdgesKnown)
<1>1. IInv => EdgesMirrored /\ EdgesKnown
  BY DEF IInv
<1> QED
  BY <1>1, InitIInv, NextIInv, PTL DEF GraphSpec

\* A reload gives every function of the new file exactly its new edges.
THEOREM ReloadWins == GraphSpec => []LatestWins
<1>1. IInv => LatestWins
  BY Zenon DEF IInv
<1> QED
  BY <1>1, InitIInv, NextIInv, PTL DEF GraphSpec

-----------------------------------------------------------------------------
(***************************************************************************)
(* The blocks of changed lines that get_diff_blocks cuts, DiffBlocks.  The *)
(* cut is decided on line numbers in the old and in the new file, the      *)
(* promise is about places in the text of ndiff: Numbered relates them.    *)
(* Blocked says what the blocks so far hold and where the next one begins. *)
(***************************************************************************)
\* A line of diff: its numbers in the old and in the new file, and its place.
At(p) == diff[p][3]

\* Between two changed lines there are lines of both files only: the numbers
\* in one file differ by as much as the places, in the other by one less.
Spaced(p) ==
  /\ At(p) - At(p - 1) >= 1
  /\ \/ /\ diff[p][1] - diff[p - 1][1] = At(p) - At(p - 1)
        /\ diff[p][2] - diff[p - 1][2] = At(p) - At(p - 1) - 1
     \/ /\ diff[p][1] - diff[p - 1][1] = At(p) - At(p - 1) - 1
        /\ diff[p][2] - diff[p - 1][2] = At(p) - At(p - 1)

\* diff has the changed lines so far; since the last of them, both numbers
\* have grown with the lines.
Numbered ==
  /\ diff_lines \in Seq({"removed", "added", "common", "hint"})
  /\ line_idx \in 1 .. Len(diff_lines) + 1
  /\ original_line_number \in Nat /\ modified_line_number \in Nat
  /\ \E S : diff \in Seq(S)
  /\ \A p \in 1 .. Len(diff) : diff[p][1] \in Nat /\ diff[p][2] \in Nat /\ At(p) \in Nat
  /\ {At(p) : p \in 1 .. Len(diff)} = {k \in 1 .. line_idx - 1 : diff_lines[k] \in {"removed", "added"}}
  /\ \A p \in 2 .. Len(diff) : Spaced(p)
  /\ Len(diff) > 0 =>
       /\ original_line_number - diff[Len(diff)][1] = line_idx - 1 - At(Len(diff))
       /\ modified_line_number - diff[Len(diff)][2] = line_idx - 1 - At(Len(diff))
  /\ diff_pc # "number" => line_idx = Len(diff_lines) + 1

\* A block as BlocksExact has it.
Shaped(b) ==
  /\ Lines(b) \in Seq(Nat) /\ Lines(b) # << >>
  /\ \A k \in 2 .. Len(Lines(b)) : Lines(b)[k] - Lines(b)[k - 1] \in {1, 2}
  /\ b > 1 => Lines(b)[1] - LastLine(b - 1) > 2

\* The blocks hold the lines of diff before position p.
Holds(p) ==
  UNION {{Lines(b)[k] : k \in DOMAIN Lines(b)} : b \in DOMAIN diff_list}
    = {At(q) : q \in 1 .. p - 1}

\* The blocks hold the lines before prev_idx, where a block begins; the lines
\* from there to idx go together.
Begun ==
  /\ Holds(prev_idx)
  /\ diff_list = << >> => prev_idx = 1
  /\ diff_list # << >> => /\ prev_idx \in 2 .. Len(diff)
                          /\ At(prev_idx) - At(prev_idx - 1) > 2
                          /\ LastLine(Len(diff_list)) = At(prev_idx - 1)
  /\ \A p \in prev_idx + 1 .. idx - 1 :
       p =< Len(diff) => At(p) - At(p - 1) =< 2

Blocked ==
  /\ diff_pc \in {"number", "cut", "done", "raised"}
  /\ diff_pc = "number" => diff_list = << >> /\ idx = 2 /\ prev_idx = 1
  /\ idx \in Nat /\ prev_idx \in Nat \ {0} /\ prev_idx < idx
  /\ Len(diff) > 0 => idx =< Len(diff) + 1
  /\ Len(diff) = 0 => idx = 2 /\ prev_idx = 1
  /\ \E S : diff_list \in Seq(S)
  /\ \A b \in 1 .. Len(diff_list) : Shaped(b)
  /\ diff_pc \in {"number", "cut"} => Begun
  /\ diff_pc = "done" => Holds(Len(diff) + 1)

\* The inductive invariant.
BlocksInv == Numbered /\ Blocked

\* Two lines of diff are in one block iff at most one line lies between them.
LEMMA ContinuesIff ==
  ASSUME Numbered, idx \in 2 .. Len(diff)
  PROVE  Continues <=> At(idx) - At(idx - 1) =< 2
<1>1. Spaced(idx)
  BY Zenon DEF Numbered
<1>2. idx \in 1 .. Len(diff) /\ idx - 1 \in 1 .. Len(diff)
  BY DEF Numbered
<1>4. PICK a1 \in Nat, a2 \in Nat, a3 \in Nat :
        a1 = diff[idx][1] /\ a2 = diff[idx][2] /\ a3 = At(idx)
  BY <1>2, Zenon DEF Numbered
<1>5. PICK b1 \in Nat, b2 \in Nat, b3 \in Nat :
        b1 = diff[idx - 1][1] /\ b2 = diff[idx - 1][2] /\ b3 = At(idx - 1)
  BY <1>2, Zenon DEF Numbered
<1>6. /\ a3 - b3 >= 1
      /\ \/ a1 - b1 = a3 - b3 /\ a2 - b2 = a3 - b3 - 1
         \/ a1 - b1 = a3 - b3 - 1 /\ a2 - b2 = a3 - b3
  BY <1>1, <1>4, <1>5 DEF Spaced
<1>7. Continues <=> (a1 = b1 \/ a1 = b1 + 1 \/ a2 = b2 \/ a2 = b2 + 1)
  BY <1>4, <1>5, Zenon DEF Continues, Follows
<1>8. (a1 = b1 \/ a1 = b1 + 1 \/ a2 = b2 \/ a2 = b2 + 1) <=> a3 - b3 =< 2
  BY <1>6
<1> QED
  BY <1>4, <1>5, <1>7, <1>8

\* A number is given to a line.
LEMMA NumberStep ==
  ASSUME BlocksInv, NumberLine
  PROVE  BlocksInv'
<1>0. PICK L \in Nat : L = Len(diff)
  BY DEF BlocksInv, Numbered
<1>1. /\ line_idx \in Nat /\ line_idx >= 1 /\ line_idx =< Len(diff_lines) /\ line_idx' = line_idx + 1 /\ Len(diff_lines) \in Nat
      /\ diff_lines' = diff_lines /\ diff_pc = "number" /\ diff_pc' = diff_pc
      /\ UNCHANGED <<idx, prev_idx, diff_list>>
  BY DEF BlocksInv, Numbered, NumberLine
<1>2. PICK o \in Nat, m \in Nat : o = original_line_number' /\ m = modified_line_number'
  BY DEF BlocksInv, Numbered, NumberLine
<1>3. CASE ~ (Removed \/ Added)
  <2>1. diff' = diff /\ o = original_line_number + 1 /\ m = modified_line_number + 1
    BY <1>2, <1>3 DEF NumberLine
  <2>2. \A p : At(p)' = At(p) /\ Spaced(p)' = Spaced(p)
    BY <2>1, Zenon DEF At, Spaced
  <2>3. {k \in 1 .. line_idx' - 1 : diff_lines[k] \in {"removed", "added"}}
          = {k \in 1 .. line_idx - 1 : diff_lines[k] \in {"removed", "added"}}
    BY <1>1, <1>3 DEF Removed, Added
  <2>4. Numbered'
    <3>1. L > 0 => /\ original_line_number - diff[L][1] = line_idx - 1 - At(L)
                   /\ modified_line_number - diff[L][2] = line_idx - 1 - At(L)
                   /\ diff[L][1] \in Nat /\ diff[L][2] \in Nat /\ At(L) \in Nat
      BY <1>0 DEF BlocksInv, Numbered
    <3>2. L > 0 => /\ o - diff[L][1] = line_idx' - 1 - At(L)
                   /\ m - diff[L][2] = line_idx' - 1 - At(L)
      <4> SUFFICES ASSUME L > 0
                   PROVE  o - diff[L][1] = line_idx' - 1 - At(L) /\ m - diff[L][2] = line_idx' - 1 - At(L)
        BY Zenon
      <4>1. PICK c1 \in Nat, c2 \in Nat, c3 \in Nat :
              c1 = diff[L][1] /\ c2 = diff[L][2] /\ c3 = At(L)
        BY <3>1, Zenon
      <4>2. original_line_number - c1 = line_idx - 1 - c3 /\ modified_line_number - c2 = line_idx - 1 - c3
        BY <3>1, <4>1
      <4>3. original_line_number \in Nat /\ modified_line_number \in Nat
        BY Zenon DEF BlocksInv, Numbered
      <4>4. o - c1 = line_idx' - 1 - c3 /\ m - c2 = line_idx' - 1 - c3
        BY <1>1, <2>1, <4>2, <4>3
      <4> QED
        BY <4>1, <4>4, Zenon
    <3>3. line_idx' \in 1 .. Len(diff_lines') + 1
      BY <1>1
    <3>4. {At(p) : p \in 1 .. Len(diff)}' = {At(p) : p \in 1 .. Len(diff)}
      BY <2>1, <2>2, Zenon
    <3>5. {At(p) : p \in 1 .. Len(diff)}'
            = {k \in 1 .. line_idx' - 1 : diff_lines'[k] \in {"removed", "added"}}
      BY <1>1, <2>3, <3>4, Zenon DEF BlocksInv, Numbered
    <3>6. (Len(diff) > 0 =>
             /\ original_line_number - diff[Len(diff)][1] = line_idx - 1 - At(Len(diff))
             /\ modified_line_number - diff[Len(diff)][2] = line_idx - 1 - At(Len(diff)))'
      BY <1>0, <1>2, <2>1, <2>2, <3>2, Zenon
    <3> QED
      BY <1>1, <1>2, <2>1, <2>2, <3>3, <3>5, <3>6, Zenon DEF BlocksInv, Numbered
  <2>5. Blocked'
    <3>1. diff_list' = << >> /\ idx' = 2 /\ prev_idx' = 1
      BY <1>1 DEF BlocksInv, Blocked
    <3>2. Begun'
      BY <3>1 DEF Begun, Holds
    <3> QED
      BY <1>1, <2>1, <3>1, <3>2 DEF BlocksInv, Blocked
  <2> QED
    BY <2>4, <2>5, Zenon DEF BlocksInv
<1>4. CASE Removed \/ Added
  <2>1. diff' = Append(diff, <<o, m, line_idx>>)
    BY <1>2, <1>4 DEF NumberLine
  <2>2. \/ o = original_line_number /\ m = modified_line_number + 1
        \/ o = original_line_number + 1 /\ m = modified_line_number
    <3>1. original_line_number \in Nat /\ modified_line_number \in Nat
      BY Zenon DEF BlocksInv, Numbered
    <3>2. ~ (Removed /\ Added)
      BY Zenon DEF Removed, Added
    <3> QED
      BY <1>2, <1>4, <3>1, <3>2 DEF NumberLine
  <2>3. /\ \E S : diff' \in Seq(S)
        /\ Len(diff') = L + 1 /\ diff'[L + 1] = <<o, m, line_idx>>
        /\ \A p \in 1 .. L : diff'[p] = diff[p]
    <3>1. PICK S : diff \in Seq(S)
      BY Zenon DEF BlocksInv, Numbered
    <3>2. PICK e : e = <<o, m, line_idx>>
      BY Zenon
    <3>3. diff \in Seq(S \cup {e}) /\ diff' = Append(diff, e)
      BY <2>1, <3>1, <3>2
    <3> QED
      BY <1>0, <3>2, <3>3
  <2>4. /\ At(L + 1)' = line_idx /\ diff'[L + 1][1] = o /\ diff'[L + 1][2] = m
        /\ \A p \in 1 .. L : At(p)' = At(p)
    BY <1>0, <2>3 DEF At
  <2>5. {At(p) : p \in 1 .. Len(diff)}'
          = {k \in 1 .. line_idx' - 1 : diff_lines'[k] \in {"removed", "added"}}
    <3>1. {At(p) : p \in 1 .. Len(diff)}' = {At(p) : p \in 1 .. L} \cup {line_idx}
      <4>1. {At(p) : p \in 1 .. Len(diff)}' = {At(p)' : p \in 1 .. L + 1}
        BY <2>3
      <4>2. 1 .. L + 1 = (1 .. L) \cup {L + 1}
        BY <1>0
      <4>3. ASSUME NEW x
            PROVE  x \in {At(p)' : p \in 1 .. L + 1} <=> x \in {At(p) : p \in 1 .. L} \cup {line_idx}
        BY <2>4, <4>2, Zenon
      <4> QED
        BY <4>1, <4>3, Zenon
    <3>2. {k \in 1 .. line_idx' - 1 : diff_lines'[k] \in {"removed", "added"}}
            = {k \in 1 .. line_idx - 1 : diff_lines[k] \in {"removed", "added"}} \cup {line_idx}
      BY <1>1, <1>4 DEF Removed, Added
    <3> QED
      BY <1>0, <3>1, <3>2, Zenon DEF BlocksInv, Numbered
  <2>6. \A p \in 2 .. L : Spaced(p)'
    <3> SUFFICES ASSUME NEW p \in 2 .. L PROVE Spaced(p)'
      BY Zenon
    <3>1. Spaced(p)
      BY <1>0, Zenon DEF BlocksInv, Numbered
    <3>2. diff'[p] = diff[p] /\ diff'[p - 1] = diff[p - 1]
      BY <1>0, <2>3
    <3> QED
      BY <3>1, <3>2, Zenon DEF Spaced, At
  <2>7. L > 0 => Spaced(L + 1)'
    <3> SUFFICES ASSUME L > 0 PROVE Spaced(L + 1)'
      BY Zenon
    <3>1. /\ original_line_number - diff[L][1] = line_idx - 1 - At(L)
          /\ modified_line_number - diff[L][2] = line_idx - 1 - At(L)
      BY <1>0 DEF BlocksInv, Numbered
    <3>2. PICK b1 \in Nat, b2 \in Nat, b3 \in Nat :
            b1 = diff[L][1] /\ b2 = diff[L][2] /\ b3 = At(L)
      <4>1. L \in 1 .. Len(diff)
        BY <1>0
      <4>2. diff[L][1] \in Nat /\ diff[L][2] \in Nat /\ At(L) \in Nat
        BY <4>1 DEF BlocksInv, Numbered
      <4> QED
        BY <4>2
    <3>3. b3 =< line_idx - 1
      <4>1. At(L) \in {At(p) : p \in 1 .. Len(diff)}
        BY <1>0
      <4>2. At(L) \in 1 .. line_idx - 1
        BY <4>1 DEF BlocksInv, Numbered
      <4> QED
        BY <1>1, <3>2, <4>2
    <3>4. original_line_number \in Nat /\ modified_line_number \in Nat
      BY Zenon DEF BlocksInv, Numbered
    <3>5. \/ o - b1 = line_idx - b3 /\ m - b2 = line_idx - b3 - 1
          \/ o - b1 = line_idx - b3 - 1 /\ m - b2 = line_idx - b3
      <4>1. original_line_number - b1 = line_idx - 1 - b3 /\ modified_line_number - b2 = line_idx - 1 - b3
        BY <3>1, <3>2
      <4> QED
        BY <1>1, <2>2, <3>4, <4>1
    <3>6. diff'[(L + 1) - 1] = diff[L] /\ At((L + 1) - 1)' = At(L)
      BY <1>0, <2>3 DEF At
    <3>7. line_idx - b3 >= 1
      BY <1>1, <3>2, <3>3
    <3> QED
      BY <2>4, <3>2, <3>5, <3>6, <3>7, Zenon DEF Spaced
  <2>8. \A p \in 2 .. L + 1 : Spaced(p)'
    <3> SUFFICES ASSUME NEW p \in 2 .. L + 1 PROVE Spaced(p)'
      OBVIOUS
    <3>1. p \in 2 .. L \/ (p = L + 1 /\ L > 0)
      BY <1>0
    <3> QED
      BY <2>6, <2>7, <3>1
  <2>9. /\ original_line_number' - diff'[L + 1][1] = line_idx' - 1 - At(L + 1)'
        /\ modified_line_number' - diff'[L + 1][2] = line_idx' - 1 - At(L + 1)'
    BY <1>1, <1>2, <2>4
  <2>10. Numbered'
    <3>1. /\ line_idx' \in 1 .. Len(diff_lines') + 1
          /\ original_line_number' \in Nat /\ modified_line_number' \in Nat
      BY <1>1, <1>2
    <3>2. diff_lines' \in Seq({"removed", "added", "common", "hint"})
      BY <1>1 DEF BlocksInv, Numbered
    <3>3. \A p \in 2 .. Len(diff') : Spaced(p)'
      BY <2>3, <2>8
    <3>4. (Len(diff) > 0 =>
             /\ original_line_number - diff[Len(diff)][1] = line_idx - 1 - At(Len(diff))
             /\ modified_line_number - diff[Len(diff)][2] = line_idx - 1 - At(Len(diff)))'
      BY <2>3, <2>9 DEF At
    <3>5. \A p \in 1 .. Len(diff') : diff'[p][1] \in Nat /\ diff'[p][2] \in Nat /\ At(p)' \in Nat
      <4> SUFFICES ASSUME NEW p \in 1 .. L + 1
                   PROVE  diff'[p][1] \in Nat /\ diff'[p][2] \in Nat /\ At(p)' \in Nat
        BY <2>3
      <4>1. CASE p \in 1 .. L
        BY <1>0, <2>3, <2>4, <4>1, Zenon DEF BlocksInv, Numbered
      <4>2. CASE p = L + 1
        BY <1>1, <1>2, <2>4, <4>2
      <4> QED
        BY <1>0, <4>1, <4>2
    <3> QED
      BY <1>1, <2>3, <2>5, <3>1, <3>2, <3>3, <3>4, <3>5, Zenon DEF Numbered
  <2>11. Blocked'
    <3>1. diff_list' = << >> /\ idx' = 2 /\ prev_idx' = 1
      BY <1>1, Zenon DEF BlocksInv, Blocked
    <3>2. Begun'
      BY <3>1 DEF Begun, Holds
    <3> QED
      BY <1>1, <2>3, <3>1, <3>2 DEF BlocksInv, Blocked
  <2> QED
    BY <2>10, <2>11, Zenon DEF BlocksInv
<1> QED
  BY <1>3, <1>4

\* The block of the lines from prev_idx to last is added.
LEMMA AddBlock ==
  ASSUME Numbered, Blocked, Begun, NEW last \in prev_idx .. Len(diff), last =< idx - 1,
         diff_list' = Append(diff_list, DiffBlock(prev_idx, last)), diff' = diff
  PROVE  /\ \E S : diff_list' \in Seq(S)
         /\ Len(diff_list') = Len(diff_list) + 1
         /\ \A b \in 1 .. Len(diff_list') : Shaped(b)'
         /\ Holds(last + 1)'
         /\ LastLine(Len(diff_list))' = At(last)
<1> DEFINE s == [k \in 1 .. last - prev_idx + 1 |-> At(prev_idx + k - 1)]
<1>1. /\ prev_idx \in Nat \ {0} /\ last \in Nat /\ prev_idx =< last
      /\ Len(diff) \in Nat /\ last =< Len(diff)
  BY DEF Numbered, Blocked
<1>2. PICK S : diff_list \in Seq(S)
  BY Zenon DEF Blocked
<1>0. PICK D \in Nat : D = Len(diff_list)
  BY <1>2
<1>3. \A p \in 1 .. Len(diff) : At(p) \in Nat
  BY Zenon DEF Numbered
<1>4. /\ \E R : diff_list' \in Seq(R)
      /\ Len(diff_list') = D + 1 /\ diff_list'[D + 1] = DiffBlock(prev_idx, last)
      /\ \A b \in 1 .. D : diff_list'[b] = diff_list[b]
  <2>1. PICK e : e = DiffBlock(prev_idx, last)
    BY Zenon
  <2>2. diff_list \in Seq(S \cup {e}) /\ diff_list' = Append(diff_list, e)
    BY <1>2, <2>1
  <2> QED
    BY <1>0, <2>1, <2>2
<1>5. \A p : At(p)' = At(p)
  BY Zenon DEF At
<1>6. Lines(D + 1)' = s /\ \A b \in 1 .. D : Lines(b)' = Lines(b)
  <2>1. DiffBlock(prev_idx, last).content = s
    BY Zenon DEF DiffBlock, At
  <2> HIDE DEF s
  <2> QED
    BY <1>4, <2>1, Zenon DEF Lines
<1>7. /\ s \in Seq(Nat) /\ Len(s) = last - prev_idx + 1 /\ s # << >>
      /\ \A k \in 1 .. last - prev_idx + 1 : s[k] = At(prev_idx + k - 1)
  <2>1. \A k \in 1 .. last - prev_idx + 1 : prev_idx + k - 1 \in 1 .. Len(diff)
    BY <1>1
  <2>2. s \in [1 .. last - prev_idx + 1 -> Nat] /\ last - prev_idx + 1 \in Nat \ {0}
    BY <1>1, <1>3, <2>1
  <2>3. \A k \in 1 .. last - prev_idx + 1 : s[k] = At(prev_idx + k - 1)
    BY Zenon
  <2> HIDE DEF s
  <2>4. PICK w \in Nat \ {0} : w = last - prev_idx + 1
    BY <2>2, Zenon
  <2>5. s \in Seq(Nat) /\ Len(s) = w
    BY <2>2, <2>4
  <2> QED
    BY <2>3, <2>4, <2>5
<1>8. s[1] = At(prev_idx) /\ s[Len(s)] = At(last)
  <2>1. 1 \in 1 .. last - prev_idx + 1 /\ last - prev_idx + 1 \in 1 .. last - prev_idx + 1
    BY <1>1
  <2>2. prev_idx + 1 - 1 = prev_idx /\ prev_idx + (last - prev_idx + 1) - 1 = last
    BY <1>1
  <2> QED
    BY <1>7, <2>1, <2>2
<1>9. \A k \in 2 .. Len(s) : s[k] - s[k - 1] \in {1, 2}
  <2> SUFFICES ASSUME NEW k \in 2 .. last - prev_idx + 1 PROVE s[k] - s[k - 1] \in {1, 2}
    BY <1>7, Zenon
  <2> DEFINE p == prev_idx + k - 1
  <2>1. /\ p \in prev_idx + 1 .. last /\ p \in 2 .. Len(diff) /\ p - 1 \in 1 .. Len(diff)
        /\ p \in prev_idx + 1 .. idx - 1 /\ p =< Len(diff) /\ p \in 1 .. Len(diff)
        /\ p - 1 = prev_idx + (k - 1) - 1
    BY <1>1 DEF Blocked
  <2>2. s[k] = At(p) /\ s[k - 1] = At(p - 1)
    BY <1>1, <1>7, <2>1
  <2>3. At(p) - At(p - 1) =< 2
    BY <2>1 DEF Begun
  <2>4. At(p) - At(p - 1) >= 1
    <3>1. Spaced(p)
      BY <2>1, Zenon DEF Numbered
    <3> QED
      BY <3>1, Zenon DEF Spaced
  <2>5. At(p) \in Nat /\ At(p - 1) \in Nat
    BY <1>3, <2>1
  <2> HIDE DEF p
  <2> QED
    BY <2>2, <2>3, <2>4, <2>5
<1> HIDE DEF s
<1>10. \A b \in 1 .. D : Shaped(b)'
  <2> SUFFICES ASSUME NEW b \in 1 .. D PROVE Shaped(b)'
    BY Zenon
  <2>1. Shaped(b)
    BY <1>0 DEF Blocked
  <2>2. Lines(b)' = Lines(b) /\ (b > 1 => Lines(b - 1)' = Lines(b - 1))
    BY <1>0, <1>6
  <2> QED
    BY <2>1, <2>2 DEF Shaped, LastLine
<1>11. Shaped(D + 1)'
  <2>1. D + 1 > 1 => s[1] - LastLine(D)' > 2
    <3> SUFFICES ASSUME D >= 1 PROVE s[1] - LastLine(D)' > 2
      BY <1>4
    <3>1. Lines(D)' = Lines(D) /\ diff_list # << >>
      BY <1>0, <1>2, <1>6
    <3>2. LastLine(D)' = LastLine(D)
      BY <3>1 DEF LastLine
    <3>3. At(prev_idx) - At(prev_idx - 1) > 2 /\ LastLine(D) = At(prev_idx - 1)
      BY <1>0, <3>1 DEF Begun
    <3> QED
      BY <1>8, <3>2, <3>3
  <2>2. (D + 1) - 1 = D
    BY <1>4
  <2>3. LastLine((D + 1) - 1)' = LastLine(D)'
    BY <1>4, <2>2, Zenon DEF LastLine, Lines
  <2> QED
    BY <1>6, <1>7, <1>9, <2>1, <2>3, Zenon DEF Shaped
<1>12. Holds(last + 1)'
  <2>1. UNION {{Lines(b)[k] : k \in DOMAIN Lines(b)} : b \in 1 .. D}
          = {At(q) : q \in 1 .. prev_idx - 1}
    <3>1. DOMAIN diff_list = 1 .. D
      BY <1>0, <1>2
    <3> QED
      BY <3>1, Zenon DEF Begun, Holds
  <2>2. (UNION {{Lines(b)[k] : k \in DOMAIN Lines(b)} : b \in DOMAIN diff_list})'
          = UNION {{Lines(b)'[k] : k \in DOMAIN Lines(b)'} : b \in 1 .. D + 1}
    <3>1. DOMAIN diff_list' = 1 .. D + 1
      BY <1>4
    <3> QED
      BY <3>1
  <2>3. UNION {{Lines(b)'[k] : k \in DOMAIN Lines(b)'} : b \in 1 .. D + 1}
          = (UNION {{Lines(b)[k] : k \in DOMAIN Lines(b)} : b \in 1 .. D})
            \cup {s[k] : k \in DOMAIN s}
    <3>1. 1 .. D + 1 = (1 .. D) \cup {D + 1}
      BY <1>4
    <3> QED
      BY <1>6, <3>1
  <2>4. {s[k] : k \in DOMAIN s} = {At(q) : q \in prev_idx .. last}
    <3>1. DOMAIN s = 1 .. last - prev_idx + 1
      BY <1>7
    <3>2. \A k \in 1 .. last - prev_idx + 1 : prev_idx + k - 1 \in prev_idx .. last
      BY <1>1
    <3>3. \A q \in prev_idx .. last : /\ q - prev_idx + 1 \in 1 .. last - prev_idx + 1
                                      /\ prev_idx + (q - prev_idx + 1) - 1 = q
      BY <1>1
    <3>4. ASSUME NEW x \in {s[k] : k \in DOMAIN s} PROVE x \in {At(q) : q \in prev_idx .. last}
      <4>1. PICK k \in 1 .. last - prev_idx + 1 : x = s[k]
        BY <3>1
      <4> QED
        BY <1>7, <3>2, <4>1, Zenon
    <3>5. ASSUME NEW x \in {At(q) : q \in prev_idx .. last} PROVE x \in {s[k] : k \in DOMAIN s}
      <4>1. PICK q \in prev_idx .. last : x = At(q)
        BY Zenon
      <4>2. s[q - prev_idx + 1] = x
        BY <1>7, <3>3, <4>1
      <4> QED
        BY <3>1, <3>3, <4>2
    <3> QED
      BY <3>4, <3>5, Zenon
  <2>5. 1 .. (last + 1) - 1 = (1 .. prev_idx - 1) \cup (prev_idx .. last)
    BY <1>1
  <2>6. {At(q) : q \in 1 .. (last + 1) - 1}' = {At(q) : q \in 1 .. (last + 1) - 1}
    BY <1>5
  <2>7. {At(q) : q \in 1 .. (last + 1) - 1}
          = {At(q) : q \in 1 .. prev_idx - 1} \cup {At(q) : q \in prev_idx .. last}
    BY <2>5
  <2> QED
    BY <2>1, <2>2, <2>3, <2>4, <2>6, <2>7, Zenon DEF Holds
<1>13. LastLine(Len(diff_list))' = At(last)
  BY <1>4, <1>6, <1>8 DEF LastLine
<1>14. \A b \in 1 .. Len(diff_list') : b \in 1 .. D \/ b = D + 1
  BY <1>4
<1> QED
  BY <1>4, <1>10, <1>11, <1>12, <1>13, <1>14

\* The first changed line begins the first block.
LEMMA NumberedFirst ==
  ASSUME DiffInit, DeltasAssumption
  PROVE  BlocksInv
<1>1. diff_lines \in Seq({"removed", "added", "common", "hint"})
  BY Zenon DEF DiffInit, DeltasAssumption
<1>2. Numbered
  <2>1. diff \in Seq(Nat) /\ Len(diff) = 0 /\ line_idx = 1
    BY DEF DiffInit
  <2>2. {At(p) : p \in 1 .. Len(diff)} = {k \in 1 .. line_idx - 1 : diff_lines[k] \in {"removed", "added"}}
    BY <2>1
  <2>3. line_idx \in 1 .. Len(diff_lines) + 1
    BY <1>1, <2>1
  <2> QED
    BY <1>1, <2>1, <2>2, <2>3 DEF DiffInit, Numbered
<1>3. Begun
  BY DEF DiffInit, Begun, Holds
<1>4. diff_list \in Seq(Nat) /\ Len(diff_list) = 0 /\ Len(diff) = 0
  BY DEF DiffInit
<1> QED
  BY <1>2, <1>3, <1>4 DEF DiffInit, BlocksInv, Blocked

\* What the blocks and the numbers say is left alone with them.
LEMMA NumberedSame ==
  ASSUME UNCHANGED <<diff_lines, line_idx, original_line_number, modified_line_number, diff>>,
         Numbered, diff_pc' # "number", line_idx = Len(diff_lines) + 1
  PROVE  Numbered'
<1>1. \A p : At(p)' = At(p) /\ Spaced(p)' = Spaced(p)
  BY Zenon DEF At, Spaced
<1> QED
  BY <1>1, Zenon DEF Numbered

\* Blocks are as they were when nothing touches them or the lines numbered.
LEMMA BlocksSame ==
  ASSUME UNCHANGED <<diff, diff_list>>
  PROVE  /\ \A p : At(p)' = At(p)
         /\ \A p : Lines(p)' = Lines(p) /\ LastLine(p)' = LastLine(p)
         /\ \A p : Shaped(p)' = Shaped(p)
         /\ \A p : Holds(p)' = Holds(p)
<1>1. \A p : At(p)' = At(p) /\ Lines(p)' = Lines(p)
  BY Zenon DEF At, Lines
<1>2. \A p : LastLine(p)' = LastLine(p)
  BY <1>1 DEF LastLine
<1>3. \A p : Shaped(p)' = Shaped(p)
  BY <1>1, <1>2, Zenon DEF Shaped
<1>4. \A p : Holds(p)' = Holds(p)
  BY DEF Holds, At, Lines
<1> QED
  BY <1>1, <1>2, <1>3, <1>4, Zenon

\* All lines have their numbers.
LEMMA StartCutStep ==
  ASSUME BlocksInv, StartBlocks
  PROVE  BlocksInv'
<1>0. Len(diff_lines) \in Nat /\ line_idx \in 1 .. Len(diff_lines) + 1
  BY DEF BlocksInv, Numbered
<1>1. line_idx = Len(diff_lines) + 1
  BY <1>0 DEF StartBlocks
<1>2. Numbered'
  BY <1>1, NumberedSame, Zenon DEF BlocksInv, StartBlocks
<1>5. Begun /\ diff_pc' = "cut" /\ UNCHANGED <<diff, idx, prev_idx, diff_list>>
  BY Zenon DEF BlocksInv, Blocked, StartBlocks
<1>4. /\ \A p : At(p)' = At(p) /\ LastLine(p)' = LastLine(p)
      /\ \A p : Shaped(p)' = Shaped(p)
      /\ \A p : Holds(p)' = Holds(p)
  BY <1>5, BlocksSame
<1>6. Begun'
  <2>1. PICK v : v = prev_idx
    BY Zenon
  <2>2. Holds(prev_idx)'
    BY <1>4, <1>5, <2>1 DEF Begun
  <2> QED
    BY <1>4, <1>5, <2>2 DEF Begun
<1> QED
  BY <1>2, <1>4, <1>5, <1>6, Zenon DEF BlocksInv, Blocked

\* A changed line goes to the block at hand, or begins the next one.
LEMMA CutStep ==
  ASSUME BlocksInv, Cut
  PROVE  BlocksInv'
<1>1. /\ diff_pc = "cut" /\ diff_pc' = "cut"
      /\ UNCHANGED <<diff_lines, line_idx, original_line_number, modified_line_number, diff>>
      /\ idx' = idx + 1 /\ idx =< Len(diff)
  BY Zenon DEF Cut
<1>2. line_idx = Len(diff_lines) + 1 /\ Numbered /\ Blocked /\ Begun
  <2>1. diff_pc # "number" /\ diff_pc \in {"number", "cut"}
    BY <1>1
  <2> QED
    BY <2>1, Zenon DEF BlocksInv, Numbered, Blocked
<1>3. Numbered'
  BY <1>1, <1>2, NumberedSame
<1>4. PICK L \in Nat : L = Len(diff)
  BY <1>2 DEF Numbered
<1>5. PICK i \in Nat, v \in Nat \ {0} : i = idx /\ v = prev_idx /\ v < i /\ i =< L
  BY <1>1, <1>2, <1>4, Zenon DEF Blocked
<1>6. i \in 2 .. L /\ idx \in 2 .. Len(diff)
  BY <1>4, <1>5
<1>7. Continues <=> At(i) - At(i - 1) =< 2
  BY <1>2, <1>5, <1>6, ContinuesIff
<1>8. \A p : At(p)' = At(p)
  BY <1>1 DEF At
<1>9. CASE Continues
  <2>1. UNCHANGED <<diff_list, prev_idx>>
    BY <1>9 DEF Cut
  <2>2. \A b : Lines(b)' = Lines(b)
    BY <2>1 DEF Lines
  <2>3. \A b : LastLine(b)' = LastLine(b) /\ Shaped(b)' = Shaped(b)
    BY <2>2, Zenon DEF LastLine, Shaped
  <2>4. \A p \in v + 1 .. i : p =< L => At(p) - At(p - 1) =< 2
    <3> SUFFICES ASSUME NEW p \in v + 1 .. i, p =< L PROVE At(p) - At(p - 1) =< 2
      BY Zenon
    <3>1. p \in v + 1 .. i - 1 \/ p = i
      BY <1>5
    <3>2. CASE p = i
      BY <1>7, <1>9, <3>2
    <3>3. CASE p \in v + 1 .. i - 1
      BY <1>2, <1>4, <1>5, <3>3 DEF Begun
    <3> QED
      BY <3>1, <3>2, <3>3
  <2>5. Begun'
    <3>1. Holds(prev_idx)'
      <4>1. Holds(v) /\ Holds(v)' = Holds(v)
        BY <1>1, <1>2, <1>5, <2>1, BlocksSame, Zenon DEF Begun
      <4> QED
        BY <1>5, <2>1, <4>1
    <3>2. prev_idx' + 1 .. idx' - 1 = v + 1 .. i
      BY <1>1, <1>5, <2>1
    <3>3. \A p \in prev_idx' + 1 .. idx' - 1 : p =< Len(diff') => At(p)' - At(p - 1)' =< 2
      BY <1>1, <1>4, <1>8, <2>4, <3>2, Zenon
    <3>4. /\ diff_list' = << >> => prev_idx' = 1
          /\ diff_list' # << >> => /\ prev_idx' \in 2 .. Len(diff')
                                   /\ At(prev_idx)' - At(prev_idx - 1)' > 2
                                   /\ LastLine(Len(diff_list))' = At(prev_idx - 1)'
      BY <1>1, <1>2, <1>8, <2>1, <2>3 DEF Begun
    <3> QED
      BY <3>1, <3>3, <3>4 DEF Begun
  <2>6. \A b \in 1 .. Len(diff_list') : Shaped(b)'
    BY <1>2, <2>1, <2>3 DEF Blocked
  <2>7. /\ idx' \in Nat /\ prev_idx' \in Nat \ {0} /\ prev_idx' < idx'
        /\ idx' =< Len(diff') + 1 /\ Len(diff') > 0
    BY <1>1, <1>4, <1>5, <2>1
  <2>8. \E S : diff_list' \in Seq(S)
    BY <1>2, <2>1 DEF Blocked
  <2>9. Blocked'
    BY <1>1, <2>5, <2>6, <2>7, <2>8 DEF Blocked
  <2> QED
    BY <1>3, <2>9 DEF BlocksInv
<1>10. CASE ~ Continues
  <2>1. PICK last \in Nat : last = i - 1
    BY <1>5
  <2>2. last \in prev_idx .. Len(diff) /\ last =< idx - 1
    BY <1>4, <1>5, <2>1
  <2>3. /\ diff_list' = Append(diff_list, DiffBlock(prev_idx, last))
        /\ prev_idx' = i /\ diff' = diff
    BY <1>1, <1>5, <1>10, <2>1 DEF Cut
  <2>4. /\ \E S : diff_list' \in Seq(S)
        /\ Len(diff_list') = Len(diff_list) + 1
        /\ \A b \in 1 .. Len(diff_list') : Shaped(b)'
        /\ Holds(last + 1)'
        /\ LastLine(Len(diff_list))' = At(last)
    BY <1>2, <2>2, <2>3, AddBlock
  <2>5. last + 1 = i /\ i - 1 = last
    BY <1>5, <2>1
  <2>6. Begun'
    <3>1. Holds(prev_idx)'
      BY <2>3, <2>4, <2>5, Zenon DEF Holds
    <3>2. prev_idx' \in 2 .. Len(diff')
      BY <1>4, <1>6, <2>3
    <3>3. At(prev_idx)' = At(i) /\ At(prev_idx - 1)' = At(last)
      BY <1>8, <2>3, <2>5 DEF At
    <3>4. At(i) - At(last) > 2
      <4>0. i \in 1 .. Len(diff) /\ last \in 1 .. Len(diff)
        BY <1>4, <1>6, <2>1
      <4>1. At(i) \in Nat /\ At(last) \in Nat
        BY <1>2, <4>0 DEF Numbered
      <4> QED
        BY <1>7, <1>10, <2>5, <4>1
    <3>5. diff_list' # << >>
      <4>1. Len(diff_list) \in Nat
        BY <1>2 DEF Blocked
      <4> QED
        BY <2>4, <4>1
    <3>6. prev_idx' + 1 .. idx' - 1 = {}
      BY <1>1, <1>5, <2>3
    <3> QED
      BY <2>4, <3>1, <3>2, <3>3, <3>4, <3>5, <3>6, Zenon DEF Begun
  <2>7. /\ idx' \in Nat /\ prev_idx' \in Nat \ {0} /\ prev_idx' < idx'
        /\ idx' =< Len(diff') + 1 /\ Len(diff') > 0
    BY <1>1, <1>4, <1>5, <2>3
  <2>8. Blocked'
    BY <1>1, <2>4, <2>6, <2>7 DEF Blocked
  <2> QED
    BY <1>3, <2>8 DEF BlocksInv
<1> QED
  BY <1>9, <1>10

\* The last block is added.
LEMMA LastStep ==
  ASSUME BlocksInv, LastBlock
  PROVE  BlocksInv'
<1>1. /\ diff_pc = "cut"
      /\ UNCHANGED <<diff_lines, line_idx, original_line_number, modified_line_number, diff>>
      /\ UNCHANGED <<idx, prev_idx>>
      /\ idx > Len(diff)
  BY DEF LastBlock
<1>2. line_idx = Len(diff_lines) + 1 /\ Numbered /\ Blocked /\ Begun
  <2>1. diff_pc # "number" /\ diff_pc \in {"number", "cut"}
    BY <1>1
  <2> QED
    BY <2>1, Zenon DEF BlocksInv, Numbered, Blocked
<1>3. diff_pc' \in {"raised", "done"}
  BY Zenon DEF LastBlock
<1>4. Numbered'
  BY <1>1, <1>2, <1>3, NumberedSame
<1>5. CASE diff = << >>
  <2>1. diff_pc' = "raised" /\ diff_list' = diff_list
    BY <1>5 DEF LastBlock
  <2>2. \A b : Lines(b)' = Lines(b)
    BY <2>1, Zenon DEF Lines
  <2>3. \A b : Shaped(b)' = Shaped(b)
    BY <2>2, Zenon DEF LastLine, Shaped
  <2>4. Blocked'
    BY <1>1, <1>2, <2>1, <2>3 DEF Blocked
  <2> QED
    BY <1>4, <2>4 DEF BlocksInv
<1>6. CASE diff # << >>
  <2>0. PICK R : diff \in Seq(R)
    BY <1>2, Zenon DEF Numbered
  <2>1. PICK last \in Nat : last = Len(diff) /\ last > 0
    BY <1>6, <2>0
  <2>2. diff_pc' = "done" /\ diff_list' = Append(diff_list, DiffBlock(prev_idx, last))
    BY <1>6, <2>1 DEF LastBlock
  <2>3. last \in prev_idx .. Len(diff) /\ last =< idx - 1
    BY <1>1, <1>2, <2>1 DEF Blocked
  <2>4. /\ \E S : diff_list' \in Seq(S)
        /\ \A b \in 1 .. Len(diff_list') : Shaped(b)'
        /\ Holds(last + 1)'
    BY <1>1, <1>2, <2>2, <2>3, AddBlock
  <2>5. Holds(Len(diff) + 1)'
    BY <1>1, <2>1, <2>4, Zenon DEF Holds
  <2>6. Blocked'
    BY <1>1, <1>2, <2>2, <2>4, <2>5 DEF Blocked
  <2> QED
    BY <1>4, <2>6 DEF BlocksInv
<1> QED
  BY <1>5, <1>6

\* The blocks of a finished run are as they should be.
LEMMA BlocksFollow ==
  ASSUME BlocksInv
  PROVE  BlocksExact
<1> SUFFICES ASSUME diff_pc = "done"
             PROVE  /\ Changed
                         = UNION {{Lines(b)[k] : k \in DOMAIN Lines(b)} : b \in DOMAIN diff_list}
                    /\ \A b \in DOMAIN diff_list :
                         /\ Lines(b) # << >>
                         /\ \A k \in 2 .. Len(Lines(b)) :
                              Lines(b)[k] - Lines(b)[k - 1] \in {1, 2}
                         /\ b > 1 => Lines(b)[1] - LastLine(b - 1) > 2
  BY Zenon DEF BlocksExact
<1>1. PICK L \in Nat : L = Len(diff)
  BY DEF BlocksInv, Numbered
<1>2. line_idx = Len(diff_lines) + 1 /\ Len(diff_lines) \in Nat /\ DOMAIN diff_lines = 1 .. Len(diff_lines)
  BY DEF BlocksInv, Numbered
<1>3. Changed = {k \in 1 .. line_idx - 1 : diff_lines[k] \in {"removed", "added"}}
  BY <1>2 DEF Changed
<1>4. Changed = {At(p) : p \in 1 .. Len(diff)}
  BY <1>3, Zenon DEF BlocksInv, Numbered
<1>5. 1 .. (L + 1) - 1 = 1 .. L
  BY <1>1
<1>6. UNION {{Lines(b)[k] : k \in DOMAIN Lines(b)} : b \in DOMAIN diff_list}
        = {At(p) : p \in 1 .. L}
  BY <1>1, <1>5, Zenon DEF BlocksInv, Blocked, Holds
<1>7. \A b \in DOMAIN diff_list : Shaped(b)
  BY DEF BlocksInv, Blocked
<1> QED
  BY <1>1, <1>4, <1>6, <1>7, Zenon DEF Shaped

\* GitHelper.get_diff_blocks: when it returns, its blocks hold every changed
\* line of the file once and in order, and are cut exactly where two or more
\* other lines of ndiff lie between two changes, although the cut is decided
\* on line numbers that hints make drift.
THEOREM BlocksAreExact ==
  ASSUME DeltasAssumption
  PROVE  DiffSpec => []BlocksExact
<1>1. DiffInit => BlocksInv
  BY NumberedFirst
<1>2. BlocksInv /\ [DiffNext]_diff_vars => BlocksInv'
  <2> SUFFICES ASSUME BlocksInv, [DiffNext]_diff_vars PROVE BlocksInv'
    BY Zenon
  <2>1. CASE NumberLine
    BY <2>1, NumberStep
  <2>2. CASE StartBlocks
    BY <2>2, StartCutStep
  <2>3. CASE Cut
    BY <2>3, CutStep, Zenon
  <2>4. CASE LastBlock
    BY <2>4, LastStep, Zenon
  <2>5. CASE UNCHANGED diff_vars
    <3>1. /\ UNCHANGED <<diff_lines, line_idx, original_line_number, modified_line_number, diff>>
          /\ UNCHANGED <<idx, prev_idx, diff_list, diff_pc>>
      BY <2>5 DEF diff_vars
    <3>2. /\ \A p : At(p)' = At(p) /\ LastLine(p)' = LastLine(p)
          /\ \A p : Shaped(p)' = Shaped(p)
          /\ \A p : Holds(p)' = Holds(p)
      BY <3>1, BlocksSame
    <3>3. \A p : Spaced(p)' = Spaced(p)
      BY <3>1, <3>2, Zenon DEF Spaced
    <3>4. Numbered'
      BY <3>1, <3>2, <3>3, Zenon DEF BlocksInv, Numbered
    <3>5. PICK v, w : v = prev_idx /\ w = Len(diff) + 1
      BY Zenon
    <3>6. Begun => Begun'
      BY <3>1, <3>2, <3>5 DEF Begun
    <3>7. Blocked'
      BY <3>1, <3>2, <3>5, <3>6 DEF BlocksInv, Blocked
    <3> QED
      BY <3>4, <3>7 DEF BlocksInv
  <2> QED
    BY <2>1, <2>2, <2>3, <2>4, <2>5 DEF DiffNext
<1>3. BlocksInv => BlocksExact
  BY BlocksFollow, Zenon
<1> QED
  BY <1>1, <1>2, <1>3, PTL DEF DiffSpec
============================================================================
