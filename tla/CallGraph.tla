----------------------------- MODULE CallGraph -----------------------------
(***************************************************************************)
(* One CallGraph object: liebes/CallGraph.py ("cg" format, the graphs of   *)
(* the kernel and of a test) and liebes/Glibc_CG.py ("glibc" format).      *)
(* Both classes keep a node map with the edges of every function in two    *)
(* lists: node.caller holds the functions that the traversals follow, and  *)
(* node.callee the mirrored edges.  load_from_source adds a file of edges  *)
(* to the object; an object may be loaded again (KERNEL_CG is, once per    *)
(* kernel version).  get_all_call, get_ground_func and get_syscall walk    *)
(* the graph from a root with an explicit stack.                           *)
(*                                                                         *)
(* A file is a sequence of entries [func, callers].  In "cg" format an     *)
(* entry lists all edges of its function; in "glibc" format one line gives *)
(* at most one edge.                                                       *)
(***************************************************************************)
EXTENDS Naturals, Sequences, SequencesExt

CONSTANTS
  Func,          \* function names
  CgFiles,       \* files in "cg" format: sequences of entries
  GlibcFiles,    \* files in "glibc" format
  Syscall        \* syscall_list

Entry == [func : Func, callers : Seq(Func)]

ASSUME FilesAssumption ==
  /\ CgFiles \subseteq Seq(Entry)
  /\ GlibcFiles \subseteq Seq(Entry)

VARIABLES
  format,        \* which of the two classes the object belongs to
  node_map,      \* names with a node
  caller,        \* name -> list of names, the edges the traversals follow
  callee,        \* name -> set of names, the mirrored edges
  src,           \* the file loaded last
  next,          \* position in src of the entry load_from_source handles next
  query,         \* the last traversal: its method and its root
  stack,         \* the traversal's stack
  visited_set,   \* the traversal's visited set
  found,         \* ground_func_set or syscall_set
  result,        \* what the last traversal returned
  graph_pc       \* "idle", "load", "walk" or "raised"

graph == <<format, node_map, caller, callee>>
walk == <<query, stack, visited_set, found, result>>
graph_vars == <<graph, src, next, walk, graph_pc>>

Methods == IF format = "cg" THEN {"get_all_call", "get_ground_func"}
                            ELSE {"get_syscall"}

-----------------------------------------------------------------------------
GraphInit ==
  /\ format \in {"cg", "glibc"}
  /\ node_map = {}
  /\ caller = [f \in Func |-> << >>]
  /\ callee = [f \in Func |-> {}]
  /\ src = << >>
  /\ next = 1
  /\ query = [method |-> "none"]
  /\ stack = << >>
  /\ visited_set = {}
  /\ found = {}
  /\ result = {}
  /\ graph_pc = "idle"

\* A "glibc" object is loaded by its constructor only.
load_from_source(file) ==
  /\ graph_pc = "idle"
  /\ \/ format = "cg" /\ file \in CgFiles
     \/ format = "glibc" /\ file \in GlibcFiles /\ src = << >>
  /\ src' = file
  /\ next' = 1
  /\ graph_pc' = "load"
  /\ query' = [method |-> "none"]
  /\ result' = {}
  /\ UNCHANGED <<graph, stack, visited_set, found>>

\* Mutants of LoadEntry: the mirrored edges are forgotten, a later entry
\* extends the edges.
LoadEntry_NoMirror ==
  /\ graph_pc = "load"
  /\ next <= Len(src)
  /\ LET f  == src[next].func
         cs == src[next].callers
     IN  /\ node_map' = node_map \cup {f} \cup ToSet(cs)
         /\ caller' = [caller EXCEPT ![f] = IF format = "cg" THEN cs ELSE @ \o cs]
         /\ UNCHANGED callee
  /\ next' = next + 1
  /\ UNCHANGED <<format, src, walk, graph_pc>>

LoadEntry_Extends ==
  /\ graph_pc = "load"
  /\ next <= Len(src)
  /\ LET f  == src[next].func
         cs == src[next].callers
     IN  /\ node_map' = node_map \cup {f} \cup ToSet(cs)
         /\ caller' = [caller EXCEPT ![f] = @ \o cs]
         /\ callee' = [g \in Func |-> IF g \in ToSet(cs) THEN callee[g] \cup {f}
                                                         ELSE callee[g]]
  /\ next' = next + 1
  /\ UNCHANGED <<format, src, walk, graph_pc>>

\* One entry: "cg" replaces the edges of the function, "glibc" adds one.
LoadEntry ==
  /\ graph_pc = "load"
  /\ next <= Len(src)
  /\ LET f  == src[next].func
         cs == src[next].callers
     IN  /\ node_map' = node_map \cup {f} \cup ToSet(cs)
         /\ caller' = [caller EXCEPT ![f] = IF format = "cg" THEN cs ELSE @ \o cs]
         /\ callee' = [g \in Func |-> IF g \in ToSet(cs) THEN callee[g] \cup {f}
                                                         ELSE callee[g]]
  /\ next' = next + 1
  /\ UNCHANGED <<format, src, walk, graph_pc>>

Loaded ==
  /\ graph_pc = "load"
  /\ next > Len(src)
  /\ graph_pc' = "idle"
  /\ UNCHANGED <<graph, src, next, walk>>

-----------------------------------------------------------------------------
\* A traversal starts from a root that has a node; get_all_call and
\* get_syscall return the empty set for one that has none, get_ground_func
\* pushes None and fails on its first attribute access.
StartWalk(method, root) ==
  /\ graph_pc = "idle"
  /\ method \in Methods
  /\ root \in node_map
  /\ query' = [method |-> method, root |-> root]
  /\ stack' = <<root>>
  /\ visited_set' = {}
  /\ found' = {}
  /\ graph_pc' = "walk"
  /\ UNCHANGED <<graph, src, next, result>>

NoRoot(method, root) ==
  /\ graph_pc = "idle"
  /\ method \in Methods
  /\ root \notin node_map
  /\ query' = [method |-> method, root |-> root]
  /\ result' = {}
  /\ graph_pc' = IF method = "get_ground_func" THEN "raised" ELSE "idle"
  /\ UNCHANGED <<graph, src, next, stack, visited_set, found>>

\* What a method notes about a node it sees for the first time.
Notes(n) ==
  CASE query.method = "get_all_call"    -> {n}
    [] query.method = "get_ground_func" -> IF caller[n] = << >> THEN {n} ELSE {}
    [] query.method = "get_syscall"     -> {n} \cap Syscall

\* Mutants of Visit: the walk stops at a function it notes; no visited check.
Visit_StopsAtNoted ==
  /\ graph_pc = "walk"
  /\ stack # << >>
  /\ LET cur_node == Last(stack)
     IN  /\ visited_set' = visited_set \cup {cur_node}
         /\ found' = found \cup Notes(cur_node)
         /\ stack' = IF cur_node \in visited_set \/ Notes(cur_node) # {}
                     THEN Front(stack) ELSE Front(stack) \o caller[cur_node]
  /\ UNCHANGED <<graph, src, next, query, result, graph_pc>>

Visit_Unchecked ==
  /\ graph_pc = "walk"
  /\ stack # << >>
  /\ visited_set' = visited_set \cup {Last(stack)}
  /\ found' = found \cup Notes(Last(stack))
  /\ stack' = Front(stack) \o caller[Last(stack)]
  /\ UNCHANGED <<graph, src, next, query, result, graph_pc>>

Visit ==
  /\ graph_pc = "walk"
  /\ stack # << >>
  /\ LET cur_node == Last(stack)
     IN  IF cur_node \in visited_set
         THEN /\ stack' = Front(stack)
              /\ UNCHANGED <<visited_set, found>>
         ELSE /\ visited_set' = visited_set \cup {cur_node}
              /\ found' = found \cup Notes(cur_node)
              /\ stack' = Front(stack) \o caller[cur_node]
  /\ UNCHANGED <<graph, src, next, query, result, graph_pc>>

ReturnWalk ==
  /\ graph_pc = "walk"
  /\ stack = << >>
  /\ result' = found
  /\ graph_pc' = "idle"
  /\ UNCHANGED <<graph, src, next, query, stack, visited_set, found>>

GraphNext ==
  \/ \E file \in CgFiles \cup GlibcFiles : load_from_source(file)
  \/ LoadEntry
  \/ Loaded
  \/ \E root \in Func, m \in Methods : StartWalk(m, root) \/ NoRoot(m, root)
  \/ Visit
  \/ ReturnWalk

\* A call runs until it returns; nobody is bound to make another call.
GraphSpec ==
  /\ GraphInit /\ [][GraphNext]_graph_vars
  /\ WF_graph_vars(LoadEntry \/ Loaded \/ Visit \/ ReturnWalk)

-----------------------------------------------------------------------------
\* Types of the node map, of the loader and of the traversal.
TypeOK ==
  /\ format \in {"cg", "glibc"}
  /\ node_map \subseteq Func
  /\ caller \in [Func -> Seq(Func)]
  /\ callee \in [Func -> SUBSET Func]
  /\ src \in Seq(Entry)
  /\ next \in 1 .. Len(src) + 1
  /\ query \in [method : {"none"}]
             \cup [method : {"get_all_call", "get_ground_func", "get_syscall"},
                   root : Func]
  /\ stack \in Seq(Func)
  /\ visited_set \subseteq Func
  /\ found \subseteq Func
  /\ result \subseteq Func
  /\ graph_pc \in {"idle", "load", "walk", "raised"}

\* The functions reachable from root along node.caller: the least set that
\* contains root and is closed under the edges.
Closed(S) == \A f \in S : ToSet(caller[f]) \subseteq S
Reach(root) ==
  {n \in Func : \A S \in SUBSET Func : root \in S /\ Closed(S) => n \in S}

\* What the methods are for: all functions reachable from the root, those of
\* them without further edges, and those of them that are system calls.
Answer ==
  IF query.root \notin node_map THEN {}
  ELSE CASE query.method = "get_all_call"    -> Reach(query.root)
         [] query.method = "get_ground_func" ->
              {n \in Reach(query.root) : caller[n] = << >>}
         [] query.method = "get_syscall"     -> Reach(query.root) \cap Syscall

\* The stack loops of get_all_call, get_ground_func and get_syscall return
\* exactly the reachable functions they are asked for, on every graph,
\* cyclic ones and ones with repeated edges included.
ResultExact ==
  graph_pc = "idle" /\ query.method # "none" => result = Answer

\* The two edge lists stay mirrored: whatever a traversal can follow from f to
\* g is recorded at g, so get_top_func never takes a called function for a
\* top one.  (The converse fails after a reload: stale callee edges remain.)
EdgesMirrored ==
  \A f \in Func : \A g \in ToSet(caller[f]) : f \in callee[g]

\* Edges lead to functions that have a node, also between two entries of a
\* file: a walk never leaves node_map.
EdgesKnown ==
  \A f \in Func : ToSet(caller[f]) \cup callee[f] \subseteq node_map

\* Loading a further "cg" file (the next kernel version) makes its entries
\* win: each function it defines has exactly the edges of its last entry,
\* whatever was loaded before.
LatestWins ==
  format = "cg" =>
    \A i \in 1 .. next - 1 :
      (\A j \in i + 1 .. next - 1 : src[j].func # src[i].func)
        => caller[src[i].func] = src[i].callers

\* The traversals return although cycles keep pushing visited nodes.
WalkReturns == graph_pc = "walk" ~> graph_pc = "idle"
=============================================================================
