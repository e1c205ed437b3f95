-------------------------------- MODULE Vfs ---------------------------------
(***************************************************************************)
(* The virtual file system of pos-kernel (vfs/vfs.cpp): the tree of nodes, *)
(* found by walking a path from the root, and the queue of events that the *)
(* main loop of the kernel serves.  A node is numbered by its uid, the     *)
(* count of nodes when it was made; the list of children is a sequence.    *)
(* Only what the kernel calls is here: no node is ever removed.            *)
(***************************************************************************)
EXTENDS Integers, Sequences, FiniteSets, SequencesExt

VARIABLES
    nodes,    \* g_vfs.root and everything below it: uid -> node_t
    events    \* queue_head .. queue_tail

vfsVars == <<nodes, events>>

ROOT == 0
ENONODE == -1
EVENT_DEVICE_ADD == 1

\* node_t: a name is a word and maybe a number, `dir` is NODE_DIRECTORY, `hint`
\* the driver_uid, `data` the device.
BlankNode == [name |-> <<"">>, dir |-> TRUE, hint |-> 0, data |-> <<>>, parent |-> ROOT, children |-> <<>>]

make_node(name, dir, hint, data) ==
    [BlankNode EXCEPT !.name = name, !.dir = dir, !.hint = hint, !.data = data]

vfs_init == [n \in {ROOT} |-> BlankNode]

node_count(ns) == Cardinality(DOMAIN ns)

\* The first child of that name, which may be none.
Child(ns, dir, name) ==
    LET list == ns[dir].children
        found == {i \in DOMAIN list : ns[list[i]].name = name}
    IN  IF found = {} THEN ENONODE ELSE list[Min(found)]

\* A path is the sequence of its names: walk_path skips the slashes.
walk_path(ns, path) ==
    LET after[i \in 0..Len(path)] ==
          IF i = 0 THEN ROOT
          ELSE IF after[i - 1] = ENONODE THEN ENONODE ELSE Child(ns, after[i - 1], path[i])
    IN  after[Len(path)]

\* init_child and add_child: the next uid, at the end of its parent's list.
add_child(ns, dir, node) ==
    LET uid == node_count(ns)
    IN  [n \in DOMAIN ns \cup {uid} |->
            IF n = uid THEN [node EXCEPT !.parent = dir]
            ELSE IF n = dir THEN [ns[n] EXCEPT !.children = Append(@, uid)]
            ELSE ns[n]]

\* add_vnode: nothing happens when the path is not a directory.
add_vnode(ns, path, node) ==
    LET dir == walk_path(ns, path)
    IN  IF dir # ENONODE /\ ns[dir].dir THEN add_child(ns, dir, node) ELSE ns

\* Mutant: the event is put in front of the queue.
Seed_add_event(q, e) == <<e>> \o q

\* add_event links to the tail, pop_event takes the head.  The code reads the next
\* link from the one it has just deleted, where the free of this heap leaves it.
add_event(q, e) == Append(q, e)
pop_event(q) == Tail(q)

\* add_dnode: the node, and the event that tells of it.
add_dnode(path, node) ==
    /\ nodes' = add_vnode(nodes, path, node)
    /\ events' = IF nodes' = nodes THEN events
                 ELSE add_event(events, [flags |-> EVENT_DEVICE_ADD, hint |-> node.hint,
                                         node |-> node_count(nodes)])

Devices(ns) == {n \in DOMAIN ns : ~ns[n].dir}
=============================================================================
