------------------------------ MODULE ProcessChain ------------------------------
(***************************************************************************)
(* internal/correlationengine/processchain.go: from the Sysmon rows of a   *)
(* window and of the hosts with a malicious row, who created and who       *)
(* touched whom, stored per host and handed to the LLM as evidence.  A     *)
(* window is processed once (tryStartWindow), so ON CONFLICT meets no row. *)
(* Process ids and the stats are left out.                                 *)
(***************************************************************************)
EXTENDS Naturals, Sequences, SequencesExt

CONSTANTS
  Host,        \* the hosts asked for, as a sequence without duplicates
  ChainRow,    \* rows: [host, id, from, to]; a GUID may be missing
  MaxRows      \* bound: rows of the window

ASSUME ChainAssumption ==
  /\ Host \in Seq(Range(Host)) /\ IsInjective(Host)
  /\ Host # <<>>      \* without hosts buildAndStoreProcessChains returns at once
  /\ \A r \in ChainRow : r.host \in Range(Host)
  /\ MaxRows \in Nat

VARIABLES
  rows,          \* rows of the query, by timestamp: that of a row is its position
  read,          \* how many of them the loop has handled
  byHost,        \* byHostCreation and byHostSourceTarget
  upserts,       \* upsertProcessChain calls still to make: <<host, chain type>>
  process_chain, \* the table: (host, chain type) -> chain_json
  evidence,      \* the trees buildAndStoreProcessChains returned
  outcome        \* "running", "returned" or "failed"

chainVars == <<rows, read, byHost, upserts, process_chain, evidence, outcome>>

ChainType == {"creation_tree", "source_target_tree"}
NoTree == [g \in {} |-> {}]
NoTrees == [h \in Range(Host) |-> [c \in ChainType |-> NoTree]]
NotStored == [g \in {"none"} |-> {}]

\* How a GUID that the row lacks reads.
NoGuid == ""

appendUnique(items, v) == IF v = NoGuid \/ v \in Range(items) THEN items ELSE Append(items, v)

\* Node g, new or known, is seen at a time; other joins the nodes on its side.
Mention(tree, g, time, side, other) ==
  LET node == IF g \in DOMAIN tree THEN tree[g] ELSE [last_seen |-> time, up |-> <<>>, down |-> <<>>]
      seen == IF time > node.last_seen THEN [node EXCEPT !.last_seen = time] ELSE node
  IN  IF g = NoGuid THEN tree
      ELSE [x \in DOMAIN tree \cup {g} |->
              IF x = g THEN [seen EXCEPT ![side] = appendUnique(@, other)] ELSE tree[x]]

\* Events other than 1, 8 and 10 carry their process only, 8 and 10 no process.
processCreationEvent(tree, r, time) ==
  LET isCreate == r.id = "1"
      pg == IF r.id \in {"8", "10"} THEN NoGuid ELSE r.to
      parent == IF isCreate THEN r.from ELSE NoGuid
  IN  Mention(Mention(tree, pg, time, "up", parent), parent, time, "down", pg)

processSourceTargetEvent(tree, r, time) ==
  IF r.id \notin {"8", "10"} THEN tree
  ELSE Mention(Mention(tree, r.from, time, "down", r.to), r.to, time, "up", r.from)

\* For each host its creation tree, then its source-target tree.
Upserts ==
  [k \in 1..2 * Len(Host) |->
     <<Host[(k + 1) \div 2], IF k % 2 = 1 THEN "creation_tree" ELSE "source_target_tree">>]

Start ==
  /\ read = 0
  /\ byHost = NoTrees
  /\ upserts = Upserts
  /\ process_chain = [h \in Range(Host) |-> [c \in ChainType |-> NotStored]]
  /\ evidence = NoTrees
  /\ outcome = "running"

ChainInit == rows \in UNION {[1..n -> ChainRow] : n \in 0..MaxRows} /\ Start

HandleRow ==
  /\ read < Len(rows)
  /\ read' = read + 1
  /\ LET r == rows[read + 1]
     IN  byHost' = [byHost EXCEPT
                      ![r.host]["creation_tree"] = processCreationEvent(@, r, read + 1),
                      ![r.host]["source_target_tree"] = processSourceTargetEvent(@, r, read + 1)]
  /\ UNCHANGED <<rows, upserts, process_chain, evidence, outcome>>

Upserting == read = Len(rows) /\ outcome = "running"

\* After the last one the trees are returned.
upsertProcessChain ==
  /\ Upserting
  /\ LET next == Head(upserts)
     IN  process_chain' = [process_chain EXCEPT ![next[1]][next[2]] = byHost[next[1]][next[2]]]
  /\ upserts' = Tail(upserts)
  /\ IF Len(upserts) = 1 THEN evidence' = byHost /\ outcome' = "returned" ELSE UNCHANGED <<evidence, outcome>>
  /\ UNCHANGED <<rows, read, byHost>>

\* Mutant of UpsertFails: the failed chain is skipped.
UpsertFailsContinues ==
  /\ Upserting
  /\ upserts' = Tail(upserts)
  /\ IF Len(upserts) = 1 THEN evidence' = byHost /\ outcome' = "returned" ELSE UNCHANGED <<evidence, outcome>>
  /\ UNCHANGED <<rows, read, byHost, process_chain>>

\* The first failure returns no evidence; the window goes on without it.
UpsertFails ==
  /\ Upserting
  /\ outcome' = "failed"
  /\ UNCHANGED <<rows, read, byHost, upserts, process_chain, evidence>>

ChainNext == HandleRow \/ upsertProcessChain \/ UpsertFails

----------------------------------------------------------------------------
(* Properties *)

Guid == {r.from : r \in ChainRow} \cup {r.to : r \in ChainRow}

\* Whom a row names for a tree, and from whom to whom it shows an edge there.
Names(r, c, g) ==
  /\ g # NoGuid
  /\ \/ c = "creation_tree" /\ r.id \notin {"8", "10"} /\ r.to = g
     \/ c = "creation_tree" /\ r.id = "1" /\ r.from = g
     \/ c = "source_target_tree" /\ r.id \in {"8", "10"} /\ g \in {r.from, r.to}
Links(r, c, from, to) ==
  /\ from # NoGuid /\ to # NoGuid /\ r.from = from /\ r.to = to
  /\ r.id \in IF c = "creation_tree" THEN {"1"} ELSE {"8", "10"}

\* A tree whose nodes are the GUIDs the host's rows name, each last seen at the last such
\* row, and in which an edge stands at both its ends, once, exactly where a row shows it.
TreeOfRows(tree, h, c) ==
  LET Naming(g) == {i \in DOMAIN rows : rows[i].host = h /\ Names(rows[i], c, g)}
      Linked(x, o) == \E i \in DOMAIN rows : rows[i].host = h /\ Links(rows[i], c, x, o)
  IN  /\ DOMAIN tree = {g \in Guid : Naming(g) # {}}
      /\ \A g \in DOMAIN tree :
           /\ tree[g].last_seen \in Naming(g) /\ \A i \in Naming(g) : i <= tree[g].last_seen
           /\ IsInjective(tree[g].down) /\ Range(tree[g].down) = {o \in Guid : Linked(g, o)}
           /\ IsInjective(tree[g].up) /\ Range(tree[g].up) = {o \in Guid : Linked(o, g)}

\* The "GUID lineage" prompt.go:13 asks the LLM to cite is exactly what the rows of the
\* window show of each host, and what process_chain holds: a chain that could not be
\* stored is never shown to it.
TreesMatchRows ==
  outcome = "returned" =>
    /\ evidence = process_chain
    /\ \A h \in Range(Host), c \in ChainType : TreeOfRows(evidence[h][c], h, c)
=============================================================================
