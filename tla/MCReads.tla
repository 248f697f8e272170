------------------------------- MODULE MCReads -------------------------------
(***************************************************************************)
(* Three versions, the last a pre-release; the first two have the same     *)
(* SKILL.md, and their bundles differ or do not.  Clients read two things  *)
(* in turn, over HTTP or in every era of MCP, some through a proxy that    *)
(* drops or sets a header, a batching library or a page of another site.   *)
(***************************************************************************)
EXTENDS Reads

Distinct == [v \in Versions |-> v]
Repacked == [v \in Versions |-> IF v = 3 THEN 3 ELSE 1]
MCHash == [v \in Versions |-> IF v = 3 THEN 3 ELSE 1]

Get(kind, path) == [kind |-> kind, path |-> path]
MCResources == {Get("metadata", None), Get("metadata", 1), Get("bundle", None),
                Get("file", None), Get("skill", None), Get("resource", None)}

Client(speaks, opens, alters) ==
  [speaks |-> speaks, opens |-> opens, alters |-> alters,
   asks |-> {Get("skill", None), Get("resource", None)}]

Dropped == [header |-> NoVersion]

MCClients ==
  {[Client({}, "rest", <<>>) EXCEPT !.asks = asks] :
     asks \in {{Get("metadata", None), Get("metadata", 1)},
               {Get("metadata", None), Get("bundle", None)},
               {Get("bundle", None), Get("file", None)}}}
  \cup {Client(speaks, opens, alters) :
          speaks \in {{1}, {2}, {1, 3}, {4}, {5}, {6}, {3, 5}, {1, 5}, {4, 6}, {2, 6}, {3, 5, 6}},
          opens \in {"discover", "initialize"},
          alters \in {<<>>, Dropped}}
  \cup {Client(speaks, "discover", alters) :
          speaks \in {{2}, {2, 5}},
          alters \in {[header |-> Modern], [form |-> "batch"], [origin |-> "foreign"],
                      [methodHeader |-> "differs"], [nameHeader |-> "differs"],
                      [capabilities |-> FALSE]}}
=============================================================================
