---------------------------- MODULE MCToposort ----------------------------
(* All graphs of a few edges, among them loops and edges listed twice.     *)
EXTENDS Toposort

MCPairs == Ids \X Ids

\* Up to three different edges, and one edge of two copies beside another one.
MCEdgeLists ==
  {{<<p[1], p[2], 1>> : p \in {a, b, c}} : a, b, c \in MCPairs}
  \cup {{<<a[1], a[2], 1>>, <<a[1], a[2], 2>>, <<b[1], b[2], 1>>} : a, b \in MCPairs}
  \cup {{}}

===========================================================================
