---------------------------- MODULE MCSnapshots -----------------------------
EXTENDS Snapshots, TLC
CONSTANTS server, mcp, spec, impl

(* Only the MCP server has commands for snapshots.                         *)
Asked == (server :> {"run"}) @@ (mcp :> {"snapshot", "restore"})
Alike == Permutations({spec, impl})
=============================================================================
