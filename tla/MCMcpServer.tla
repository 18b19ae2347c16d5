----------------------------- MODULE MCMcpServer -----------------------------
(* A client that sends four lines; two kinds of text in two places.          *)
EXTENDS McpServer

CONSTANTS a, b

ThreePaths == 1 .. 3
TheirContents == <<<<a, a>>, <<b>>, Broken>>

Line(tool, doc) == [tool |-> tool, doc |-> doc]
Cli(paths, lines) == [tool |-> "cli", paths |-> paths, lines |-> lines]

AnyCall ==
  {[tool |-> "garbage"], [tool |-> "notice"], Line("query", 1),
   [tool |-> "open", path |-> 1], [tool |-> "open", path |-> 2],
   [tool |-> "ws_open", entry |-> 2],
   Line("close", 1),
   [tool |-> "replace", doc |-> 1, find |-> a, to |-> b],
   [tool |-> "set_cell", doc |-> 1, cell |-> 2, text |-> b],
   [tool |-> "fill", doc |-> 2, keys |-> {1, 3}, text |-> b],
   [tool |-> "save", doc |-> 1, path |-> 2],
   Cli(TRUE, 0), Cli(FALSE, 0), Cli(TRUE, 3)}

FirstOpens == <<{[tool |-> "open", path |-> 1]}, AnyCall, AnyCall, AnyCall>>
=============================================================================
