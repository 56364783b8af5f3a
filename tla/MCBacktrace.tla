---------------------------- MODULE MCBacktrace ----------------------------
EXTENDS Backtrace

(* The two call sites: signalsHandler skips 2+1 and 2, captureException   *)
(* skips 6 and 2.                                                          *)
MCSkipPairs == {<<3, 2>>, <<6, 2>>}

(* A source path, and no file; a plain name, a demangled name with a      *)
(* space, and no name; one address (0x5d).                                 *)
MCPaths == {<<"/", "s", "/", "a", ".", "c">>, <<>>}
MCNames == {<<"f">>, <<"g", "(", "a", ",", " ", "b", ")">>, <<>>}
MCAddrs == {93}
=============================================================================
