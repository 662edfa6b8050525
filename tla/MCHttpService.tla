--------------------------- MODULE MCHttpService ---------------------------
(* Services that differ in what they find at their start. *)
EXTENDS HttpService

Found(enabled, data, yaml, env) ==
  [enabled |-> enabled, data |-> data, yaml |-> yaml, env |-> env]
MCSettings == {Found(TRUE, TRUE, NoSeed, NoSeed), Found(TRUE, TRUE, 7, 8),
               Found(TRUE, TRUE, 8, NoSeed), Found(TRUE, TRUE, NoSeed, Unparsable),
               Found(TRUE, FALSE, NoSeed, NoSeed), Found(FALSE, FALSE, NoSeed, NoSeed)}
=============================================================================
