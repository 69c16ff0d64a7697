---------------------------- MODULE MCPluginLoader ---------------------------
(* A bundled plugin and a slow one, each applied up to twice, and two       *)
(* requests in flight.                                                      *)
EXTENDS PluginLoader

CONSTANTS bundled, added

MCPlugins == {bundled, added}
MCSlow == {added}
=============================================================================
