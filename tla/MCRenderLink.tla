---------------------------- MODULE MCRenderLink ----------------------------
(* Small instances of RenderLink for TLC: one texture, vertex buffers. *)
EXTENDS RenderLink

CONSTANTS t, v, b1, b2, b3, b4, s1

SomeBlocks == Permutations(Blocks)
==============================================================================
