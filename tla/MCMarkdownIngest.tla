-------------------------- MODULE MCMarkdownIngest --------------------------
(* Instances of MarkdownIngest for TLC: adapter 1 is the generic one with  *)
(* every file under its root; adapter 2 is the Obsidian one, whose vault   *)
(* is the first file and which does not accept its second version.         *)
EXTENDS MarkdownIngest

MCAdapterOf == [r \in Roots |-> IF r <= NAdapters THEN r ELSE NAdapters]
MCCovers == [r \in Roots |-> IF r = 1 THEN Docs ELSE {1}]
MCRejected == [a \in Adapters |-> IF a = 1 THEN {} ELSE {2}]
MCTooLarge == {<<2, 2>>}
=============================================================================
