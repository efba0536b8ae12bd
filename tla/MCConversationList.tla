-------------------------- MODULE MCConversationList --------------------------
(* Three conversations and pages of one or two: a walk has up to three pages, *)
(* and a page can end inside the pinned part, at its end and after it.        *)
EXTENDS ConversationList

MCConvs == 1 .. 3
MCLimits == 1 .. 2
MCPins == {change \in Changes : change.archived = "keep"}
===============================================================================
