--------------------------- MODULE MCConversation ---------------------------
\* Small instances of Conversation for TLC.
EXTENDS Conversation, TLC

At(f, g, v) == [field |-> f, group |-> g, value |-> v]

\* "Hotel", with the goal "from Paris to Rome": made from a draft or by the model.
MCHotel == {At("goal", "origin", "paris"), At("goal", "destination", "rome")}
MCDraftTasks == <<MCHotel>>
MCContents == {MCHotel}
MCNotes == {At("note", "destination", "paris")}

\* "to Rome" (a value the hotel has already) and "change Paris to Oslo".
MCCorrections == {[old |-> "none", group |-> "destination", new |-> "rome"],
                  [old |-> "paris", group |-> "none", new |-> "oslo"]}
=============================================================================
