--------------------------- MODULE MCModelProvider ---------------------------
(* ModelProvider for TLC: bodies that exercise every path of the decoder. *)
EXTENDS ModelProvider

MCPieces == {"text", "call1", "call2", "badcall", "junk"}

Text == <<"data", "text", "nl", "nl">>
TwoCalls == <<"data", "text", "nl", "cr", "nl", "data", "call1", "nl", "data", "call2", "nl", "nl">>
OneCall == <<"data", "call1", "nl", "nl", "data", "call1", "nl", "nl">>
BadCall == <<"data", "badcall", "nl", "nl">>
Unterminated == <<"data", "text", "nl", "nl", "data", "text">>
RawTailed == <<"data", "text", "nl", "nl", "nl", "data", "text">>
Json == <<"text">>
Silent == <<"junk", "nl", "nl", "data", "junk", "nl", "nl">>

MCBodies == {Text, TwoCalls, OneCall, BadCall, Unterminated, RawTailed, Json, Silent}
Item(id, use, tools) == [id |-> id, use |-> use, tools |-> tools]
Document(form, items) == [form |-> form, items |-> items]
MCDocuments ==
    {Document("garbage", {}),
     Document("bare", {}),
     Document("list", {Item("m", "chat", "no"), Item("n", "other", "yes")}),
     Document("list", {Item("m", "chat", "unsaid"), Item("m", "chat", "yes"),
                       Item("m", "broken", "no")})}
MCFewDocuments == {Document("bare", {}), Document("list", {})}

MCFewBodies == {Text, OneCall}

\* Servers that leave out the last blank line, the second after an event: line.
Named == <<"data", "text", "nl", "nl", "junk", "nl", "data", "text">>
MCOpenBodies == {Unterminated, Named}
=============================================================================
