--------------------------- MODULE ModelCatalogue ---------------------------
(***************************************************************************)
(* The model listings of the providers' servers and what is read from      *)
(* them: parse_openrouter_model_catalog, parse_model_list.                 *)
(*                                                                         *)
(* A document is garbage (no JSON), bare (JSON without the list) or has a  *)
(* set of items.  An item has the id of a model, says what its model is    *)
(* for ("chat"; "other": embeddings, image to image, no generateContent;   *)
(* "broken": the id is missing) and whether it takes tools ("unsaid": no   *)
(* supported_parameters).  Names and descriptions are left out, and so is  *)
(* the order of the items: both parsers sort.                              *)
(***************************************************************************)
Forms == {"garbage", "bare", "list"}
Uses == {"chat", "other", "broken"}
Claims == {"yes", "no", "unsaid"}

\* parse_model_list() throws on a missing list or id; OpenRouter's parser skips
\* what it cannot use.
ReadableListing(kind, document) ==
    IF kind = "openrouter" THEN document.form # "garbage"
    ELSE document.form = "list" /\ \A item \in document.items : item.use # "broken"

\* The items that are listed.  DeepSeek's list says nothing of what a model is for.
Usable(kind, document) ==
    {item \in document.items : item.use = "chat" \/ (kind = "deepseek" /\ item.use = "other")}

\* ModelCapabilities::supports_tools
TakesTools(item) == item.tools # "no"

\* The tables an OpenRouter listing may leave behind: emplace() keeps the first
\* of several items of one id, and the sort before it is not stable.
Tables(document) ==
    LET usable == Usable("openrouter", document)
        ids == {item.id : item \in usable}
    IN {table \in [ids -> BOOLEAN] :
          \A id \in ids : \E item \in usable : item.id = id /\ table[id] = TakesTools(item)}

\* model_capabilities(model).supports_tools: a model that is not listed takes tools.
SupportsTools(table, model) == model \in DOMAIN table => table[model]
=============================================================================
