------------------------------ MODULE MCOffer ------------------------------
(* Configurations for Offer: every kind of control, conditions on what is   *)
(* shown, on what is hidden and on files, every kind of price, slots that   *)
(* depend on each other, and mappings that set, append, cast and rename.    *)
EXTENDS Offer

X == Text("x")
Y == Text("y")

Eq(k, v) == <<[op |-> "eq", key |-> k, value |-> v]>>
Gt(k, n) == <<[op |-> "gt", key |-> k, value |-> Num(n)]>>
HasFile == <<[op |-> "has_input", slot |-> "ref"]>>
Of(op, places) == <<[op |-> op, of |-> places]>>

MCFirst == {
    [key |-> "a", control |-> "select", options |-> {X, Y}, disabled |-> {}, default |-> X],
    [key |-> "a", control |-> "select", options |-> {Num(2), Num(3)}, disabled |-> {Num(3)}, default |-> Num(2)],
    [key |-> "a", control |-> "stepper", min |-> 2, max |-> 5, step |-> 2, default |-> Num(2)],
    [key |-> "a", control |-> "slider", min |-> 0, max |-> 2, step |-> 1, default |-> Num(0)],
    [key |-> "a", control |-> "toggle", default |-> Bool(FALSE)],
    [key |-> "a", control |-> "seed", min |-> 0, max |-> 4, allow_random |-> TRUE, default |-> Nil],
    [key |-> "a", control |-> "seed", min |-> 0, max |-> 4, default |-> Num(2)],
    [key |-> "a", control |-> "textarea", max_length |-> 1, default |-> Text("")]}

Stepper == [key |-> "b", control |-> "stepper", min |-> 2, max |-> 6, step |-> 2, default |-> Num(2)]

When(spec, c) == [visible_when |-> c] @@ spec

MCSecond == {<<>>, <<Stepper>>} \cup
    {<<When(Stepper, c)>> : c \in {Eq("a", Y), Gt("a", 2), HasFile,
                                 Eq("a", X) \o Of("not", <<1>>),
                                 HasFile \o <<[op |-> "nin", key |-> "a", values |-> {X}]>> \o Of("and", <<1, 2>>),
                                 HasFile \o Gt("a", 0) \o Of("or", <<1, 2>>)}}

Switch == [key |-> "c", control |-> "toggle", default |-> Bool(TRUE)]

\* A compound in the third place and its field.
Group == [key |-> "g", control |-> "compound", default |-> Nil]
Field == [within |-> {3}] @@ Switch

MCThird == {<<>>, <<When(Switch, Eq("b", Num(4)))>>, <<Group, Field>>, <<When(Group, Eq("b", Num(2))), Field>>}

Price(base, modifiers, rounding) == [base |-> base, modifiers |-> modifiers, rounding |-> rounding]

MCPrices == {
    Price(1, <<>>, "ceil"),
    Price(3, <<[when |-> Eq("b", Num(4)), op |-> "mul", value |-> 3],
               [when |-> Gt("a", 0), op |-> "add", value |-> 1]>>, "round"),
    Price(1, <<[when |-> HasFile, op |-> "mul", value |-> 3], [when |-> Eq("c", Bool(TRUE)), op |-> "mul", value |-> 3]>>,
          "floor"),
    [multiplier_param |-> "b"] @@ Price(1, <<[when |-> Eq("a", Y), op |-> "mul", value |-> 3]>>, "ceil"),
    [multiplier_param |-> "a"] @@ Price(3, <<>>, "ceil")}

Slot(key, required, min, max) == [key |-> key, required |-> required, min_count |-> min, max_count |-> max]

MCInputs == {
    <<Slot("ref", FALSE, 0, 2)>>,
    <<Slot("ref", FALSE, 2, 2)>>,
    <<Slot("ref", TRUE, 1, 1), [requires_slot |-> "ref"] @@ Slot("last", FALSE, 0, 1)>>}

From(kind, name, to, append) ==
    [from |-> kind, name |-> name, to |-> to, append |-> append, inline |-> FALSE]

MCPlain == [template |-> Object([model |-> Nil]),
            rules |-> <<From("prompt", "", <<"prompt">>, FALSE), From("params", "a", <<"p", "a">>, FALSE),
                        From("params", "b", <<"p", "b">>, FALSE), From("params", "c", <<"p", "c">>, FALSE)>>]

MCMappings == {
    [template |-> Object([n |-> Num(2)]),
     rules |-> <<From("params", "a", <<"p", "a">>, FALSE),
                 [cast |-> "seconds_suffix"] @@ From("params", "b", <<"p", "b">>, FALSE),
                 [when |-> HasFile, const |-> Bool(TRUE)] @@ From("const", "", <<"p", "b">>, FALSE)>>],
    [template |-> Object([messages |-> List(<<Object([content |-> List(<<Text("hello")>>)])>>)]),
     rules |-> <<[wrap |-> "text_part"] @@ From("prompt", "", <<"messages", "0", "content">>, TRUE),
                 [wrap |-> "image_url_part", inline |-> TRUE]
                     @@ From("inputs", "ref", <<"messages", "0", "content">>, TRUE),
                 [cast |-> "string", value_map |-> ("true" :> Text("on")), omit_when_empty |-> FALSE]
                     @@ From("params", "a", <<"a">>, FALSE)>>],
    [template |-> Object(<<>>),
     rules |-> <<From("inputs", "ref", <<"image">>, FALSE), [cast |-> "int"] @@ From("params", "a", <<"n">>, FALSE),
                 From("inputs", "last", <<"image", "last">>, FALSE),
                 [cast |-> "bool"] @@ From("params", "b", <<"image">>, FALSE)>>]}

\* What these are written with.
MCLiterals ==
    {m.template : m \in MCMappings \cup {MCPlain}}
    \cup {Nil, Bool(TRUE), Num(2), Text("on"), Text("hello"), List(<<Text("hello")>>),
          Object([content |-> List(<<Text("hello")>>)]), List(<<Object([content |-> List(<<Text("hello")>>)])>>)}

Schema(first, second, third, pricing, inputs) ==
    [params |-> <<first>> \o second \o third, pricing |-> pricing, inputs |-> inputs]

\* What the administrator, or the user's choice of another model, may put in the place of a configuration.
MCRevisions == {
    [id |-> "m1", mapping |-> MCPlain,
     schema |-> Schema([key |-> "a", control |-> "toggle", default |-> Bool(TRUE)], <<Stepper>>, <<>>,
                       Price(2, <<[when |-> Eq("a", Bool(TRUE)), op |-> "mul", value |-> 3]>>, "ceil"),
                       <<Slot("ref", FALSE, 0, 1)>>)],
    [id |-> "m2", mapping |-> MCPlain,
     schema |-> Schema([key |-> "a", control |-> "stepper", min |-> 0, max |-> 4, step |-> 4, default |-> Num(0)],
                       <<>>, <<>>, Price(2, <<>>, "ceil"), <<Slot("ref", FALSE, 0, 1)>>)]}

Plainly(schema) == [id |-> "m1", schema |-> schema, mapping |-> MCPlain]

Optional == <<Slot("ref", FALSE, 0, 2)>>
Flat == Price(1, <<>>, "ceil")
Chosen == [key |-> "a", control |-> "select", options |-> {X, Y}, disabled |-> {}, default |-> X]

MCDrafts ==
    {Plainly(Schema(first, second, <<>>, Flat, Optional)) : first \in MCFirst, second \in MCSecond}
    \cup {Plainly(Schema(Chosen, <<When(Stepper, Eq("a", Y))>>, third, pricing, Optional)) :
            third \in MCThird, pricing \in MCPrices}
    \cup {Plainly(Schema(first, <<Stepper>>, <<>>, pricing, Optional)) : first \in MCFirst, pricing \in MCPrices}
    \cup {[id |-> "m1", schema |-> Schema(first, <<Stepper>>, <<>>, Flat, inputs), mapping |-> mapping] :
            first \in MCFirst, inputs \in MCInputs, mapping \in MCMappings}
    \cup MCRevisions

\* Texts and numbers a user may type.
MCTexts == {"", "x", "2"}
MCSeedNumbers == {1, 2, 6}
=============================================================================
