------------------------------ MODULE Mapping ------------------------------
(***************************************************************************)
(* The body of a request to a provider (internal/adapter/mapping): a copy  *)
(* of the template, into which the rules of the model's configuration put  *)
(* the prompt, the parameters and the inputs of a task, one after the      *)
(* other.  A body is a JSON value too: <<"obj", f>> or <<"list", s>>.      *)
(*                                                                         *)
(* A path is a sequence of names; one that ends in [] has append = TRUE.   *)
(***************************************************************************)
EXTENDS Capability, TLC

Object(f) == <<"obj", f>>
List(s) == <<"list", s>>

Broken == <<"broken">>

\* stringify, of what is no list, object or address: numbers have a half at most.
StringOf(v) ==
    CASE v[1] = "text" -> v[2]
      [] v[1] = "bool" -> IF v[2] THEN "true" ELSE "false"
      [] v[1] = "num" ->
            LET size == IF v[2] < 0 THEN -v[2] ELSE v[2]
            IN  (IF v[2] < 0 THEN "-" ELSE "") \o ToString(size \div 2) \o (IF size % 2 = 0 THEN "" ELSE ".5")
      [] OTHER -> ""

\* math.Trunc.
Whole(n) == IF n < 0 THEN n + ((-n) % 2) ELSE n - (n % 2)

\* toNumber, for which neither null nor an empty text is a number.
CastNumber(v) == IF v \in {Nil, Text("")} THEN {} ELSE NumberOf(v)

----------------------------------------------------------------------------
(* Where a rule takes its values from.  A file is an address, or, inline,  *)
(* its bytes; their number is that of the files.                           *)

SourceValues(rule, task) ==
    IF "const" \in DOMAIN rule THEN <<rule.const>>
    ELSE CASE rule.from = "prompt" -> <<task.prompt>>
           [] rule.from = "params" -> <<ValueAt(task.params, rule.name)>>
           [] OTHER -> LET n == CountAt(task.files, rule.name)
                       IN  IF n = 0 THEN <<Nil>>
                           ELSE [i \in 1 .. n |-> IF rule.inline THEN <<"data", task.files[rule.name][i]>>
                                                  ELSE <<"url", task.files[rule.name][i]>>]

\* A mutant: what is false or zero counts as empty as well.
EmptyOrFalse(v) == v \in {Nil, Text(""), Bool(FALSE), Num(0)}

\* dropEmpty.
Empty(v) == v \in {Nil, Text(""), List(<<>>), Object(<<>>)}
DropEmpty(values) ==
    LET kept[n \in 0 .. Len(values)] ==
            IF n = 0 THEN <<>> ELSE IF Empty(values[n]) THEN kept[n - 1] ELSE Append(kept[n - 1], values[n])
    IN  kept[Len(values)]

OmitWhenEmpty(rule) == "omit_when_empty" \in DOMAIN rule => rule.omit_when_empty

\* applyCast: whatever else is printed is a text of its own.
Cast(rule, v) ==
    IF "cast" \notin DOMAIN rule THEN v
    ELSE CASE rule.cast = "string" -> IF Primitive(v) THEN Text(StringOf(v)) ELSE <<"printed", v>>
           [] rule.cast = "bool" ->
                CASE v = Nil -> Bool(FALSE)
                  [] v[1] = "text" -> IF v[2] \in {"1", "t", "T", "true", "True", "TRUE"} THEN Bool(TRUE)
                                      ELSE IF v[2] \in {"0", "f", "F", "false", "False", "FALSE"} THEN Bool(FALSE)
                                      ELSE Broken
                  [] OTHER -> IF NumberOf(v) = {} THEN Broken ELSE Bool(NumberOf(v) # {0})
           [] rule.cast \in {"int", "float", "seconds_suffix"} ->
                IF CastNumber(v) = {} THEN Broken
                ELSE LET n == CHOOSE x \in CastNumber(v) : TRUE
                     IN  CASE rule.cast = "int" -> Num(Whole(n))
                           [] rule.cast = "float" -> Num(n)
                           [] OTHER -> Text(StringOf(Num(n)) \o "s")
           [] OTHER -> Broken

\* applyValueMap, applyCast, applyWrap: a map has no addresses, lists or objects; a wrap
\* puts the value into an object of its own.
Transformed(rule, v) ==
    LET mapped == IF "value_map" \in DOMAIN rule /\ Primitive(v) /\ StringOf(v) \in DOMAIN rule.value_map
                  THEN rule.value_map[StringOf(v)] ELSE v
        cast == Cast(rule, mapped)
    IN  IF cast = Broken \/ "wrap" \notin DOMAIN rule THEN cast ELSE <<rule.wrap, cast>>

----------------------------------------------------------------------------
(* Where it puts them.                                                     *)

\* A segment that is a number: paths lead to the first two elements of a list only.
Index(seg) == IF seg = "0" THEN 1 ELSE IF seg = "1" THEN 2 ELSE 0

\* What is in a body along a path.
Child(node, seg) ==
    CASE node[1] = "obj" /\ seg \in DOMAIN node[2] -> node[2][seg]
      [] node[1] = "list" /\ Index(seg) \in DOMAIN node[2] -> node[2][Index(seg)]
      [] OTHER -> Nil
Walk(body, path) ==
    LET w[n \in 0 .. Len(path)] == IF n = 0 THEN body ELSE Child(w[n - 1], path[n])
    IN  w
Found(body, path) == Walk(body, path)[Len(path)]

\* descend: an object is made where an object has none; a list is entered at one of its
\* elements, and nothing can be set in one.
Enters(w, path, n) ==
    \/ w[n - 1][1] = "obj"
    \/ w[n - 1] = Nil /\ n > 1 /\ w[n - 2][1] # "list"
    \/ w[n - 1][1] = "list" /\ n < Len(path) /\ Index(path[n]) \in DOMAIN w[n - 1][2]

WithChild(node, seg, child) ==
    IF node[1] = "list" THEN List([node[2] EXCEPT ![Index(seg)] = child])
    ELSE LET names == IF node = Nil THEN {} ELSE DOMAIN node[2]
         IN  Object([k \in names \cup {seg} |-> IF k = seg THEN child ELSE node[2][k]])

AtEnd(node, values, append) ==
    IF ~append THEN values[1]
    ELSE CASE node = Nil -> List(values)
           [] node[1] = "list" -> List(node[2] \o values)
           [] OTHER -> Broken

\* setPath and appendPath: the end of the path is put in, and with it what is above it.
Put(body, path, values, append) ==
    LET w == Walk(body, path)
        end == AtEnd(w[Len(path)], values, append)
        up[n \in 0 .. Len(path)] ==
            IF n = 0 THEN end ELSE WithChild(w[Len(path) - n], path[Len(path) - n + 1], up[n - 1])
    IN  IF end = Broken \/ \E n \in 1 .. Len(path) : ~Enters(w, path, n) THEN Broken ELSE up[Len(path)]

\* applyRule.
ApplyRule(body, rule, task) ==
    LET when == EvalOptional(rule, "when", task.params, task.files)
        source == SourceValues(rule, task)
        values == IF OmitWhenEmpty(rule) THEN DropEmpty(source) ELSE source
        made == [i \in DOMAIN values |-> Transformed(rule, values[i])]
    IN  IF when = "error" THEN Broken
        ELSE IF when = "no" THEN body
        ELSE IF rule.to = <<>> THEN Broken
        ELSE IF values = <<>> THEN body
        ELSE IF (\E i \in DOMAIN made : made[i] = Broken) \/ (Len(made) > 1 /\ ~rule.append) THEN Broken
        ELSE Put(body, rule.to, made, rule.append)

\* Render.
Render(mapping, task) ==
    LET body[i \in 0 .. Len(mapping.rules)] ==
            IF i = 0 THEN mapping.template
            ELSE IF body[i - 1] = Broken THEN Broken
            ELSE ApplyRule(body[i - 1], mapping.rules[i], task)
    IN  body[Len(mapping.rules)]
=============================================================================
