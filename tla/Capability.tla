----------------------------- MODULE Capability -----------------------------
(***************************************************************************)
(* What a model can do, as its configuration declares it, and what the     *)
(* server makes of a submission (internal/capability): conditions          *)
(* (evaluator.go), the check of a schema before it is stored               *)
(* (validate_schema.go), the check of a submission (validator.go) and its  *)
(* price (pricer.go).                                                      *)
(*                                                                         *)
(* A JSON value is <<"nil">>, <<"bool", b>>, <<"num", n>>, <<"text", s>>   *)
(* or, what a file is to a request, <<"file", f>>.  Numbers are counted in *)
(* halves, so that <<"num", 3>> is 1.5.  A schema, a parameter, a slot and *)
(* a modifier are records with the fields the JSON has: one that is left   *)
(* out is not in the DOMAIN.  Labels, hints, groups, units and templates,  *)
(* which only the page shows, are left out.                                *)
(*                                                                         *)
(* What is nested in JSON is listed here, in the order a walk through it   *)
(* ends or begins.  A condition is the sequence of all conditions in it,   *)
(* each after those it is made of, whose places are in its "of"; the last  *)
(* is the condition itself.  The parameters of a schema are listed with    *)
(* the compounds and their fields, each compound before its fields; what   *)
(* compounds a parameter is in, their places, is in its "within".          *)
(***************************************************************************)
EXTENDS Integers, FiniteSets, Sequences

Nil == <<"nil">>
Bool(b) == <<"bool", b>>
Num(n) == <<"num", n>>
Text(s) == <<"text", s>>

\* Number("...") and ParseFloat of the texts of a model: "2" stands for those that are numbers.
TextNumbers(s) == IF s = "" THEN {0} ELSE IF s = "2" THEN {4} ELSE {}

\* numberOf: no number, or one.
NumberOf(v) ==
    CASE v[1] = "nil" -> {0}
      [] v[1] = "bool" -> {IF v[2] THEN 2 ELSE 0}
      [] v[1] = "num" -> {v[2]}
      [] v[1] = "text" -> TextNumbers(v[2])
      [] OTHER -> {}

\* params[key] of a Go map: what is not there is nil.
ValueAt(params, key) == IF key \in DOMAIN params THEN params[key] ELSE Nil

CountAt(files, slot) == IF slot \in DOMAIN files THEN Len(files[slot]) ELSE 0

Yes(b) == IF b THEN "yes" ELSE "no"

Compared(n, op, threshold) == IF op = "gt" THEN n > threshold ELSE n < threshold

\* and / or stop at the first condition that decides.
Decided(c, inner, go) ==
    LET stops == {i \in DOMAIN c.of : inner[c.of[i]] # go}
    IN  IF stops = {} THEN go ELSE inner[c.of[CHOOSE i \in stops : \A j \in stops : i <= j]]

\* What a condition says, "yes", "no" or "error", when inner is what the ones in it say.
Verdict(c, inner, params, files) ==
    CASE c.op = "eq" -> Yes(ValueAt(params, c.key) = c.value)
      [] c.op = "ne" -> Yes(ValueAt(params, c.key) # c.value)
      [] c.op \in {"gt", "lt"} ->
            LET n == NumberOf(ValueAt(params, c.key))
            IN  IF n = {} THEN "error" ELSE Yes(\E x \in n : Compared(x, c.op, c.value[2]))
      [] c.op = "in" -> Yes(ValueAt(params, c.key) \in c.values)
      [] c.op = "nin" -> Yes(ValueAt(params, c.key) \notin c.values)
      [] c.op = "has_input" -> Yes(CountAt(files, c.slot) > 0)
      [] c.op = "and" -> Decided(c, inner, "yes")
      [] c.op = "or" -> Decided(c, inner, "no")
      [] c.op = "not" ->
            CASE inner[c.of[1]] = "yes" -> "no" [] inner[c.of[1]] = "no" -> "yes" [] OTHER -> "error"
      [] OTHER -> "error"

\* Evaluator.Eval.
Verdicts(c, params, files) ==
    LET v[n \in 0 .. Len(c)] == IF n = 0 THEN <<>> ELSE Append(v[n - 1], Verdict(c[n], v[n - 1], params, files))
    IN  v
Eval(c, params, files) == Verdicts(c, params, files)[Len(c)][Len(c)]

\* EvalOptional: no condition always holds.
EvalOptional(r, field, params, files) ==
    IF field \in DOMAIN r THEN Eval(r[field], params, files) ELSE "yes"

\* LeafParams: a compound stands for its fields; what the compound itself is shown for is not looked at.
LeafParams(specs) == {i \in DOMAIN specs : specs[i].control # "compound"}
LeafKeys(specs) == {specs[i].key : i \in LeafParams(specs)}

Around(spec) == IF "within" \in DOMAIN spec THEN spec.within ELSE {}

Keys(specs) == {specs[i].key : i \in DOMAIN specs}

----------------------------------------------------------------------------
(* validator.go.                                                           *)

\* checkNumeric.
NumericFits(spec, v, whole) ==
    /\ v[1] = "num"
    /\ spec.min <= v[2] /\ v[2] <= spec.max
    /\ whole => v[2] % 2 = 0
    /\ "step" \in DOMAIN spec => (v[2] - spec.min) % spec.step = 0

\* checkValue.
Fits(spec, v) ==
    CASE spec.control \in {"select", "aspect_select"} -> v \in spec.options \ spec.disabled
      [] spec.control = "toggle" -> v[1] = "bool"
      [] spec.control = "textarea" -> v[1] = "text" /\ Len(v[2]) <= spec.max_length
      [] spec.control = "seed" -> IF v = Nil THEN "allow_random" \in DOMAIN spec ELSE NumericFits(spec, v, TRUE)
      [] spec.control = "stepper" -> NumericFits(spec, v, TRUE)
      [] spec.control = "slider" -> NumericFits(spec, v, FALSE)
      [] OTHER -> TRUE

\* validateInputs.
SlotFits(slot, files) ==
    LET n == CountAt(files, slot.key)
    IN  /\ slot.required => n >= 1 /\ n >= slot.min_count
        /\ n > 0 => n >= slot.min_count
        /\ n <= slot.max_count
        /\ n > 0 /\ "requires_slot" \in DOMAIN slot => CountAt(files, slot.requires_slot) > 0

\* A mutant: what is not shown must be there as well.
AnyParamFits(spec, params, files) == spec.key \in DOMAIN params /\ Fits(spec, params[spec.key])

\* validateParams of one leaf: shown and right, or not shown and not there.
ParamFits(spec, params, files) ==
    LET shown == EvalOptional(spec, "visible_when", params, files)
    IN  \/ shown = "no" /\ spec.key \notin DOMAIN params
        \/ shown = "yes" /\ spec.key \in DOMAIN params /\ Fits(spec, params[spec.key])

\* Validate: no field error.
Validate(schema, params, files) ==
    /\ DOMAIN files \subseteq Keys(schema.inputs)
    /\ \A i \in DOMAIN schema.inputs : SlotFits(schema.inputs[i], files)
    /\ DOMAIN params \subseteq LeafKeys(schema.params)
    /\ \A i \in LeafParams(schema.params) : ParamFits(schema.params[i], params, files)

----------------------------------------------------------------------------
(* pricer.go.  A subtotal is a fraction <<numerator, denominator>>, and <<>> is an error. *)

Applied(m, s) == IF m.op = "mul" THEN <<s[1] * m.value, 2 * s[2]>> ELSE <<2 * s[1] + m.value * s[2], 2 * s[2]>>

\* roundCost.
Rounded(s, rounding) ==
    CASE rounding = "ceil" -> -((-s[1]) \div s[2])
      [] rounding = "floor" -> s[1] \div s[2]
      [] OTHER -> (2 * s[1] + s[2]) \div (2 * s[2])

\* A mutant: a toggle does not multiply.
NumbersTimes(pricing, params) ==
    IF "multiplier_param" \notin DOMAIN pricing THEN {2}
    ELSE LET v == ValueAt(params, pricing.multiplier_param) IN IF v[1] = "num" THEN {v[2]} ELSE {}

\* multiplier: no number, or one.
Times(pricing, params) ==
    IF "multiplier_param" \notin DOMAIN pricing THEN {2}
    ELSE IF pricing.multiplier_param \notin DOMAIN params THEN {}
    ELSE NumberOf(params[pricing.multiplier_param])

\* The subtotal after each of the modifiers.
Subtotals(pricing, params, files) ==
    LET subtotal[i \in 0 .. Len(pricing.modifiers)] ==
            IF i = 0 THEN <<pricing.base, 1>>
            ELSE LET hit == Eval(pricing.modifiers[i].when, params, files)
                     s == subtotal[i - 1]
                 IN  IF s = <<>> \/ hit = "error" THEN <<>>
                     ELSE IF hit = "no" THEN s
                     ELSE Applied(pricing.modifiers[i], s)
    IN  subtotal

\* Estimate: no price, or one.
Estimate(pricing, params, files) ==
    LET s == Subtotals(pricing, params, files)[Len(pricing.modifiers)]
    IN  IF s = <<>> THEN {} ELSE {Rounded(<<s[1] * n, 2 * s[2]>>, pricing.rounding) : n \in Times(pricing, params)}

----------------------------------------------------------------------------
(* validate_schema.go.                                                     *)

\* controlRules: what shapes a control; fields and allow_random go with a compound and a seed only.
Shaping == {"options", "min", "max", "step", "max_length"}
Controls == {"select", "aspect_select", "stepper", "slider", "seed", "toggle", "textarea", "compound"}
Needs(control) ==
    CASE control \in {"select", "aspect_select"} -> {"options"}
      [] control \in {"stepper", "slider"} -> {"min", "max", "step"}
      [] control = "seed" -> {"min", "max"}
      [] control = "textarea" -> {"max_length"}
      [] OTHER -> {}

Primitive(v) == v[1] \in {"nil", "bool", "num", "text"}

\* validateControlShape, of the parameter at a place.
ShapeFits(specs, i) ==
    LET spec == specs[i]
    IN  /\ spec.control \in Controls
        /\ DOMAIN spec \cap Shaping = Needs(spec.control)
        /\ (\E j \in DOMAIN specs : i \in Around(specs[j])) <=> spec.control = "compound"
        /\ "allow_random" \in DOMAIN spec => spec.control = "seed"
        /\ "options" \in DOMAIN spec => spec.options # {} /\ \A v \in spec.options : Primitive(v)
        /\ "min" \in DOMAIN spec => spec.min <= spec.max
        /\ "step" \in DOMAIN spec => spec.step > 0
        /\ "max_length" \in DOMAIN spec => spec.max_length > 0
        /\ IF spec.control = "compound" THEN spec.default = Nil ELSE Fits(spec, spec.default)

\* validateCondition of one condition and of all: which keys there are is not looked at.
OperatorFits(c, slots) ==
    CASE c.op \in {"eq", "ne"} -> Primitive(c.value)
      [] c.op \in {"gt", "lt"} -> c.value[1] = "num"
      [] c.op \in {"in", "nin"} -> \A v \in c.values : Primitive(v)
      [] c.op = "has_input" -> c.slot \in slots
      [] c.op \in {"and", "or"} -> c.of # <<>>
      [] c.op = "not" -> Len(c.of) = 1
      [] OTHER -> FALSE
ConditionFits(c, slots) == \A n \in DOMAIN c : OperatorFits(c[n], slots)

\* validateSlot: the slot it requires is declared before it.
SlotDeclared(inputs, i) ==
    LET earlier == {inputs[j].key : j \in 1 .. i - 1}
        slot == inputs[i]
    IN  /\ slot.key \notin earlier
        /\ slot.min_count >= 0 /\ slot.max_count >= 1 /\ slot.min_count <= slot.max_count
        /\ "requires_slot" \in DOMAIN slot => slot.requires_slot \in earlier

\* validatePricingSpec: the multiplier is any key there is.
PricingFits(pricing, keys, slots) ==
    /\ pricing.base >= 0
    /\ \A i \in DOMAIN pricing.modifiers :
          pricing.modifiers[i].op \in {"mul", "add"} /\ ConditionFits(pricing.modifiers[i].when, slots)
    /\ "multiplier_param" \in DOMAIN pricing => pricing.multiplier_param \in keys

\* validateParamSpecs.
ParamSpecsFit(specs, slots) ==
    /\ \A i, j \in DOMAIN specs : specs[i].key = specs[j].key => i = j
    /\ \A i \in DOMAIN specs :
          /\ ShapeFits(specs, i)
          /\ "visible_when" \in DOMAIN specs[i] => ConditionFits(specs[i].visible_when, slots)

\* ValidateSchema: no field error.
ValidateSchema(schema) ==
    /\ \A i \in DOMAIN schema.inputs : SlotDeclared(schema.inputs, i)
    /\ ParamSpecsFit(schema.params, Keys(schema.inputs))
    /\ PricingFits(schema.pricing, Keys(schema.params), Keys(schema.inputs))
=============================================================================
