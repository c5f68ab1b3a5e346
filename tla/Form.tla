-------------------------------- MODULE Form --------------------------------
(***************************************************************************)
(* What the browser makes of the same schema (frontend/src/schema): which  *)
(* controls it shows (evaluate.ts), what it submits (form.ts), what it     *)
(* lets through (validate.ts), the price it quotes (pricing.ts) and what   *)
(* it keeps of a form when another model is chosen (migrate.ts).           *)
(* The values of a form are those of all its controls, the ones that are   *)
(* not shown included.                                                     *)
(***************************************************************************)
EXTENDS Capability

\* values[key] of an object: what is not there is no JSON value.
Undefined == <<"undefined">>
Held(values, key) == IF key \in DOMAIN values THEN values[key] ELSE Undefined

\* evaluate: NaN is neither greater nor less; a negation reads the list the
\* server sends as one condition, whose operator it does not know and takes to hold.
Truth(c, inner, values, files) ==
    CASE c.op = "eq" -> Held(values, c.key) = c.value
      [] c.op = "ne" -> Held(values, c.key) # c.value
      [] c.op \in {"gt", "lt"} -> \E n \in NumberOf(Held(values, c.key)) : Compared(n, c.op, c.value[2])
      [] c.op = "in" -> Held(values, c.key) \in c.values
      [] c.op = "nin" -> Held(values, c.key) \notin c.values
      [] c.op = "has_input" -> CountAt(files, c.slot) > 0
      [] c.op = "and" -> \A i \in DOMAIN c.of : inner[c.of[i]]
      [] c.op = "or" -> \E i \in DOMAIN c.of : inner[c.of[i]]
      [] c.op = "not" -> FALSE
      [] OTHER -> TRUE

Truths(c, values, files) ==
    LET t[n \in 0 .. Len(c)] == IF n = 0 THEN <<>> ELSE Append(t[n - 1], Truth(c[n], t[n - 1], values, files))
    IN  t
Evaluate(c, values, files) == Truths(c, values, files)[Len(c)][Len(c)]

IsVisible(spec, values, files) ==
    "visible_when" \in DOMAIN spec => Evaluate(spec.visible_when, values, files)

\* submitParams: the leaves that are shown, below compounds that are shown.
SubmittedLeaves(specs, values, files) ==
    {specs[i].key : i \in {k \in LeafParams(specs) :
                              \A j \in {k} \cup Around(specs[k]) : IsVisible(specs[j], values, files)}}

SubmitParams(schema, values, files) ==
    [k \in SubmittedLeaves(schema.params, values, files) \cap DOMAIN values |-> values[k]]

\* isValidValue.
IsValidValue(spec, v) ==
    CASE spec.control \in {"select", "aspect_select"} -> v \in spec.options \ spec.disabled
      [] spec.control \in {"stepper", "slider"} -> \E n \in NumberOf(v) : spec.min <= n /\ n <= spec.max
      [] spec.control = "seed" -> v = Nil \/ \E n \in NumberOf(v) : spec.min <= n /\ n <= spec.max
      [] spec.control = "toggle" -> v[1] = "bool"
      [] spec.control = "textarea" -> v[1] = "text" /\ Len(v[2]) <= spec.max_length
      [] OTHER -> TRUE

\* validateForm: no error.
ValidateForm(schema, values, files) ==
    /\ \A i \in DOMAIN schema.inputs :
          LET slot == schema.inputs[i]
              n == CountAt(files, slot.key)
          IN  /\ slot.required => n >= 1 /\ n >= slot.min_count
              /\ n <= slot.max_count
              /\ n > 0 /\ "requires_slot" \in DOMAIN slot => CountAt(files, slot.requires_slot) > 0
    /\ \A i \in LeafParams(schema.params) :
          LET spec == schema.params[i]
          IN  IsVisible(spec, values, files) => IsValidValue(spec, Held(values, spec.key))

\* costBreakdown: a multiplier that is no number is left out.
QuotedSubtotals(pricing, values, files) ==
    LET subtotal[i \in 0 .. Len(pricing.modifiers)] ==
            IF i = 0 THEN <<pricing.base, 1>>
            ELSE IF ~Evaluate(pricing.modifiers[i].when, values, files) THEN subtotal[i - 1]
            ELSE Applied(pricing.modifiers[i], subtotal[i - 1])
    IN  subtotal

Quote(pricing, values, files) ==
    LET s == QuotedSubtotals(pricing, values, files)[Len(pricing.modifiers)]
        times == IF "multiplier_param" \in DOMAIN pricing
                 THEN NumberOf(Held(values, pricing.multiplier_param)) ELSE {}
        n == IF times = {} THEN 2 ELSE CHOOSE x \in times : TRUE
    IN  Rounded(<<s[1] * n, 2 * s[2]>>, pricing.rounding)

LeafOf(schema, key) ==
    schema.params[CHOOSE i \in LeafParams(schema.params) : schema.params[i].key = key]

DefaultValues(schema) == [k \in LeafKeys(schema.params) |-> LeafOf(schema, k).default]

\* migrateValues, adoptValues.
MigrateValues(schema, values) ==
    [k \in LeafKeys(schema.params) |->
        IF k \in DOMAIN values /\ IsValidValue(LeafOf(schema, k), values[k]) THEN values[k]
        ELSE LeafOf(schema, k).default]

\* ParamEditor: what a click or a key makes of the value v of a control.
\* A field for a seed takes any number, one for a text as many characters as it may have.
Editions(spec, v, texts, numbers) ==
    CASE spec.control \in {"select", "aspect_select"} -> spec.options \ spec.disabled
      [] spec.control = "toggle" -> {Bool(v \in {Nil, Undefined, Bool(FALSE)})}
      [] spec.control = "stepper" ->
            UNION {{Num(IF n - spec.step > spec.min THEN n - spec.step ELSE spec.min),
                    Num(IF n + spec.step < spec.max THEN n + spec.step ELSE spec.max)} : n \in NumberOf(v)}
      [] spec.control = "slider" -> {Num(spec.min + i * spec.step) : i \in 0 .. (spec.max - spec.min) \div spec.step}
      [] spec.control = "seed" -> {Nil} \cup {Num(n) : n \in numbers}
      [] spec.control = "textarea" -> {Text(s) : s \in {t \in texts : Len(t) <= spec.max_length}}
      [] OTHER -> {}
=============================================================================
