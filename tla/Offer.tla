------------------------------- MODULE Offer -------------------------------
(***************************************************************************)
(* A model on offer, from its configuration to the request a provider      *)
(* gets: an administrator stores it (upsertModel), a browser shows its     *)
(* form and quotes a price (GeneratorPage, the store of the generator),    *)
(* the server checks, prices and accepts what is submitted (submitTask),   *)
(* and later a worker renders the body with the configuration of that      *)
(* moment (RenderBody).  The configuration may be stored anew between any  *)
(* two of these steps.                                                     *)
(***************************************************************************)
EXTENDS Capability, Form, Mapping

CONSTANTS
    Drafts,         \* configurations an administrator may store: [id, schema, mapping]
    Revisions,      \* those among them that may replace one
    Texts,          \* what a user may type into a text
    SeedNumbers,    \* ... and, in halves, into a seed
    Literals,       \* JSON values that mappings are written with, and all there is in them
    MaxFiles        \* bound: files in a slot

VARIABLES
    config,     \* the row of models
    form,       \* the form: the schema the browser has, the values, the files
    task,       \* the submission, and what became of it
    sent        \* the request, once it is rendered: the mapping it was made by and its body

offerVars == <<config, form, task, sent>>

NoConfig == [id |-> "none"]
NoForm == [id |-> "none"]
NoTask == [answer |-> "none"]
NotSent == [body |-> Nil]

\* How a configuration is written down here: JSON values, and lists in which
\* what is within something else comes before or after it.
IsJson(v) == v[1] \in {"nil", "bool", "num", "text"} /\ (v[1] = "nil" => v = Nil)

IsList(s) == s \in Seq({s[i] : i \in DOMAIN s})

IsCondition(c) ==
    /\ IsList(c) /\ c # <<>>
    /\ \A n \in DOMAIN c : c[n].op \in {"and", "or", "not"} =>
          IsList(c[n].of) /\ \A i \in DOMAIN c[n].of : c[n].of[i] \in 1 .. n - 1

IsSchema(schema) ==
    /\ \A i \in DOMAIN schema.params :
          LET spec == schema.params[i]
          IN  /\ Around(spec) \subseteq DOMAIN schema.params
              /\ "visible_when" \in DOMAIN spec => IsCondition(spec.visible_when)
              /\ "options" \in DOMAIN spec => \A v \in spec.options : IsJson(v)
              /\ IsJson(spec.default)
    /\ \A i \in DOMAIN schema.inputs : schema.inputs[i].min_count \in Int
    /\ schema.pricing.base \in Int /\ IsList(schema.pricing.modifiers)
    /\ \A i \in DOMAIN schema.pricing.modifiers :
          IsCondition(schema.pricing.modifiers[i].when) /\ schema.pricing.modifiers[i].value \in Int

\* A set of JSON values, which holds what is in them.
IsClosed(values) ==
    \A v \in values :
        /\ v[1] = "list" => IsList(v[2]) /\ \A i \in DOMAIN v[2] : v[2][i] \in values
        /\ v[1] = "obj" => \A k \in DOMAIN v[2] : v[2][k] \in values

\* The name of the model at the provider is a constant; a wrap that changes nothing is left out.
IsMapping(mapping) ==
    /\ mapping.template \in Literals /\ IsList(mapping.rules)
    /\ \A i \in DOMAIN mapping.rules :
          LET rule == mapping.rules[i]
          IN  /\ IsList(rule.to) /\ rule.append \in BOOLEAN
              /\ IF "const" \in DOMAIN rule THEN rule.const \in Literals
                 ELSE rule.from \in {"prompt", "params", "inputs"}
              /\ "value_map" \in DOMAIN rule => \A k \in DOMAIN rule.value_map : rule.value_map[k] \in Literals
              /\ "wrap" \in DOMAIN rule =>
                    rule.wrap \in {"text_part", "image_url_part", "video_url_part", "user_message"}

ASSUME OfferAssumption ==
    /\ Revisions \subseteq Drafts /\ MaxFiles \in Nat
    /\ \A d \in Drafts : d # NoConfig /\ IsSchema(d.schema) /\ IsMapping(d.mapping)
    /\ IsClosed(Literals)

OfferInit ==
    /\ config = NoConfig
    /\ form = NoForm
    /\ task = NoTask
    /\ sent = NotSent

\* upsertModel: the schema is checked, the mapping is stored as it is.
StoreModel(d) ==
    /\ d # config
    /\ ValidateSchema(d.schema)
    /\ config' = d
    /\ UNCHANGED <<form, task, sent>>

\* The list arrives, or another model is chosen: the values of a form are made
\* anew, or taken over, only when the id is another one (selectModel).
SelectModel ==
    /\ config # NoConfig /\ task = NoTask
    /\ form' = IF form = NoForm
               THEN [id |-> config.id, schema |-> config.schema, values |-> DefaultValues(config.schema),
                     files |-> <<>>]
               ELSE [form EXCEPT !.id = config.id, !.schema = config.schema,
                                 !.values = IF form.id = config.id THEN @ ELSE MigrateValues(config.schema, @)]
    /\ UNCHANGED <<config, task, sent>>

\* setValue of a control that is shown.
SetValue(k) ==
    /\ form # NoForm /\ task = NoTask
    /\ k \in SubmittedLeaves(form.schema.params, form.values, form.files)
    /\ \E v \in Editions(LeafOf(form.schema, k), Held(form.values, k), Texts, SeedNumbers) :
          form' = [form EXCEPT !.values = [j \in (DOMAIN form.values) \cup {k} |->
                                              IF j = k THEN v ELSE form.values[j]]]
    /\ UNCHANGED <<config, task, sent>>

\* addFiles, removeFile: the files of a slot have names of their own.
SetFiles(slot) ==
    /\ form # NoForm /\ task = NoTask
    /\ \E n \in 0 .. MaxFiles :
          /\ n \in {CountAt(form.files, slot) - 1, CountAt(form.files, slot) + 1}
          /\ form' = [form EXCEPT !.files = [s \in (DOMAIN form.files) \cup {slot} |->
                                                IF s = slot THEN [i \in 1 .. n |-> <<slot, i>>]
                                                ELSE form.files[s]]]
    /\ UNCHANGED <<config, task, sent>>

\* onSubmit and submitTask.
SendForm ==
    /\ form # NoForm /\ task = NoTask
    /\ ValidateForm(form.schema, form.values, form.files)
    /\ LET params == SubmitParams(form.schema, form.values, form.files)
           prices == Estimate(config.schema.pricing, params, form.files)
       IN  task' = [params |-> params, files |-> form.files, prompt |-> Text("prompt"),
                    quote |-> Quote(form.schema.pricing, form.values, form.files),
                    price |-> prices, under |-> config, shown |-> form.schema,
                    answer |-> IF ~Validate(config.schema, params, form.files) THEN "refused"
                               ELSE IF prices = {} THEN "unpriced" ELSE "accepted"]
    /\ UNCHANGED <<config, form, sent>>

\* RenderBody: reading the bytes of an input may fail as well.
RenderBody ==
    /\ task.answer = "accepted" /\ sent = NotSent
    /\ sent' \in [by : {config.mapping}, body : {Render(config.mapping, task), Broken}]
    /\ UNCHANGED <<config, form, task>>

OfferNext ==
    \/ \E d \in IF config = NoConfig THEN Drafts ELSE Revisions : StoreModel(d)
    \/ SelectModel
    \/ form # NoForm /\ \E k \in LeafKeys(form.schema.params) : SetValue(k)
    \/ form # NoForm /\ \E slot \in Keys(form.schema.inputs) : SetFiles(slot)
    \/ SendForm
    \/ RenderBody

OfferSpec == OfferInit /\ [][OfferNext]_offerVars

----------------------------------------------------------------------------
(* Properties.                                                             *)

\* The leaves that are shown whatever the form holds.
AlwaysShown(specs) ==
    {i \in LeafParams(specs) : \A j \in {i} \cup Around(specs[i]) : "visible_when" \notin DOMAIN specs[j]}

Numeric(spec) == spec.control \in {"stepper", "slider", "seed", "toggle"}

\* Browser and server read a condition alike: it has no negation, and asks for
\* parameters that are always shown, for more or less only of a number.
ReadAlike(c, schema) ==
    \A n \in DOMAIN c :
        /\ c[n].op # "not"
        /\ c[n].op \in {"eq", "ne", "gt", "lt", "in", "nin"} =>
              \E i \in AlwaysShown(schema.params) :
                  /\ schema.params[i].key = c[n].key
                  /\ c[n].op \in {"gt", "lt"} => Numeric(schema.params[i])

PricedAlike(schema) ==
    /\ \A i \in DOMAIN schema.pricing.modifiers : ReadAlike(schema.pricing.modifiers[i].when, schema)
    /\ "multiplier_param" \in DOMAIN schema.pricing =>
          \E i \in AlwaysShown(schema.params) :
              schema.params[i].key = schema.pricing.multiplier_param /\ Numeric(schema.params[i])

\* Every control is a leaf of its own or in a compound that is always shown.
ShownAlike(schema) ==
    \A i \in DOMAIN schema.params : "visible_when" \in DOMAIN schema.params[i] =>
        schema.params[i].control # "compound" /\ ReadAlike(schema.params[i].visible_when, schema)

\* A value the browser does not look at closely: a number between two steps, a
\* truth or a text where a number goes, a seed left open that must not be; a slot that is optional
\* and holds fewer files than it must.
LooselyChecked(schema, params, files) ==
    \/ \E k \in DOMAIN params :
          LET spec == LeafOf(schema, k)
          IN  /\ spec.control \in {"stepper", "slider", "seed"}
              /\ \/ params[k][1] \in {"bool", "text"}
                 \/ params[k] = Nil /\ "allow_random" \notin DOMAIN spec
                 \/ /\ params[k][1] = "num"
                    /\ \/ spec.control # "slider" /\ params[k][2] % 2 # 0
                       \/ "step" \in DOMAIN spec /\ (params[k][2] - spec.min) % spec.step # 0
    \/ \E i \in DOMAIN schema.inputs :
          ~schema.inputs[i].required /\ CountAt(files, schema.inputs[i].key) < schema.inputs[i].min_count

\* What the browser lets through the server accepts, as long as both look at the
\* same schema; they differ in conditions over parameters that are hidden
\* themselves, in negations, in hidden compounds, where the browser checks loosely,
\* and in the files it keeps for slots that an earlier model had and this one has
\* not, and in nothing else (validateForm, submitParams, selectModel; Validate).
FormAccepted ==
    task.answer = "refused" =>
        \/ task.shown # task.under.schema
        \/ ~ShownAlike(task.shown)
        \/ LooselyChecked(task.shown, task.params, task.files)
        \/ ~(DOMAIN task.files \subseteq Keys(task.shown.inputs))

\* The price the browser quotes is the one the server charges, and there is one,
\* as long as both look at the same schema and its prices depend on what is
\* always shown (costBreakdown; Estimate).
QuotedIsCharged ==
    task.answer \in {"accepted", "unpriced"} /\ task.shown = task.under.schema /\ PricedAlike(task.shown) =>
        task.price = {task.quote}

\* The same without a condition on the schema: 实现必须与前端的本地计价函数产出
\* 完全相同的整数 (pricing.go).
QuotedIsAlwaysCharged ==
    task.answer = "accepted" /\ task.shown = task.under.schema => task.price = {task.quote}

\* Nothing later in the mapping writes to the path of rule i, above or below it.
Undisturbed(mapping, i) ==
    \A j \in DOMAIN mapping.rules : j > i =>
        LET p == mapping.rules[i].to
            q == mapping.rules[j].to
            n == IF Len(p) < Len(q) THEN Len(p) ELSE Len(q)
        IN  \/ SubSeq(p, 1, n) # SubSeq(q, 1, n)
            \/ p = q /\ mapping.rules[i].append /\ mapping.rules[j].append

\* The values of a rule are where it puts them, one after the other.
Arrived(body, rule, made) ==
    LET there == Found(body, rule.to)
    IN  IF rule.append
        THEN there[1] = "list" /\ \E k \in 0 .. Len(there[2]) - Len(made) : SubSeq(there[2], k + 1, k + Len(made)) = made
        ELSE made = <<there>>

\* Whatever the user chose, false and zero included, reaches the provider if a
\* rule without a condition names it and no later rule writes over it, and the
\* files of a slot arrive all, and in their order (Render, applyRule).
NothingSwallowed ==
    sent.body \notin {Nil, Broken} =>
        \A i \in DOMAIN sent.by.rules :
            LET rule == sent.by.rules[i]
                source == SourceValues(rule, task)
            IN  /\ "when" \notin DOMAIN rule /\ "const" \notin DOMAIN rule
                /\ Undisturbed(sent.by, i)
                /\ \A j \in DOMAIN source : source[j] \notin {Nil, Text("")}
                => Arrived(sent.body, rule, [j \in DOMAIN source |-> Transformed(rule, source[j])])
=============================================================================
