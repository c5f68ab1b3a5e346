----------------------------- MODULE CanvasOps -----------------------------
(***************************************************************************)
(* What one operation, and one batch of them, does to a canvas: applyOp,   *)
(* insertCard and updateCard of store/mysql/canvas.go with the parameters  *)
(* of the cards (domain/canvas.go).  A canvas is its cards that are not    *)
(* deleted and its viewport: the columns of a deleted card are never read  *)
(* again, since card.create overwrites all of them.                        *)
(***************************************************************************)
EXTENDS Integers, Sequences

CONSTANTS
    Cards,          \* the ids
    KindOf,         \* KindOf[c]: the kind, which no operation can change
    Texts,
    EmptyText,      \* one of Texts: the text that is NULL or ''
    Params,         \* contents of the column params, of cards other than scripts
    BadParams,      \* one of them: what no schema accepts
    Assets, NoAsset,
    Places,         \* values of x, y, z
    Zooms,          \* values of k, in tenths
    MaxVersions,    \* ScriptMaxVersions
    MaxHistory      \* cardMaxVersions

Kinds == {"text", "image", "video", "script", "shot", "character"}

ASSUME CanvasOpsAssumption ==
    /\ KindOf \in [Cards -> Kinds]
    /\ EmptyText \in Texts
    /\ BadParams \in Params
    /\ NoAsset \notin Assets
    /\ Zooms \subseteq Nat
    /\ MaxVersions \in Nat \ {0}
    /\ MaxHistory \in Nat \ {0}

Versions == [rev : Nat \ {0}, text : Texts]

CardFields == [text : Texts, params : Params, versions : Seq(Versions),
               asset : Assets \cup {NoAsset}, history : Seq(Assets),
               place : Places, auto : BOOLEAN]

\* The last n elements.
Latest(s, n) == IF Len(s) <= n THEN s ELSE SubSeq(s, Len(s) - n + 1, Len(s))

----------------------------------------------------------------------------
(* The operations.  create carries the whole card, move a place, update    *)
(* the patched columns, viewport.set a zoom.                               *)

CreateOp(c, card) == [type |-> "card.create", id |-> c, value |-> card]
MoveOp(c, place) == [type |-> "card.move", id |-> c, value |-> place]
UpdateOp(c, patch) == [type |-> "card.update", id |-> c, value |-> patch]
DeleteOp(c) == [type |-> "card.delete", id |-> c, value |-> {}]
ViewportOp(zoom) == [type |-> "viewport.set", id |-> "viewport", value |-> zoom]

\* ParseShotParams, ParseCharacterParams; other kinds take any.
ParamsFit(kind, params) == kind \in {"shot", "character"} => params # BadParams

\* The white list; "versions" stands for the params of a script.
PatchColumns == {"text", "params", "asset", "history", "auto"}

PatchFits(kind, patch) ==
    /\ DOMAIN patch \subseteq PatchColumns
    /\ "params" \in DOMAIN patch => kind # "script" /\ ParamsFit(kind, patch["params"])

\* A move to where the card is, of a card the user has moved before, changes no
\* column: the statement reports 0 rows, and the batch fails.
MoveTouches(card, place) == card.place # place \/ card.auto

\* k is within [0.1, 4].
ZoomFits(zoom) == zoom \in 1 .. 40

\* Does applyOp return nil?  An empty patch returns before it looks for the card.
Allowed(cv, op) ==
    CASE op.type = "card.create" -> ParamsFit(KindOf[op.id], op.value.params)
      [] op.type = "card.move" -> op.id \in DOMAIN cv.cards /\ MoveTouches(cv.cards[op.id], op.value)
      [] op.type = "card.update" ->
            \/ DOMAIN op.value = {}
            \/ op.id \in DOMAIN cv.cards /\ PatchFits(KindOf[op.id], op.value)
      [] op.type = "card.delete" -> op.id \in DOMAIN cv.cards
      [] op.type = "viewport.set" -> ZoomFits(op.value)

\* ScriptParams.AppendVersion: what the card said before the change.
AppendVersion(versions, text) ==
    LET rev == IF versions = <<>> THEN 1 ELSE versions[Len(versions)].rev + 1
    IN  Latest(Append(versions, [rev |-> rev, text |-> text]), MaxVersions)

VersionsAfterAnySave(kind, card, patch) ==      \* Mutant: also when the text is the same
    IF kind = "script" /\ "text" \in DOMAIN patch
    THEN AppendVersion(card.versions, card.text)
    ELSE card.versions

\* scriptVersionSet: a script that gets another text keeps the old one.
VersionsAfter(kind, card, patch) ==
    IF kind = "script" /\ "text" \in DOMAIN patch /\ patch["text"] # card.text
    THEN AppendVersion(card.versions, card.text)
    ELSE card.versions

Patched(kind, card, patch) ==
    LET col(name, old) == IF name \in DOMAIN patch THEN patch[name] ELSE old
    IN  [text |-> col("text", card.text), params |-> col("params", card.params),
         versions |-> VersionsAfter(kind, card, patch),
         asset |-> col("asset", card.asset), history |-> col("history", card.history),
         place |-> card.place, auto |-> col("auto", card.auto)]

Moved(card, place) == [card EXCEPT !.place = place, !.auto = FALSE]

\* INSERT ... ON DUPLICATE KEY UPDATE, or the UPDATE of a card.
PutCard(cv, c, card) ==
    [cv EXCEPT !.cards = [d \in DOMAIN @ \cup {c} |-> IF d = c THEN card ELSE @[d]]]

After(cv, op) ==
    CASE op.type = "card.create" -> PutCard(cv, op.id, op.value)
      [] op.type = "card.move" -> PutCard(cv, op.id, Moved(cv.cards[op.id], op.value))
      [] op.type = "card.update" ->
            IF DOMAIN op.value = {} THEN cv
            ELSE PutCard(cv, op.id, Patched(KindOf[op.id], cv.cards[op.id], op.value))
      [] op.type = "card.delete" -> [cv EXCEPT !.cards = [d \in DOMAIN @ \ {op.id} |-> @[d]]]
      [] op.type = "viewport.set" -> [cv EXCEPT !.zoom = op.value]

\* The canvas after the first n operations of a batch.
AfterFirst(cv, ops) ==
    LET f[n \in Nat] == IF n = 0 THEN cv ELSE After(f[n - 1], ops[n])
    IN  f

\* The first operation that fails takes the whole batch back.
BatchAllowed(cv, ops) ==
    LET f == AfterFirst(cv, ops)
    IN  \A n \in 1 .. Len(ops) : Allowed(f[n - 1], ops[n])

AfterBatch(cv, ops) == AfterFirst(cv, ops)[Len(ops)]

\* readHistory - append - keep the newest (SetCardResult).
WithResult(card, asset) ==
    [card EXCEPT !.asset = asset, !.history = Latest(Append(@, asset), MaxHistory)]
=============================================================================
