------------------------------ MODULE Upstream ------------------------------
(***************************************************************************)
(* The border to the providers (internal/adapter): which driver a model    *)
(* is given to (registry.go, wire.go), what each driver makes of the       *)
(* words, errors and products a provider answers with, and whether the     *)
(* products can be opened afterwards (transferor.open).                    *)
(*                                                                         *)
(* One task of one model and its job at the provider.  Submitting again    *)
(* after an error is part of TaskExec.  A text stands for all those that   *)
(* hold, in their first 512 characters, the words a driver looks for:      *)
(* about moderation, rates, invalid parameters or credentials; "flagged"   *)
(* stands for the words about moderation that classify looks for and       *)
(* reclassify does not.                                                    *)
(***************************************************************************)
EXTENDS Naturals

CONSTANT
    ServedModels    \* [family, protocol]; "" where there is no video protocol

\* Upsert knows these families, the column video_protocol these values, and a
\* model of the family video must have one.
Families == {"chat", "images", "video", "mock", "compose", "predictions"}
VideoProtocols == {"ark", "openai_video", "google_lro", "mock", "predictions"}

ASSUME UpstreamAssumption ==
    ServedModels \subseteq {m \in [family : Families, protocol : VideoProtocols \cup {""}] :
                               m.family = "video" => m.protocol # ""}

VARIABLES
    served,     \* the model of the task
    job,        \* at the provider: [raw, end, error, items]
    stage,      \* "ready", "settling" (predictions.Invoke waits), "polling", "ended"
    answer      \* the driver's last: [status, code, products, end, said], end being
                \* that of the job it was about and said what the provider spoke of

upstreamVars == <<served, job, stage, answer>>

----------------------------------------------------------------------------
(* The registry.                                                           *)

\* registerDrivers: two drivers may share a name, one for each kind.
SyncDrivers == {[name |-> n, family |-> n] : n \in {"mock", "chat", "images", "predictions", "compose"}}
AsyncDrivers == {[name |-> n, family |-> "video"] : n \in {"mock", "ark", "openai_video", "google_lro", "predictions"}}

\* DriverName.
DriverName(m) == IF m.family = "video" /\ m.protocol # "" THEN m.protocol ELSE m.family

\* A mutant: what can be asked asynchronously is.
HasAsync(m) == \E d \in AsyncDrivers : d.name = DriverName(m)

\* IsAsync: where a name has drivers of both kinds the family of the model decides.
IsAsync(m) ==
    \E d \in AsyncDrivers :
        /\ d.name = DriverName(m)
        /\ d.family = m.family \/ \A s \in SyncDrivers : s.name # d.name

Driver == DriverName(served)

----------------------------------------------------------------------------
(* Words: statusMap of each driver.                                        *)

ArkStatus == [queued |-> "queued", running |-> "running", succeeded |-> "succeeded",
              failed |-> "failed", expired |-> "failed"]
OpenaiVideoStatus == [queued |-> "queued", in_progress |-> "running", completed |-> "succeeded", failed |-> "failed"]
GoogleStatus == [false |-> "running", true |-> "succeeded"]
PredictionsStatus == [starting |-> "queued", queued |-> "queued", processing |-> "running", succeeded |-> "succeeded",
                      failed |-> "failed", canceled |-> "canceled", cancelled |-> "canceled"]
CompatStatus == [ok |-> "succeeded", error |-> "failed"]
MockStatus == [queued |-> "queued", running |-> "running", succeeded |-> "succeeded", failed |-> "failed"]

StatusMap(d) ==
    CASE d = "ark" -> ArkStatus
      [] d = "openai_video" -> OpenaiVideoStatus
      [] d = "google_lro" -> GoogleStatus
      [] d = "predictions" -> PredictionsStatus
      [] d = "mock" -> MockStatus
      [] OTHER -> CompatStatus

\* Normalize of the asynchronous drivers: a word that is not known is no end.
Normalize(d, raw) == IF raw \in DOMAIN StatusMap(d) THEN StatusMap(d)[raw] ELSE "running"

Terminal == {"succeeded", "failed", "canceled"}

----------------------------------------------------------------------------
(* Errors: [code, text].  A code stands for those a driver's table holds   *)
(* under what they are about; "unknown" for the others.                    *)

ErrorTexts == {"moderation", "flagged", "rate", "invalid", "auth", "plain"}

CodeFor(about) ==
    CASE about \in {"moderation", "flagged", "denied"} -> "content_rejected"
      [] about = "rate" -> "upstream_rate_limited"
      [] about = "invalid" -> "invalid_param"
      [] OTHER -> "internal_error"

Errors(d) ==
    [code : IF d = "predictions" THEN {"unknown"}   \* it has no codes
            ELSE {"moderation", "rate", "invalid", "internal", "unknown"} \cup (IF d = "google_lro" THEN {"denied"} ELSE {}),
     text : IF d = "mock" THEN {"plain"} ELSE ErrorTexts]   \* the failure mock injects is a configured code

NoError == [code |-> "none", text |-> "none"]

\* The table of codes first, then the words of the message.
ByTable(e, table, words) ==
    IF e.code \in table THEN CodeFor(e.code)
    ELSE IF e.text \in words THEN CodeFor(e.text)
    ELSE "internal_error"

About == {"moderation", "flagged", "rate"}

\* classify of each driver.
ArkClassify(e) == ByTable(e, {"moderation", "rate", "invalid", "internal"}, About \cup {"invalid"})
OpenaiVideoClassify(e) == ByTable(e, {"moderation", "rate", "invalid", "internal"}, About)
CompatClassify(e) == ByTable(e, {"moderation", "rate", "invalid"}, About)
PredictionsClassify(e) == ByTable(e, {}, About \cup {"invalid"})

\* google_lro reads the message first: 7 is for refused content as for missing rights.
GoogleClassify(e) ==
    IF e.text \in About THEN CodeFor(e.text)
    ELSE IF e = [code |-> "denied", text |-> "auth"] THEN "internal_error"
    ELSE CodeFor(e.code)

\* ClassifyHTTPStatus: 400 and 422; 402, 408 and 429; all others.
HttpCode(status) == CASE status = 400 -> "invalid_param" [] status = 429 -> "upstream_rate_limited" [] OTHER -> "internal_error"

\* A mutant: what the body of an HTTP error says is not looked at.
StatusAlone(code, text, words) == code

ByBody(code, text, words) == IF text \in words THEN CodeFor(text) ELSE code

\* reclassify of each driver: what the body of an HTTP error says counts for more than its status.
ArkReclassify(code, text) == ByBody(code, text, {"moderation", "rate", "invalid"})
OpenaiVideoReclassify(code, text) == ByBody(code, text, {"moderation", "rate"})
GoogleReclassify(code, text) == ByBody(code, text, {"moderation", "rate"})
CompatReclassify(code, text) == ByBody(code, text, {"moderation", "rate"})
PredictionsReclassify(code, text) == ByBody(code, text, About \cup {"invalid"})

\* failureFor of each driver: a failed job may come without an error.
ArkFailure(j) == IF j.raw = "expired" \/ j.error = NoError THEN "internal_error" ELSE ArkClassify(j.error)
OpenaiVideoFailure(j) == IF j.error = NoError THEN "internal_error" ELSE OpenaiVideoClassify(j.error)
GoogleFailure(j) == GoogleClassify(j.error)
PredictionsFailure(j) == IF j.error = NoError THEN "internal_error" ELSE PredictionsClassify(j.error)
MockFailure(j) == IF j.error = NoError THEN "internal_error" ELSE CodeFor(j.error.code)

----------------------------------------------------------------------------
(* Products: what stands where they should be becomes [kind, type], and    *)
(* none of them an error.  Neither their number nor their order matters to *)
(* anything said here: they are sets.                                      *)

Made(kind, type) == [kind |-> kind, type |-> type]

Filled(items) == items \ {"none"}

AllOf(items, type) == {Made(item, type) : item \in items}

\* artifactRef, artifactRefs, artifacts and chatArtifacts of each driver.
ArkProducts(items) == AllOf(Filled(items), "video")
OpenaiVideoProducts(items) == {Made("binary", "video")}
GoogleProducts(items) == AllOf(Filled(items), "video")
PredictionsProducts(items, type) == AllOf(Filled(items), type)
ImagesProducts(items) == IF Filled(items) # items THEN {} ELSE AllOf(items, "image")
ChatProducts(items) == AllOf(Filled(items), "text")
MockImages(items) == AllOf(items, "image")
MockVideo(items) == {Made("binary", "video")}
ComposeProducts(items) == {Made("base64", "video")}

\* FetchArtifact of each driver.
ArkFetches(kind) == kind = "url"
OpenaiVideoFetches(kind) == kind = "binary"
GoogleFetches(kind) == kind \in {"base64", "gcs_uri"}
PredictionsFetches(kind) == kind = "url"
MockFetches(kind) == kind = "binary"

\* open: the driver where there is an asynchronous one, else an address or the bytes themselves.
Opens(m, kind) ==
    IF IsAsync(m)
    THEN CASE DriverName(m) = "ark" -> ArkFetches(kind)
           [] DriverName(m) = "openai_video" -> OpenaiVideoFetches(kind)
           [] DriverName(m) = "google_lro" -> GoogleFetches(kind)
           [] DriverName(m) = "predictions" -> PredictionsFetches(kind)
           [] DriverName(m) = "mock" -> MockFetches(kind)
    ELSE kind \in {"url", "base64"}

----------------------------------------------------------------------------
(* The provider.                                                           *)

NoJob == [raw |-> "none", end |-> "none", error |-> NoError, items |-> {}]

\* What may stand where the products should be: none, one or some of them.
Items(d) ==
    CASE d = "ark" -> {{"url"}, {"none"}}
      [] d = "google_lro" -> SUBSET {"base64", "gcs_uri", "url", "none"}
      [] d = "predictions" -> SUBSET {"url", "none"}
      [] d = "images" -> SUBSET {"url", "base64", "none"}
      [] d = "chat" -> SUBSET {"base64", "none"}
      [] d = "mock" -> {{"base64"}}
      [] OTHER -> {{"file"}}

\* What a word means to the provider: the words no driver knows are no ends.
EndOf(d, raw, e) ==
    IF raw \notin DOMAIN StatusMap(d) \/ StatusMap(d)[raw] \notin Terminal THEN "none"
    ELSE IF d = "google_lro" /\ e # NoError THEN "failed"
    ELSE StatusMap(d)[raw]

Raws(d) == DOMAIN StatusMap(d) \cup (IF d \in {"google_lro", "chat", "images", "compose", "mock"} THEN {} ELSE {"other"})

JobsOf(d, raw) ==
    {[raw |-> raw, end |-> EndOf(d, raw, e), error |-> e, items |-> items] :
        e \in CASE raw \in {"failed", "true"} -> {NoError} \cup Errors(d) [] raw = "error" -> Errors(d) [] OTHER -> {NoError},
        items \in IF EndOf(d, raw, NoError) = "succeeded" THEN Items(d) ELSE {{}}}

Jobs(d) == UNION {JobsOf(d, raw) : raw \in Raws(d)}

\* The job moves on while nobody looks.
JobMoves ==
    /\ stage \in {"settling", "polling"} /\ job.end = "none"
    /\ job' \in {j \in Jobs(Driver) : j.raw # job.raw}
    /\ UNCHANGED <<served, stage, answer>>

----------------------------------------------------------------------------
(* The drivers.                                                            *)

UpstreamInit ==
    /\ served \in ServedModels
    /\ job = NoJob
    /\ stage = "ready"
    /\ answer = [status |-> "none", code |-> "none", products |-> {}, end |-> "none", said |-> "nothing"]

Said(e) ==
    IF e.code \in {e.text, "unknown"} THEN e.text
    ELSE IF e.text = "plain" THEN e.code
    ELSE "nothing"

Reply(status, code, products, said, j) ==
    answer' = [status |-> status, code |-> code, products |-> products, end |-> j.end, said |-> said]

Fails(code, said, j) == Reply("error", code, {}, said, j)

\* do, StatusError: no answer, one that is no JSON, or an HTTP error.
ExchangeFails(Reclassify(_, _)) ==
    \/ Fails("internal_error", "nothing", job)
    \/ \E status \in {400, 401, 429, 500}, text \in ErrorTexts :
          Fails(Reclassify(HttpCode(status), text), IF text = "flagged" THEN "nothing" ELSE text, job)

\* A success without products is an error, after which a poll is followed by another.
Succeeds(products, j, otherwise) ==
    IF products = {} THEN Fails("internal_error", "nothing", j) /\ stage' = otherwise
    ELSE Reply("succeeded", "none", products, "nothing", j) /\ stage' = "ended"

\* Submit answers with an error, or with a job that has an id or has none.  One that
\* has failed or was canceled at once ends the task (Run), all others are polled.
SubmitJob(d, Reclassify(_, _), Classify(_), Status(_)) ==
    /\ stage = "ready" /\ IsAsync(served) /\ Driver = d
    /\ \/ ExchangeFails(Reclassify) /\ stage' = "ended" /\ UNCHANGED job
       \/ /\ \E e \in Errors(d) : Fails(Classify(e), Said(e), job)
          /\ stage' = "ended" /\ UNCHANGED job
       \/ /\ job' \in Jobs(d)
          /\ \/ Fails("internal_error", "nothing", job') /\ stage' = "ended"
             \/ IF Status(job'.raw) \in {"failed", "canceled"}
                THEN Reply(Status(job'.raw), "internal_error", {}, "nothing", job') /\ stage' = "ended"
                ELSE Reply("submitted", "none", {}, "nothing", job') /\ stage' = "polling"
    /\ UNCHANGED served

ArkSubmit == SubmitJob("ark", ArkReclassify, ArkClassify, LAMBDA raw : Normalize("ark", raw))
OpenaiVideoSubmit ==
    SubmitJob("openai_video", OpenaiVideoReclassify, OpenaiVideoClassify, LAMBDA raw : Normalize("openai_video", raw))
GoogleSubmit == SubmitJob("google_lro", GoogleReclassify, GoogleClassify, LAMBDA raw : "queued")

\* asyncDriver.Submit of predictions: a job that failed at once is an error, with its reason.
PredictionsSubmit ==
    /\ stage = "ready" /\ IsAsync(served) /\ Driver = "predictions"
    /\ \/ ExchangeFails(PredictionsReclassify) /\ stage' = "ended" /\ UNCHANGED job
       \/ /\ job' \in Jobs("predictions")
          /\ IF job'.end = "failed"
             THEN Fails(PredictionsFailure(job'), Said(job'.error), job') /\ stage' = "ended"
             ELSE \/ Fails("internal_error", "nothing", job') /\ stage' = "ended"
                  \/ IF Normalize("predictions", job'.raw) = "canceled"
                     THEN Reply("canceled", "none", {}, "nothing", job') /\ stage' = "ended"
                     ELSE Reply("submitted", "none", {}, "nothing", job') /\ stage' = "polling"
    /\ UNCHANGED served

\* asyncDriver.Submit of mock: the reference holds the outcome already.
MockSubmit ==
    /\ stage = "ready" /\ IsAsync(served) /\ Driver = "mock"
    /\ job' \in JobsOf("mock", "queued")
    /\ Reply("submitted", "none", {}, "nothing", job') /\ stage' = "polling"
    /\ UNCHANGED served

\* Poll reads where the job is; an error is followed by another poll.
PollJob(d, Failure(_), Products(_)) ==
    /\ stage = "polling" /\ Driver = d
    /\ LET status == Normalize(d, job.raw)
       IN  CASE status = "succeeded" -> Succeeds(Products(job.items), job, "polling")
             [] status = "failed" -> Reply("failed", Failure(job), {}, Said(job.error), job) /\ stage' = "ended"
             [] status = "canceled" -> Reply("canceled", "none", {}, "nothing", job) /\ stage' = "ended"
             [] OTHER -> Reply(status, "none", {}, "nothing", job) /\ stage' = "polling"
    /\ UNCHANGED <<served, job>>

PollExchangeFails(d, Reclassify(_, _)) ==
    /\ stage = "polling" /\ Driver = d
    /\ ExchangeFails(Reclassify)
    /\ UNCHANGED <<served, job, stage>>

ArkPoll == PollJob("ark", ArkFailure, ArkProducts) \/ PollExchangeFails("ark", ArkReclassify)
OpenaiVideoPoll ==
    \/ PollJob("openai_video", OpenaiVideoFailure, OpenaiVideoProducts)
    \/ PollExchangeFails("openai_video", OpenaiVideoReclassify)
PredictionsPoll ==
    \/ PollJob("predictions", PredictionsFailure, LAMBDA items : PredictionsProducts(items, "video"))
    \/ PollExchangeFails("predictions", PredictionsReclassify)
MockPoll == PollJob("mock", MockFailure, MockVideo)

\* Poll of google_lro: an operation that is done has an error or a response.
GooglePoll ==
    \/ PollExchangeFails("google_lro", GoogleReclassify)
    \/ /\ stage = "polling" /\ Driver = "google_lro"
       /\ \/ /\ job.raw # "true"
             /\ Reply(Normalize("google_lro", job.raw), "none", {}, "nothing", job) /\ stage' = "polling"
          \/ /\ job.raw = "true" /\ job.error # NoError
             /\ Reply("failed", GoogleFailure(job), {}, Said(job.error), job) /\ stage' = "ended"
          \/ /\ job.raw = "true" /\ job.error = NoError
             /\ Succeeds(GoogleProducts(job.items), job, "polling")
       /\ UNCHANGED <<served, job>>

\* Invoke of openaicompat, for chat and for images: one exchange.
CompatInvoke ==
    /\ stage = "ready" /\ Driver \in {"chat", "images"}
    /\ \/ ExchangeFails(CompatReclassify) /\ stage' = "ended" /\ UNCHANGED job
       \/ /\ job' \in Jobs(Driver)
          /\ IF job'.raw = "error" THEN Fails(CompatClassify(job'.error), Said(job'.error), job') /\ stage' = "ended"
             ELSE Succeeds(IF Driver = "chat" THEN ChatProducts(job'.items) ELSE ImagesProducts(job'.items), job', "ended")
    /\ UNCHANGED served

\* What syncDriver.Invoke of predictions does with a reading of the job.
PredictionsReading(j) ==
    CASE Normalize("predictions", j.raw) = "succeeded" -> Succeeds(PredictionsProducts(j.items, "image"), j, "ended")
      [] Normalize("predictions", j.raw) \in {"failed", "canceled"} ->
            Fails(PredictionsFailure(j), Said(j.error), j) /\ stage' = "ended"
      [] OTHER ->
            \/ Fails("internal_error", "nothing", j) /\ stage' = "ended"   \* no id, or the time is over
            \/ stage' = "settling" /\ UNCHANGED answer

\* syncDriver.Invoke of predictions: submits, and asks again as long as the job is not at its end.
PredictionsInvoke ==
    /\ stage = "ready" /\ ~IsAsync(served) /\ Driver = "predictions"
    /\ \/ ExchangeFails(PredictionsReclassify) /\ stage' = "ended" /\ UNCHANGED job
       \/ job' \in Jobs("predictions") /\ PredictionsReading(job')
    /\ UNCHANGED served

PredictionsSettle ==
    /\ stage = "settling"
    /\ \/ ExchangeFails(PredictionsReclassify) /\ stage' = "ended"
       \/ PredictionsReading(job)
    /\ UNCHANGED <<served, job>>

\* syncDriver.Invoke of mock.
MockInvoke ==
    /\ stage = "ready" /\ ~IsAsync(served) /\ Driver = "mock"
    /\ job' \in JobsOf("mock", "succeeded") \cup JobsOf("mock", "failed")
    /\ IF job'.raw = "failed" THEN Fails(MockFailure(job'), Said(job'.error), job') /\ stage' = "ended"
       ELSE Succeeds(MockImages(job'.items), job', "ended")
    /\ UNCHANGED served

\* Invoke of compose: the provider is the server's own ffmpeg.
ComposeInvoke ==
    /\ stage = "ready" /\ Driver = "compose"
    /\ \/ Fails("internal_error", "nothing", job) /\ stage' = "ended" /\ UNCHANGED job
       \/ job' \in JobsOf("compose", "ok") /\ Succeeds(ComposeProducts(job'.items), job', "ended")
    /\ UNCHANGED served

UpstreamNext ==
    \/ ArkSubmit \/ OpenaiVideoSubmit \/ GoogleSubmit \/ PredictionsSubmit \/ MockSubmit
    \/ ArkPoll \/ OpenaiVideoPoll \/ GooglePoll \/ PredictionsPoll \/ MockPoll
    \/ CompatInvoke \/ PredictionsInvoke \/ PredictionsSettle \/ MockInvoke \/ ComposeInvoke
    \/ JobMoves

UpstreamSpec == UpstreamInit /\ [][UpstreamNext]_upstreamVars

----------------------------------------------------------------------------
(* Properties.                                                             *)

EndAsItWas ==
    /\ answer.status \in Terminal => answer.status = answer.end
    /\ answer.status \in {"queued", "running"} => answer.end = "none"

\* An https address of google_lro is the product that cannot be opened.
CanBeStored(product) ==
    /\ Opens(served, product.kind) \/ (Driver = "google_lro" /\ product.kind = "url")
    /\ product.type = CASE served.family \in {"video", "compose"} -> "video" [] served.family = "chat" -> "text" [] OTHER -> "image"

\* A driver reports the end of a job when it has ended, as it has ended, and not
\* before, whatever words the provider uses on the way; and a success has products,
\* of the type the model is for, that whoever opens them can open (Normalize, Submit,
\* Poll, Invoke, artifactRefs, FetchArtifact, IsAsync, transferor.open).
OutcomeIsReal ==
    /\ EndAsItWas
    /\ answer.status = "succeeded" =>
          answer.products # {} /\ \A product \in answer.products : CanBeStored(product)

\* A request the provider rejects for its content is not sent again, and one that
\* came too fast is, however the provider says so: by the body of an HTTP error, by
\* an error in its answer, or by a job that fails (classify, reclassify, failureFor).
RejectedIsNotRepeated ==
    /\ answer.said \in {"moderation", "flagged"} => answer.code = "content_rejected"
    /\ answer.said = "rate" => answer.code = "upstream_rate_limited"
=============================================================================
