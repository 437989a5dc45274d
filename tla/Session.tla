---- MODULE Session ----
(* One process after another: what the plugin brings up when SKSE, the game and ENB call
   it, what it takes down when ENB leaves, and the settings it reads while it runs.

   Plugin.cpp      on_skse_message, connect_enb, on_enb_callback
   Presentation    install_presentation_bootstrap, d3d11_create_hook, factory_create_hook,
                   PresentationBridge::create
   D3D12Backend, RendererRuntime, SuperResolution, FeatureSupport, FrameGeneration,
   FrameSubmission, LowLatencyController, Api: initialize and shutdown.

   The parts share nothing but the order in which they are called, and every one of them
   may refuse.  `up` says what is up:
     api       the Streamline runtime is loaded and initialised
     backend   none, native, or proxy: the D3D12 device and factory are Streamline's
     bridge    the game's swap chain is the bridge's
     sr        the provider SuperResolution is initialised for, or none
     fsup, fg, timing   the three parts that hold functions of the loaded runtime
     features  all of them answered, and DLSS-G may be driven
     rr        none, or the adapter RendererRuntime is ready for
     latency   the low-latency backend that was chosen *)
EXTENDS SettingsFile

CONSTANTS Gpu,          \* the adapter's vendor: nvidia, amd or intel
          MaxLaunches

ASSUME LaunchBound == MaxLaunches \in Nat /\ Gpu \in {"nvidia", "amd", "intel"}

VARIABLES up,
          boot,      \* posted, factory (none, hooked, missed), enb, teardown
          launches

vars == <<settingsVars, up, boot, launches>>

Down == [api |-> FALSE, backend |-> "none", bridge |-> FALSE, sr |-> "none", fsup |-> FALSE,
         fg |-> FALSE, timing |-> FALSE, features |-> FALSE, rr |-> "none", latency |-> "none"]
Unbooted == [posted |-> FALSE, factory |-> "none", enb |-> FALSE, teardown |-> FALSE]

----
(* Bringing the parts up: each operator is the set of what may come of the call *)

\* RuntimeLoader::load: the interposer is there, inside the plugin's own directory and
\* signed; otherwise nothing is loaded.
RuntimeLoads == BOOLEAN

\* Api::initialize: a runtime that lacks a function, or that refuses, is unloaded again.
ApiOutcomes(u) ==
    {[u EXCEPT !.api = loads /\ answers] : loads \in RuntimeLoads, answers \in BOOLEAN}

\* Api::shutdown
ApiDown(u) == [u EXCEPT !.api = FALSE]

\* Streamline's device and factory are used only when the runtime is up and no other vendor
\* generates the frames; then each feature and each upgrade may still be refused.
ProxyUsable(u) == u.api /\ memory.value.vendor = "off"

\* D3D12Backend::initialize
BackendOutcomes(u) ==
    IF u.backend # "none" THEN {u}
    ELSE {[u EXCEPT !.backend = b] :
            b \in {"none", "native"} \cup (IF ProxyUsable(u) THEN {"proxy"} ELSE {})}

\* SuperResolution::initialize for the configured provider; another one is let go first.
SrOutcomes(u) ==
    IF u.sr = memory.value.provider THEN {u}
    ELSE {[u EXCEPT !.sr = s] : s \in {"none", memory.value.provider}}

\* FeatureSupport::initialize
SupportOutcomes(u) == {u} \cup (IF u.api THEN {[u EXCEPT !.fsup = TRUE]} ELSE {})

\* FrameSubmission::initialize_timing
TimingOutcomes(u) ==
    IF u.timing THEN {u} ELSE {u} \cup (IF u.api THEN {[u EXCEPT !.timing = TRUE]} ELSE {})

\* FrameGeneration::initialize: needs the supported features and the markers' timing.
GenerationOutcomes(u) ==
    {t \in {[v EXCEPT !.fg = g] : v \in TimingOutcomes(u), g \in BOOLEAN} :
        t.fg => u.fsup /\ t.timing}

FeaturesDownButSupport(u) == [u EXCEPT !.fg = FALSE, !.timing = FALSE]

\* What initialize and shutdown undo together.
FeaturesDown(u) == [u EXCEPT !.fg = FALSE, !.timing = FALSE, !.fsup = FALSE]

\* All of them, or none; then the markers' timing alone may still serve.
FeatureOutcomes(u) ==
    LET tried == IF u.backend = "proxy"
                 THEN UNION {IF v.fsup THEN GenerationOutcomes(v) ELSE {v} :
                               v \in SupportOutcomes(u)}
                 ELSE {u}
    IN {[v EXCEPT !.features = TRUE] : v \in {w \in tried : w.fg}}
       \cup UNION {IF u.backend = "proxy" THEN TimingOutcomes(FeaturesDown(v))
                   ELSE {FeaturesDown(v)} : v \in {w \in tried : ~w.fg}}

\* RendererRuntime::shutdown
RuntimeDown(u) ==
    [FeaturesDown(u) EXCEPT !.latency = "none", !.sr = "none", !.features = FALSE,
                            !.rr = "none"]

\* select_latency_backend: one owner of the pacing, and Reflex only from a loaded runtime.
LatencyBackend(u) ==
    CASE Gpu = "nvidia" /\ memory.value.vendor = "off" /\ u.api -> "reflex"
      [] Gpu = "amd" -> "antilag"
      [] OTHER -> "none"

\* LowLatencyController::initialize: AMD's runtime may refuse.
LatencyOutcomes(u) == {LatencyBackend(u)} \cup (IF Gpu = "amd" THEN {"none"} ELSE {})

\* The camera's hook or the dynamic resolution refuses, and everything goes down.
ReadyOutcomes(u, adapter) ==
    {RuntimeDown(u)} \cup {[u EXCEPT !.rr = adapter, !.latency = l] : l \in LatencyOutcomes(u)}

\* RendererRuntime::initialize
RuntimeOutcomes(u, adapter) ==
    IF u.rr # "none" THEN {u}
    ELSE UNION {IF b.backend = "none" THEN {b}
                ELSE UNION {{RuntimeDown(s)}
                            \cup (IF s.sr = "none" THEN {}
                                  ELSE UNION {ReadyOutcomes(f, adapter) :
                                                f \in FeatureOutcomes(s)}) :
                              s \in SrOutcomes(b)} :
                  b \in BackendOutcomes(u)}

ConfiguredAnyway == TRUE

\* PresentationBridge::create refuses to choose anything before the settings are loaded.
Configured == memory.loaded

\* The chain is made or refused; without ENB the bridge brings the runtime up itself.
MadeOutcomes(u) ==
    {u} \cup (IF boot.enb THEN {[u EXCEPT !.bridge = TRUE]}
              ELSE RuntimeOutcomes([u EXCEPT !.bridge = TRUE], "vanilla"))

\* The upscaler the configured mode needs.
UpscalerOutcomes(u) == IF memory.value.mode = "off" THEN {u} ELSE SrOutcomes(u)
UpscalerServes(u) == memory.value.mode = "off" \/ u.sr # "none"

\* PresentationBridge::create.  A refusal leaves what was brought up before it.
CreateOutcomes(u) ==
    IF u.bridge THEN {u}
    ELSE UNION {IF b.backend = "none" \/ ~Configured THEN {b}
                ELSE UNION {{s} \cup (IF UpscalerServes(s) THEN MadeOutcomes(s) ELSE {}) :
                              s \in UpscalerOutcomes(b)} :
                  b \in BackendOutcomes(u)}

----
(* Actions *)

Serving == up.bridge /\ up.rr # "none"

\* enb::Api::connect: the module is loaded, has its exports, and is of a known version.
Connects == BOOLEAN

\* kPostLoad: the settings, the runtime, the import hook, and ENB if it is there.
PostLoad ==
    /\ ~boot.posted
    /\ Load(NoSave)
    /\ up' \in ApiOutcomes(up)
    /\ \E enb \in Connects : boot' = [boot EXCEPT !.posted = TRUE, !.enb = enb]
    /\ UNCHANGED <<io, left, launches>>

\* The game creates its device: the first call hooks the factory, once, and a call that
\* finds no factory is not made up for later.
CreateDevice ==
    /\ boot.posted /\ boot.factory = "none"
    /\ boot' \in {[boot EXCEPT !.factory = f] : f \in {"hooked", "missed"}}
    /\ UNCHANGED <<settingsVars, up, launches>>

\* The game's swap chain becomes the bridge's, or stays native.
CreateSwapChain ==
    /\ boot.factory = "hooked"
    /\ io.kind = "idle"
    /\ up' \in CreateOutcomes(up)
    /\ UNCHANGED <<settingsVars, boot, launches>>

\* ENB's initialize callback; after its exit the runtime is loaded again first.
EnbInitialize ==
    /\ boot.posted /\ boot.enb
    /\ io.kind = "idle"
    /\ \E u \in IF boot.teardown /\ ~up.api THEN ApiOutcomes(up) ELSE {up} :
          up' \in RuntimeOutcomes(u, "enb")
    /\ UNCHANGED <<settingsVars, boot, launches>>

\* What ENB's exit takes down, in its order, the runtime the others hold last.
TakenDown(u) == ApiDown([RuntimeDown(u) EXCEPT !.bridge = FALSE, !.backend = "none"])

EnbExit ==
    /\ boot.posted /\ boot.enb
    /\ io.kind = "idle"
    /\ up' = TakenDown(up)
    /\ boot' = [boot EXCEPT !.teardown = TRUE]
    /\ UNCHANGED <<settingsVars, launches>>

\* A presented frame polls the file; a save may fall into the poll itself.
Frame ==
    /\ Serving
    /\ \/ ReloadIfChanged(NoSave) /\ UNCHANGED left
       \/ /\ left.edits > 0
          /\ \E key \in LiveKeys : \E text \in Known[key] :
                text # ini.text[key] /\ ReloadIfChanged([k \in {key} |-> text])
          /\ left' = [left EXCEPT !.edits = @ - 1]
    /\ UNCHANGED <<up, boot, launches>>

Menu == /\ Serving
        /\ MenuWrites
        /\ UNCHANGED <<up, boot, launches>>

Writing == /\ WriteStep
           /\ UNCHANGED <<up, boot, launches>>

Editor == /\ Edit \/ RacingSave
          /\ UNCHANGED <<up, boot, launches>>

\* The process ends, in the middle of its writes if it crashes, and is launched again.
Relaunch ==
    /\ launches < MaxLaunches
    /\ launches' = launches + 1
    /\ up' = Down
    /\ boot' = Unbooted
    /\ memory' = Unloaded
    /\ io' = Idle
    /\ ini' = [ini EXCEPT !.unseen = FALSE]
    /\ ghost' = [apart |-> {}, unread |-> {}]
    /\ UNCHANGED left

Init == /\ SettingsInit
        /\ up = Down
        /\ boot = Unbooted
        /\ launches = 0

Next == \/ PostLoad \/ CreateDevice \/ CreateSwapChain
        \/ EnbInitialize \/ EnbExit
        \/ Frame \/ Menu \/ Writing \/ Editor
        \/ Relaunch

Spec == Init /\ [][Next]_vars

----
(* Properties *)

TypeOK ==
    /\ ini.present \in BOOLEAN /\ ini.unseen \in BOOLEAN
    /\ \A k \in Keys : ini.text[k] \in Texts(k)
    /\ memory.loaded \in BOOLEAN
    /\ \A k \in Keys : memory.value[k] \in Known[k]
    /\ up.backend \in {"none", "native", "proxy"}
    /\ up.rr \in {"none", "vanilla", "enb"}

\* Once the plugin has seen the file's time, its memory says what the file says, except for
\* keys whose save it wrote over the top of unread, that fell into a read, or that are
\* staged for the next launch.  The file's time is taken in twelve setters, one commit, one
\* staging and one load, and each refusal path must leave it alone.
MemoryIsFile ==
    memory.loaded /\ ~ini.unseen /\ io.kind = "idle" =>
        \A k \in LiveKeys \ ghost.apart : memory.value[k] = ReadKey(k, ini.text[k])

\* Provider and mode are two writes, yet an operation that returns to the menu leaves the
\* file with a pair that was chosen as a pair (what the file said, what the plugin ran, or
\* what was asked for), unless an undo was itself refused or an editor broke in.
PairWhole ==
    [][io.kind # "idle" /\ io'.kind = "idle" /\ launches' = launches /\ ~io.torn /\ ~io'.torn =>
         Pair(ini'.text) \in {io.raw, Pair(io.before), Pair(io.to)}]_vars

\* One frame generator is served: Streamline's device is used only while the latched
\* setting names no other vendor, and Reflex paces the frames only then, however late the
\* file appeared and however often ENB came and went.
RouteAgrees == up.backend = "proxy" \/ up.latency = "reflex" => memory.value.vendor = "off"

HeldFromLoaded ==
    /\ up.backend = "proxy" \/ up.fsup \/ up.fg \/ up.timing \/ up.latency = "reflex" => up.api
    /\ up.bridge => up.backend # "none"

FeaturesWhole ==
    IF up.features THEN up.rr # "none" /\ up.backend = "proxy" /\ up.fsup /\ up.fg /\ up.timing
    ELSE ~up.fsup /\ ~up.fg /\ (up.timing => up.rr # "none")

\* However the parts refused and however often ENB came and went: nothing that came from the
\* Streamline runtime outlives its being unloaded, the bridge never outlives the device it
\* presents with, and DLSS-G is driven whole or not at all, so that no half of it stays up
\* behind a runtime that goes on without it or is not ready.
PartsWhole == HeldFromLoaded /\ FeaturesWhole

====
