------------------------------- MODULE Requests -------------------------------
(* What the coordinator may ask and what the receiver accepts: the request
   models of request.py, filled in by the campaign GUI or by any caller, the
   receiver's validate, and the metadata an accepted run leaves in the configs
   of its channels.  The two validators are written twice, once on each side of
   the link, and have to agree.

   A value is a Python object: its type, and a number in hundredths (of MeV, of
   mm, of a second). *)
EXTENDS Integers, Sequences

CONSTANTS
  EnergyValues, LengthValues,   \* numbers, in hundredths, that are tried
  DurationValues,
  StartFields,   \* which fields of a START are tried with all their values
  ReceiverEnergies, ReceiverThicknesses   \* of the receiver's config

Types == {"int", "float", "bool", "nan", "none", "text"}
Value(type, n) == [type |-> type, n |-> n]
Nothing == Value("none", 0)
NumberValues(set) == [type : {"int", "float"}, n : set]
Oddities == {Value("bool", 100), Value("bool", 0), Value("nan", 0),
             Value("text", 0), Nothing}

ASSUME RequestsAssumption ==
  /\ StartFields \subseteq {"energy", "shield", "duration", "extras"}
  /\ EnergyValues \cup LengthValues \cup DurationValues \subseteq Int

VARIABLES
  form,       \* the arguments of create, or what the GUI makes them from
  request,    \* what create returns; Refused if it raises
  verdict,    \* of the receiver: "none" before it has the request
  config      \* the metadata keys of a channel's config, and whose value they have

requestVars == <<form, request, verdict, config>>

----------------------------------------------------------------------------
(* constants.py and campaign_config.py. *)

BeamEnergies == {5000, 5300, 6300, 10000, 20000}
CampaignEnergies == {5000, 6300, 10000, 20000}
Materials == {"Bare", "Aluminium", "MLC1", "MLC2"}
Thicknesses == {0, 800, 1200, 1600}
MaxDuration == 8640000
Modes == {"preset", "custom"}

\* SHIELD_CONFIGURATIONS: the physical thickness of a reference level.
Physical(material, reference) ==
  CASE material = "Bare" -> 0
    [] material = "MLC1" -> reference
    [] material = "MLC2" -> (reference * 9025) \div 10000
    [] material = "Aluminium" ->
         CASE reference = 800 -> 385 [] reference = 1200 -> 578
           [] reference = 1600 -> 771

----------------------------------------------------------------------------
(* The rules the two sides share. *)

IsNumber(x) == x.type \in {"int", "float"}

\* _validated_number and _validated_numeric: NaN and infinity are not finite.
Validated(x, allowZero) ==
  IsNumber(x) /\ x.n >= 0 /\ (allowZero \/ x.n > 0)

\* Python's == and `in`: a bool is a number, None and text are none.
Equal(x, y) ==
  \/ x.type \in {"int", "float", "bool"} /\ y.type \in {"int", "float", "bool"}
     /\ x.n = y.n
  \/ x.type \notin {"int", "float", "bool", "nan"} /\ x = y
Among(x, set) == x.type \in {"int", "float", "bool"} /\ x.n \in set

BareHasNone(material, x) ==
  /\ material = "Bare" => Among(x, {0})
  /\ material # "Bare" => ~Among(x, {0})

----------------------------------------------------------------------------
(* request.py. *)

Refused == [command |-> "refused"]
Or(x, y) == IF x = Nothing THEN y ELSE x

EnergyOk(f) ==
  /\ f.energyMode \in Modes
  /\ f.energyMode = "preset" => f.energy.type = "int" /\ f.energy.n \in BeamEnergies
  /\ f.energyMode = "custom" => Validated(f.energy, FALSE)

\* MUTANT of PresetOk: a thickness is none without a look at the material.
PresetWithoutBare(f) ==
  /\ f.material \in Materials
  /\ f.thickness.type = "int" /\ f.thickness.n \in Thicknesses
  /\ Equal(Or(f.reference, f.thickness), f.thickness)
  /\ Validated(Or(f.actual, f.thickness), f.material = "Bare")

PresetOk(f) ==
  /\ f.material \in Materials
  /\ f.thickness.type = "int" /\ f.thickness.n \in Thicknesses
  /\ BareHasNone(f.material, f.thickness)
  /\ Equal(Or(f.reference, f.thickness), f.thickness)
  /\ Validated(Or(f.actual, f.thickness), f.material = "Bare")

CustomOk(f) ==
  /\ f.material # "blank"
  /\ Validated(f.thickness, FALSE) /\ Validated(Or(f.actual, f.thickness), FALSE)
  /\ Or(f.actual, f.thickness).n = f.thickness.n
  /\ f.reference = Nothing \/ Validated(f.reference, TRUE)

DurationOk(f) ==
  IsNumber(f.duration) /\ 0 < f.duration.n /\ f.duration.n <= MaxDuration

ExtrasOk(f) ==
  f.configurationId \in {"id", "empty"} /\ f.campaignMetadata \in {"dict", "none"}

\* TestRequest.create.
CreateStart(f) ==
  IF /\ EnergyOk(f)
     /\ f.mode \in Modes /\ f.material # "no_text"
     /\ f.mode = "preset" => PresetOk(f)
     /\ f.mode = "custom" => CustomOk(f)
     /\ ExtrasOk(f) /\ DurationOk(f)
  THEN [f EXCEPT !.reference = IF f.mode = "preset" THEN Or(@, f.thickness) ELSE @,
                 !.actual = Or(@, f.thickness),
                 !.campaignMetadata = "dict"]
  ELSE Refused

\* int(round(...)), half to even.
Round(hundredths) ==
  LET q == hundredths \div 100
      r == hundredths % 100
  IN IF r > 50 \/ (r = 50 /\ q % 2 = 1) THEN q + 1 ELSE q

\* BaselineTestRequest.create: the minutes are given as hundredths of a second.
CreateBaseline(f) ==
  IF DurationOk(f)
  THEN [f EXCEPT !.duration = Value("int", 100 * Round(f.duration.n))]
  ELSE Refused

Create(f) == IF f.command = "START_TEST" THEN CreateStart(f) ELSE CreateBaseline(f)

----------------------------------------------------------------------------
(* control_receiver.py: validate, and run_metadata with apply_metadata. *)

ShieldAccepted(r) ==
  /\ r.mode = "preset" =>
       /\ r.material \in Materials /\ Among(r.thickness, ReceiverThicknesses)
       /\ BareHasNone(r.material, r.thickness)
       /\ r.reference = Nothing \/ Equal(r.reference, r.thickness)
       /\ r.actual = Nothing \/ Validated(r.actual, r.material = "Bare")
  /\ r.mode = "custom" =>
       /\ r.material \notin {"no_text", "blank"}
       /\ Validated(r.thickness, FALSE) /\ Validated(r.actual, FALSE)
       /\ r.thickness.n = r.actual.n

Accepted(r) ==
  /\ IsNumber(r.duration) /\ 0 < r.duration.n /\ r.duration.n <= MaxDuration
  /\ r.command = "START_TEST" =>
       /\ r.energyMode \in Modes /\ r.mode \in Modes
       /\ r.energyMode = "preset" => Among(r.energy, ReceiverEnergies)
       /\ r.energyMode = "custom" => Validated(r.energy, FALSE)
       /\ ShieldAccepted(r)
       /\ r.configurationId # "no_text" /\ r.campaignMetadata = "dict"

BeamKeys ==
  {"beam_energy", "beam_energy_mode", "shield_config", "shielding_mode",
   "shielding_material", "shielding_reference_mm",
   "shielding_actual_thickness_mm", "shielding_configuration_id"}
\* MUTANT of BaselineKeys: the keys of the shield's preset are left out.
BaselineKeysOfBeam == {"beam_energy", "beam_energy_mode", "shield_config", "shielding_mode"}

BaselineKeys ==
  {"beam_energy", "beam_energy_mode", "shield_config", "shielding_mode",
   "shielding_material", "shielding_reference_mm",
   "shielding_actual_thickness_mm", "shielding_configuration_id"}

\* The keys of the run's metadata, with whose values they are.
RunMetadata(r) ==
  IF r.command = "START_TEST" THEN [key \in BeamKeys |-> "beam"]
  ELSE [key \in BaselineKeys |-> "no_beam"]

\* cfg.update(meta): the other keys stay.
Updated(cfg, meta) ==
  [key \in DOMAIN cfg \cup DOMAIN meta |->
     IF key \in DOMAIN meta THEN meta[key] ELSE cfg[key]]

----------------------------------------------------------------------------
(* The forms.  One field, or the fields of the shield, takes all its values
   while the others have those of a plain run. *)

Plain ==
  [command |-> "START_TEST", gui |-> FALSE,
   energy |-> Value("int", 10000), energyMode |-> "preset",
   material |-> "MLC1", thickness |-> Value("int", 800), mode |-> "preset",
   reference |-> Nothing, actual |-> Nothing,
   configurationId |-> "empty", campaignMetadata |-> "none",
   duration |-> Value("int", 10000)]

EnergyForm(e, m) == [Plain EXCEPT !.energy = e, !.energyMode = m]
ShieldForm(m, name, t, ref, act) ==
  [Plain EXCEPT !.mode = m, !.material = name, !.thickness = t, !.reference = ref,
                !.actual = act]
DurationForm(d, c) == [Plain EXCEPT !.duration = d, !.command = c]
ExtraForm(i, d, m) ==
  [Plain EXCEPT !.configurationId = i, !.campaignMetadata = d, !.mode = m]

EnergyForms ==
  {EnergyForm(e, m) : e \in NumberValues(EnergyValues) \cup Oddities,
                      m \in Modes \cup {"other"}}
ShieldForms ==
  {ShieldForm(m, name, t, ref, act) :
     m \in Modes \cup {"other"},
     name \in {"Bare", "MLC1", "own", "blank", "no_text"},
     t \in NumberValues(LengthValues) \cup {Value("bool", 0), Value("nan", 0)},
     ref \in NumberValues(LengthValues) \cup Oddities,
     act \in NumberValues(LengthValues) \cup Oddities}
DurationForms ==
  {DurationForm(d, c) : d \in NumberValues(DurationValues) \cup Oddities,
                        c \in {"START_TEST", "BASELINE_TEST"}}
ExtraForms ==
  {ExtraForm(i, d, m) : i \in {"id", "empty", "no_text"}, d \in {"dict", "none", "other"},
                        m \in Modes}

\* What the campaign GUI offers (campaign_on_start_test, _resolve_beam_energy): a
\* preset shield, none or a shield of the operator's own with a custom energy,
\* and a baseline of whole minutes.
GuiPreset(e, name, t) ==
  [command |-> "START_TEST", gui |-> TRUE,
   energy |-> Value("int", e), energyMode |-> "preset",
   material |-> name, thickness |-> Value("int", t), mode |-> "preset",
   reference |-> Value("int", t), actual |-> Value("float", Physical(name, t)),
   configurationId |-> "id", campaignMetadata |-> "dict",
   duration |-> Value("int", 10000)]

GuiCustom(m) ==
  [command |-> "START_TEST", gui |-> TRUE,
   energy |-> Value("float", 5550), energyMode |-> "custom",
   material |-> IF m = "preset" THEN "Bare" ELSE "own",
   thickness |-> IF m = "preset" THEN Value("int", 0) ELSE Value("float", 725),
   mode |-> m,
   reference |-> IF m = "preset" THEN Value("int", 0) ELSE Nothing,
   actual |-> IF m = "preset" THEN Value("float", 0) ELSE Value("float", 725),
   configurationId |-> "id", campaignMetadata |-> "dict",
   duration |-> Value("int", 10000)]

GuiBaseline(minutes) ==
  [Plain EXCEPT !.gui = TRUE, !.command = "BASELINE_TEST",
                !.duration = Value("int", 6000 * minutes)]

GuiForms ==
  {GuiPreset(e, name, t) :
     e \in CampaignEnergies, name \in Materials \ {"Bare"}, t \in Thicknesses \ {0}}
  \cup {GuiCustom(m) : m \in Modes}
  \cup {GuiBaseline(minutes) : minutes \in {1, 60, 1440}}

Forms ==
  GuiForms
  \cup (IF "energy" \in StartFields THEN EnergyForms ELSE {})
  \cup (IF "shield" \in StartFields THEN ShieldForms ELSE {})
  \cup (IF "duration" \in StartFields THEN DurationForms ELSE {})
  \cup (IF "extras" \in StartFields THEN ExtraForms ELSE {})

NoForm == [command |-> "none", gui |-> FALSE]

RequestsInit ==
  form = NoForm /\ request = Refused /\ verdict = "none" /\ config = <<>>

\* The operator, or a caller, makes a request.  Bound: any of Forms as the first
\* one, those of the GUI from then on.
MakeRequest(f) ==
  /\ verdict # "none" \/ request = Refused
  /\ form' = f /\ request' = Create(f) /\ verdict' = "none"
  /\ UNCHANGED config

\* handle_message: validate, and for a run apply_metadata.
HandleRequest ==
  /\ verdict = "none" /\ request # Refused
  /\ verdict' = IF Accepted(request) THEN "accepted" ELSE "rejected"
  /\ config' = IF Accepted(request) THEN Updated(config, RunMetadata(request))
               ELSE config
  /\ UNCHANGED <<form, request>>

RequestsNext ==
  \/ \E f \in IF form = NoForm THEN Forms ELSE GuiForms : MakeRequest(f)
  \/ HandleRequest

RequestsSpec == RequestsInit /\ [][RequestsNext]_requestVars

----------------------------------------------------------------------------
(* Properties. *)

RequestsTypeOK ==
  /\ verdict \in {"none", "accepted", "rejected"}
  /\ DOMAIN config \subseteq BeamKeys
  /\ request # Refused => request.command \in {"START_TEST", "BASELINE_TEST"}

\* Two requests that create lets through and the receiver does not know:
\* 53 MeV, which only the coordinator has kept, and a baseline shorter than half
\* a second, which is rounded to none.
Retired(r) == r.command = "START_TEST" /\ r.energy.n = 5300 /\ r.energyMode = "preset"
TooShort(r) == r.command = "BASELINE_TEST" /\ r.duration.n = 0

\* The rules on both sides of the link agree, over types and modes: what the
\* campaign GUI offers passes both, and no request that create lets through is
\* rejected by the receiver, except for the two above (control_receiver.py:82,
\* "must match the arbiter's sender").
CreatedIsAccepted ==
  /\ form.gui => request # Refused /\ verdict # "rejected"
  /\ verdict = "rejected" => Retired(request) \/ TooShort(request)

\* After an accepted baseline no key of a channel's config has a value of an
\* earlier beam run (run_metadata: nothing stale survives), and after a beam run
\* none says that there was no beam.
NothingStale ==
  verdict = "accepted" =>
    \A key \in DOMAIN config :
      config[key] = IF request.command = "START_TEST" THEN "beam" ELSE "no_beam"
=============================================================================
