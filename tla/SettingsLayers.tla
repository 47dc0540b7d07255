--------------------------- MODULE SettingsLayers ---------------------------
(***************************************************************************)
(* How Settings comes by its values: constructor arguments, the process    *)
(* environment, the .env files and two YAML layers with placeholders, of   *)
(* which the second is chosen by a setting that has to be known first.     *)
(*                                                                         *)
(* A source is a function from the names it supplies to values.  A field   *)
(* and the environment variable of its name are one name; other names are  *)
(* variables that only placeholders use.  What a text looks like is left   *)
(* out: a scalar of a file is plain, is one placeholder, or has one in it. *)
(*                                                                         *)
(* No name is one of Container's, so that one module can prove about both. *)
(***************************************************************************)
EXTENDS Integers, SequencesExt

CONSTANTS
    Fields,         \* fields of Settings but app_env
    Default,        \* their defaults
    Invalid,        \* values their validators refuse: [Fields -> SUBSET of values]
    Stages,         \* dev, test, prod
    Normal,         \* strip().lower() of what APP_ENV may say; Nil if no stage
    Inits, Environs, DotEnvs, FileSets,  \* what Settings() may find
    Compose(_, _),  \* the string that has the second value in a hole of the first
    Nil, Error, Broken  \* no value; an exception; a file that is no mapping

ASSUME StagesAssumption == {"dev", "test"} \subseteq Stages /\ "default" \notin Stages
ASSUME NormalAssumption == \A spelling \in DOMAIN Normal : Normal[spelling] \in Stages \cup {Nil}
ASSUME FieldsAssumption == "app_env" \notin Fields /\ DOMAIN Default = Fields

(* What the process, its constructor and its .env files may say: texts.   *)
Supplies == Inits \cup Environs \cup UNION {Range(files) : files \in DotEnvs}
ASSUME SuppliesAssumption ==
    /\ \A files \in DotEnvs : files \in Seq(Range(files))
    /\ \A source \in Supplies : \A name \in DOMAIN source :
          source[name] # Nil /\ (name = "app_env" => source[name] \in DOMAIN Normal)

(* A mapping has one value at each path, and what is composed is a text.   *)
ASSUME FilesAssumption ==
    \A files \in FileSets :
        /\ DOMAIN files = Stages \cup {"default"}
        /\ \A f \in DOMAIN files : files[f] # Broken =>
              /\ \A leaf, other \in files[f] : leaf.path = other.path => leaf = other
              /\ \A leaf \in files[f] :
                    /\ leaf.raw.kind \in {"plain", "whole", "embedded"}
                    /\ leaf.raw.value # Nil
                    /\ leaf.raw.kind = "embedded" =>
                          \A value \in ({leaf.raw.fallback} \cup UNION {Range(s) : s \in Supplies}) \ {Nil} :
                              Compose(leaf.raw.value, value) \notin {Nil, Error}

VARIABLES
    input,      \* what Settings() finds: one source of each kind
    opened,     \* the YAML files it read
    settings    \* Nil before, Error or the values of the fields after

settingsVars == <<input, opened, settings>>

Inputs == [init : Inits, environ : Environs, dotenv : DotEnvs, file : FileSets]

None == [name \in {} |-> Nil]

(* The first source where it has the name, else the second. *)
above ++ below ==
    [name \in DOMAIN above \cup DOMAIN below |->
        IF name \in DOMAIN above THEN above[name] ELSE below[name]]

Recognised(source) ==
    [name \in DOMAIN source \cap (Fields \cup {"app_env"}) |-> source[name]]

(* dotenv_files: the last file that has the name gives its value. *)
DotEnv(in) ==
    LET Having(name) == {k \in DOMAIN in.dotenv : name \in DOMAIN in.dotenv[k]}
        LastHaving(name) == CHOOSE k \in Having(name) : \A l \in Having(name) : l <= k
    IN  [name \in UNION {DOMAIN in.dotenv[k] : k \in DOMAIN in.dotenv} |->
            in.dotenv[LastHaving(name)][name]]

-----------------------------------------------------------------------------
(* The stage *)

(* Seeded fault: os.environ alone is asked. *)
StageOfProcess(in) ==
    IF "app_env" \in DOMAIN in.environ THEN Normal[in.environ["app_env"]] ELSE "dev"

(* resolve_app_env: constructor, environment, .env, or dev; Nil if what it *)
(* finds first names no stage.                                             *)
StageOf(in) ==
    LET asked == in.init ++ in.environ ++ DotEnv(in)
    IN  IF "app_env" \in DOMAIN asked THEN Normal[asked["app_env"]] ELSE "dev"

-----------------------------------------------------------------------------
(* Placeholders *)

(* Seeded faults: .env wins over the process, or is seen in tests too. *)
InterpolationDotEnvFirst(in, stage) ==
    (IF stage = "test" THEN None ELSE DotEnv(in)) ++ in.environ
InterpolationAlways(in, stage) == in.environ ++ DotEnv(in)

(* interpolation_env: test sees no .env file, and the process wins. *)
InterpolationEnv(in, stage) ==
    in.environ ++ (IF stage = "test" THEN None ELSE DotEnv(in))

(* _resolve: what a placeholder stands for, Nil when nothing supplies it. *)
ResolvePlaceholder(raw, env) == IF raw.var \in DOMAIN env THEN env[raw.var] ELSE raw.fallback

(* Seeded fault: a hole in a composed value makes the key absent as well. *)
ExpandLenient(raw, env) ==
    CASE raw.kind = "plain" -> raw.value
      [] raw.kind # "plain" /\ ResolvePlaceholder(raw, env) = Nil -> Nil
      [] raw.kind = "whole" -> ResolvePlaceholder(raw, env)
      [] OTHER -> Compose(raw.value, ResolvePlaceholder(raw, env))

(* _expand, _interpolate: a bare placeholder without a value leaves the    *)
(* key absent, a hole in a longer string or in a list element is an error. *)
Expand(raw, env) ==
    CASE raw.kind = "plain" -> raw.value
      [] raw.kind = "whole" /\ ResolvePlaceholder(raw, env) = Nil -> Nil
      [] raw.kind = "whole" -> ResolvePlaceholder(raw, env)
      [] raw.kind = "embedded" /\ ResolvePlaceholder(raw, env) = Nil -> Error
      [] OTHER -> Compose(raw.value, ResolvePlaceholder(raw, env))

-----------------------------------------------------------------------------
(* YAML layers.  A file is Broken or the set of its leaves, each with the  *)
(* path it was written at and the name that flattens to.                   *)

(* load_layer, where it raises. *)
Unusable(file, env) ==
    \/ file = Broken
    \/ \E leaf \in file :
          \/ leaf.name \notin Fields
          \/ Expand(leaf.raw, env) = Error
          \/ \E other \in file : other.name = leaf.name /\ other.path # leaf.path

Supplied(file, env) == {leaf \in file : Expand(leaf.raw, env) # Nil}

(* load_layer, where it returns.  Only one leaf has the name. *)
LoadLayer(file, env) ==
    [name \in {leaf.name : leaf \in Supplied(file, env)} |->
        Expand((CHOOSE leaf \in file : leaf.name = name).raw, env)]

Files(stage) == {"default", stage}

(* YamlSettingsSource: the stage's file over default.yml. *)
Yaml(in, stage) ==
    LET env == InterpolationEnv(in, stage)
    IN  LoadLayer(in.file[stage], env) ++ LoadLayer(in.file["default"], env)

-----------------------------------------------------------------------------
(* settings_customise_sources, highest precedence first, over the fields'  *)
(* own defaults; test skips the .env layer.                                *)
Merged(in, stage) ==
    [name \in {"app_env"} |-> stage] ++ Recognised(in.init) ++ Recognised(in.environ)
        ++ (IF stage = "test" THEN None ELSE Recognised(DotEnv(in)))
        ++ Yaml(in, stage) ++ Default

Acceptable(values) == \A f \in Fields : values[f] \notin Invalid[f]

(* Settings(): the layers first, then the validators on every value. *)
Outcome(in) ==
    LET stage == StageOf(in) IN
    IF \/ stage = Nil
       \/ \E f \in Files(stage) : Unusable(in.file[f], InterpolationEnv(in, stage))
       \/ ~Acceptable(Merged(in, stage))
    THEN Error
    ELSE Merged(in, stage)

(* YamlSettingsSource reads the lower file first and stops where it raises. *)
Read(in) ==
    LET stage == StageOf(in) IN
    IF stage = Nil THEN {}
    ELSE IF Unusable(in.file["default"], InterpolationEnv(in, stage)) THEN {"default"}
    ELSE Files(stage)

SettingsInit ==
    /\ input \in Inputs
    /\ opened = {}
    /\ settings = Nil

Load ==
    /\ settings = Nil
    /\ settings' = Outcome(input)
    /\ opened' = Read(input)
    /\ UNCHANGED input

SettingsSpec == SettingsInit /\ [][Load]_settingsVars

-----------------------------------------------------------------------------
Loaded == settings \notin {Nil, Error}

(* Shape of the variables: what is loaded has a value for every field, none *)
(* that a validator refuses.                                               *)
SettingsTypeOK ==
    /\ input \in Inputs
    /\ opened \subseteq Stages \cup {"default"}
    /\ Loaded => /\ DOMAIN settings = Fields \cup {"app_env"}
                 /\ Acceptable(settings)

(* What a loaded outcome was made from. *)
Stage == settings["app_env"]
Env == InterpolationEnv(input, Stage)
AboveYaml == input.init ++ input.environ ++
                 (IF Stage = "test" THEN None ELSE DotEnv(input))
Says(f, name) == {leaf \in input.file[f] : leaf.name = name}

(* resolve_app_env and StageSource: Settings.app_env reports the stage     *)
(* whose file was read, which is the one the highest source names, also    *)
(* when only .env names it or a source spells it differently.              *)
StageIsTheLayer ==
    Loaded =>
        /\ opened = {"default", Stage}
        /\ LET sources == <<input.init, input.environ>> \o Reverse(input.dotenv)
               Asks(k) == "app_env" \in DOMAIN sources[k]
           IN  \/ \E k \in DOMAIN sources :
                    /\ Asks(k) /\ \A higher \in 1 .. k - 1 : ~Asks(higher)
                    /\ Stage = Normal[sources[k]["app_env"]]
               \/ Stage = "dev" /\ \A k \in DOMAIN sources : ~Asks(k)

(* APP_ENV=test resolves "identically on every machine": nothing in the    *)
(* developer's .env files changes the outcome, through a setting or through *)
(* a placeholder, or makes the difference between a failure and none.      *)
TestIsHermetic ==
    settings # Nil /\ StageOf(input) = "test" =>
        \A files \in DotEnvs :
            LET elsewhere == [input EXCEPT !.dotenv = files]
            IN  StageOf(elsewhere) = "test" => Outcome(elsewhere) = settings

(* A placeholder reads a setting's variable with "the precedence used for  *)
(* the settings themselves": where ${DATABASE_URL} is all of a field, the  *)
(* field agrees with database_url whenever environment or .env supply it.  *)
PlaceholdersAgree ==
    Loaded =>
        \A f \in Fields \ DOMAIN AboveYaml : \A leaf \in Says(Stage, f) :
            leaf.raw.kind = "whole"
                /\ leaf.raw.var \in (DOMAIN Env \cap Fields) \ DOMAIN input.init
            => settings[f] = settings[leaf.raw.var]

(* load_layer: a value composed from a variable nobody supplies is an      *)
(* error, in either file and even where a higher source has the field; it  *)
(* never gives way to a lower layer.  Only a bare placeholder without a    *)
(* value does, and whatever else a file says holds unless a higher layer   *)
(* has a value for that field.                                             *)
NoHoleIsPapered ==
    Loaded =>
        \A f \in opened, name \in Fields : \A leaf \in Says(f, name) :
            LET value == ResolvePlaceholder(leaf.raw, Env)
                bare  == leaf.raw.kind = "whole" /\ value = Nil
            IN  /\ leaf.raw.kind = "embedded" => value # Nil
                /\ \/ bare
                   \/ settings[name] = Expand(leaf.raw, Env)
                   \/ name \in DOMAIN AboveYaml
                   \/ f = "default" /\ Supplied(Says(Stage, name), Env) # {}
=============================================================================
