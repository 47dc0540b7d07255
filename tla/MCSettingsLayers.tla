-------------------------- MODULE MCSettingsLayers --------------------------
(* Inputs for SettingsLayers: a connection URL, whose variable files also   *)
(* use, a field files compose from APP_DOMAIN, and every way the two can be *)
(* supplied, left out, or got wrong.                                        *)
EXTENDS SettingsLayers, TLC

AllFields == {"database_url", "cors_origins"}
AllDefaults == "database_url" :> "localhost" @@ "cors_origins" :> "localhost"
AllInvalid == "database_url" :> {""} @@ "cors_origins" :> {}
Join(text, value) == text \o value
AllStages == {"dev", "test", "prod"}
Spellings == "dev" :> "dev" @@ "test" :> "test" @@ " Test" :> "test"
                @@ "PROD" :> "prod" @@ "staging" :> Nil

(* The sources that say of each name one of its values, or nothing. *)
SaidBy(values) ==
    {[name \in {n \in DOMAIN choice : choice[n] # Nil} |-> choice[name]] :
        choice \in {c \in [DOMAIN values -> UNION {values[n] \cup {Nil} : n \in DOMAIN values}] :
                       \A n \in DOMAIN values : c[n] \in values[n] \cup {Nil}}}

SomeInits == SaidBy("app_env" :> {" Test"} @@ "database_url" :> {"init"})

SomeEnvirons ==
    SaidBy("app_env" :> {"PROD", "test"} @@ "database_url" :> {"process", ""}
              @@ "APP_DOMAIN" :> {"process"})

OneDotEnv ==
    SaidBy("app_env" :> {"test", "staging"} @@ "database_url" :> {"file"}
              @@ "APP_DOMAIN" :> {"file"})

SomeDotEnvs ==
    {<<>>} \cup {<<file>> : file \in OneDotEnv}
        \cup {<<"app_env" :> "staging" @@ "database_url" :> "file",
                "app_env" :> "PROD" @@ "APP_DOMAIN" :> "later">>}

Leaf(name, raw) == [path |-> name, name |-> name, raw |-> raw]
Plain(value) == [kind |-> "plain", value |-> value, var |-> Nil, fallback |-> Nil]
Holding(kind, var, fallback) ==
    [kind |-> kind, value |-> kind, var |-> var, fallback |-> fallback]

RawsFor(file) ==
    {Plain(file), Holding("whole", "database_url", Nil)}
        \cup {Holding(kind, "APP_DOMAIN", fallback) :
                 kind \in {"whole", "embedded"}, fallback \in {Nil, "spare"}}

StageFiles(stage) ==
    {Broken, {}, {Leaf("database_url", Plain(stage))}}
        \cup {{Leaf("cors_origins", raw)} : raw \in RawsFor(stage)}
        \cup {{Leaf("cors_origins", Plain(stage)),
               [Leaf("cors_origins", Plain(stage)) EXCEPT !.path = "cors.origins"]},
              {Leaf("cors_orgins", Plain(stage))}, {Leaf("app_env", Plain("test"))}}

(* One stage's file varies at a time; the others are usable. *)
SomeFileSets ==
    {[f \in AllStages \cup {"default"} |->
        IF f = stage THEN file
        ELSE IF f = "default" THEN default ELSE {Leaf("cors_origins", Plain(f))}] :
       <<stage, file, default>> \in
          UNION {{stage} \X StageFiles(stage) \X
                   {{Leaf("cors_origins", Plain("default")), Leaf("database_url", Plain("default"))},
                    {Leaf("cors_origins", Holding("embedded", "APP_DOMAIN", Nil))}, {}} :
                 stage \in AllStages}}
=============================================================================
