---------------------------- MODULE WebhookConfig ----------------------------
(***************************************************************************)
(* The webhook's configuration file format: the structs of                 *)
(* src/pkg/apis/config/webhook/v1alpha1/types.go and what their json tags  *)
(* make encoding/json do with them.                                        *)
(*                                                                         *)
(* A configuration is built in memory (fields set one at a time from the  *)
(* Go zero value), marshalled to a file, and loaded by the webhook:       *)
(* unmarshalled into a zero WebhookConfiguration and defaulted as the     *)
(* field comments say.  A struct is a record with the json names as its   *)
(* fields; a JSON object is a function from the emitted keys.  A nil      *)
(* pointer, slice or map is Nil; a set pointer is its pointee.            *)
(* omitempty drops "", false, 0, nil and empty slices and maps; a field   *)
(* without it, and every struct-valued field, is always emitted.          *)
(* logsapi.LoggingConfiguration is a type of another module and is left   *)
(* out.                                                                    *)
(***************************************************************************)
EXTENDS Naturals, Sequences

CONSTANTS
    Nil,       \* the nil pointer, slice or map
    MaxEdits   \* bound on fields set before the configuration is written

ASSUME EditsAssumption == MaxEdits \in Nat

\* Small value domains: each distinguishes the zero value from the rest.
Strs  == {"", "v"}
Ports == {Nil, 0, 10250}
Lists == {Nil, <<>>, <<"v">>}
Gates == {Nil, [g \in {} |-> TRUE], [g \in {"g"} |-> TRUE]}

EmptyObject == [x \in {} |-> Nil]

\* The fields of each struct a configuration may set, with their values.
FilesystemFields == [certFile |-> Strs, keyFile |-> Strs]
DynamicFields == [secretNamespace |-> Strs, secretName |-> Strs, dnsNames |-> Lists]
TLSFields == [cipherSuites |-> Lists, minTLSVersion |-> Strs]
TopFields ==
    [kind |-> Strs, apiVersion |-> Strs, securePort |-> Ports, healthzPort |-> Ports,
     kubeConfig |-> Strs, apiServerHost |-> Strs, enablePprof |-> BOOLEAN,
     pprofAddress |-> Strs, featureGates |-> Gates]

\* The Go zero value of WebhookConfiguration: what &WebhookConfiguration{}
\* and json.Unmarshal start from.
ZeroConfig ==
    [kind |-> "", apiVersion |-> "", securePort |-> Nil, healthzPort |-> Nil,
     kubeConfig |-> "", apiServerHost |-> "", enablePprof |-> FALSE,
     pprofAddress |-> "", featureGates |-> Nil,
     tlsConfig |-> [cipherSuites |-> Nil, minTLSVersion |-> "",
                    filesystem |-> [certFile |-> "", keyFile |-> ""],
                    dynamic |-> [secretNamespace |-> "", secretName |-> "",
                                 dnsNames |-> Nil]]]

-----------------------------------------------------------------------------
(* Marshalling.  A struct is written as the object of its fields, minus   *)
(* those whose tag says omitempty and whose value is empty: empty[key] is *)
(* that test for each field, FALSE for a field without omitempty.         *)

Object(fields, empty) == [key \in {k \in DOMAIN fields : ~empty[k]} |-> fields[key]]

OmitString(s) == s = ""
OmitPointer(p) == p = Nil
OmitList(l) == l = Nil \/ DOMAIN l = {}

EncodeFilesystemServingConfig(f) ==
    Object([certFile |-> f.certFile, keyFile |-> f.keyFile],
           [certFile |-> OmitString(f.certFile), keyFile |-> OmitString(f.keyFile)])

EncodeDynamicServingConfig(d) ==
    Object([secretNamespace |-> d.secretNamespace, secretName |-> d.secretName,
            dnsNames |-> d.dnsNames],
           [secretNamespace |-> OmitString(d.secretNamespace),
            secretName |-> OmitString(d.secretName), dnsNames |-> OmitList(d.dnsNames)])

EncodeTLSConfig(t) ==
    Object([cipherSuites |-> t.cipherSuites, minTLSVersion |-> t.minTLSVersion,
            filesystem |-> EncodeFilesystemServingConfig(t.filesystem),
            dynamic |-> EncodeDynamicServingConfig(t.dynamic)],
           [cipherSuites |-> OmitList(t.cipherSuites),
            minTLSVersion |-> OmitString(t.minTLSVersion),
            filesystem |-> FALSE, dynamic |-> FALSE])

\* The fields of a WebhookConfiguration; TypeMeta is inlined, so kind and
\* apiVersion are top-level keys.
ConfigFields(c) ==
    [kind |-> c.kind, apiVersion |-> c.apiVersion,
     securePort |-> c.securePort, healthzPort |-> c.healthzPort,
     tlsConfig |-> EncodeTLSConfig(c.tlsConfig),
     kubeConfig |-> c.kubeConfig, apiServerHost |-> c.apiServerHost,
     enablePprof |-> c.enablePprof, pprofAddress |-> c.pprofAddress,
     featureGates |-> c.featureGates]

\* Mutant: the ports as int32 values with omitempty, so 0 is dropped.
EncodePortsByValue(c) ==
    Object(ConfigFields(c),
           [kind |-> OmitString(c.kind), apiVersion |-> OmitString(c.apiVersion),
            securePort |-> c.securePort \in {Nil, 0},
            healthzPort |-> c.healthzPort \in {Nil, 0},
            tlsConfig |-> FALSE,
            kubeConfig |-> OmitString(c.kubeConfig),
            apiServerHost |-> OmitString(c.apiServerHost),
            enablePprof |-> FALSE, pprofAddress |-> OmitString(c.pprofAddress),
            featureGates |-> OmitList(c.featureGates)])

EncodeWebhookConfiguration(c) ==
    Object(ConfigFields(c),
           [kind |-> OmitString(c.kind), apiVersion |-> OmitString(c.apiVersion),
            securePort |-> OmitPointer(c.securePort),
            healthzPort |-> OmitPointer(c.healthzPort),
            tlsConfig |-> FALSE,
            kubeConfig |-> OmitString(c.kubeConfig),
            apiServerHost |-> OmitString(c.apiServerHost),
            enablePprof |-> FALSE, pprofAddress |-> OmitString(c.pprofAddress),
            featureGates |-> OmitList(c.featureGates)])

-----------------------------------------------------------------------------
(* Unmarshalling into a zero struct: a missing key leaves the field at its *)
(* zero value (z); a present one sets it, a pointer to a new int32.       *)

Get(o, key, z) == IF key \in DOMAIN o THEN o[key] ELSE z

DecodeFilesystemServingConfig(o) ==
    [certFile |-> Get(o, "certFile", ""), keyFile |-> Get(o, "keyFile", "")]

DecodeDynamicServingConfig(o) ==
    [secretNamespace |-> Get(o, "secretNamespace", ""),
     secretName |-> Get(o, "secretName", ""),
     dnsNames |-> Get(o, "dnsNames", Nil)]

DecodeTLSConfig(o) ==
    [cipherSuites |-> Get(o, "cipherSuites", Nil),
     minTLSVersion |-> Get(o, "minTLSVersion", ""),
     filesystem |-> DecodeFilesystemServingConfig(Get(o, "filesystem", EmptyObject)),
     dynamic |-> DecodeDynamicServingConfig(Get(o, "dynamic", EmptyObject))]

DecodeWebhookConfiguration(o) ==
    [kind |-> Get(o, "kind", ""), apiVersion |-> Get(o, "apiVersion", ""),
     securePort |-> Get(o, "securePort", Nil),
     healthzPort |-> Get(o, "healthzPort", Nil),
     tlsConfig |-> DecodeTLSConfig(Get(o, "tlsConfig", EmptyObject)),
     kubeConfig |-> Get(o, "kubeConfig", ""),
     apiServerHost |-> Get(o, "apiServerHost", ""),
     enablePprof |-> Get(o, "enablePprof", FALSE),
     pprofAddress |-> Get(o, "pprofAddress", ""),
     featureGates |-> Get(o, "featureGates", Nil)]

\* The documented defaults: securePort 6443, healthzPort 6080 and
\* pprofAddress "localhost:6060" when unset; a port of 0 is kept (random).
SetDefaults(c) ==
    [c EXCEPT !.securePort = IF @ = Nil THEN 6443 ELSE @,
              !.healthzPort = IF @ = Nil THEN 6080 ELSE @,
              !.pprofAddress = IF @ = "" THEN "localhost:6060" ELSE @]

-----------------------------------------------------------------------------
VARIABLES
    cfg,     \* the WebhookConfiguration built in memory
    edits,   \* fields set so far
    file,    \* the marshalled JSON object, Nil before it is written
    loaded   \* the webhook's defaulted configuration, Nil before loading

vars == <<cfg, edits, file, loaded>>

Init == cfg = ZeroConfig /\ edits = 0 /\ file = Nil /\ loaded = Nil

\* A field of the configuration, of its TLSConfig, or of one of the two
\* serving configs, is set before the file is written.
SetField(path, v) ==
    /\ file = Nil /\ edits < MaxEdits
    /\ cfg' = CASE Len(path) = 1 -> [cfg EXCEPT ![path[1]] = v]
                [] Len(path) = 2 -> [cfg EXCEPT ![path[1]][path[2]] = v]
                [] Len(path) = 3 -> [cfg EXCEPT ![path[1]][path[2]][path[3]] = v]
    /\ edits' = edits + 1
    /\ UNCHANGED <<file, loaded>>

Edit ==
    \/ \E f \in DOMAIN TopFields : \E v \in TopFields[f] : SetField(<<f>>, v)
    \/ \E f \in DOMAIN TLSFields : \E v \in TLSFields[f] :
          SetField(<<"tlsConfig", f>>, v)
    \/ \E f \in DOMAIN FilesystemFields : \E v \in FilesystemFields[f] :
          SetField(<<"tlsConfig", "filesystem", f>>, v)
    \/ \E f \in DOMAIN DynamicFields : \E v \in DynamicFields[f] :
          SetField(<<"tlsConfig", "dynamic", f>>, v)

\* json.Marshal of the configuration, written to the file.
Marshal ==
    /\ file = Nil
    /\ file' = EncodeWebhookConfiguration(cfg)
    /\ UNCHANGED <<cfg, edits, loaded>>

\* The webhook reads the file: json.Unmarshal into a zero struct, then the
\* defaults.
Load ==
    /\ file # Nil /\ loaded = Nil
    /\ loaded' = SetDefaults(DecodeWebhookConfiguration(file))
    /\ UNCHANGED <<cfg, edits, file>>

Next == Edit \/ Marshal \/ Load

Spec == Init /\ [][Next]_vars

-----------------------------------------------------------------------------
(* Properties.                                                             *)

\* A nil slice or map means the same to the webhook as an empty one.
Normalize(c) ==
    LET N(x) == IF x = Nil THEN <<>> ELSE x IN
    [c EXCEPT !.featureGates = N(@),
              !.tlsConfig.cipherSuites = N(@),
              !.tlsConfig.dynamic.dnsNames = N(@)]

(***************************************************************************)
(* What the webhook loads from a written configuration is what the writer *)
(* meant, defaults applied: in particular a securePort or healthzPort of 0 *)
(* ("a random available port") stays 0 and does not become the default    *)
(* 6443 or 6080.  This rests on the ports being *int32: omitempty drops    *)
(* only a nil pointer, not a pointer to 0.                                 *)
(***************************************************************************)
LoadedAsWritten ==
    loaded # Nil => Normalize(loaded) = Normalize(SetDefaults(cfg))

=============================================================================
