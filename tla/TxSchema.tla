------------------------------ MODULE TxSchema ------------------------------
(***************************************************************************)
(* A transaction on its way from decoded bytes to a row of utxo_boxes and   *)
(* back: the JSON edge (jsonToTx), the gate of the block funnel,             *)
(* checkTxEnvelope, checkOutputShape, the reads of validateTx that come       *)
(* after them, materializeOutput, insertBox and rowToBox.                     *)
(*                                                                         *)
(* A decoded value is one of Value, its kind: what the predicates and the     *)
(* conversions tell apart.  Every rule is per envelope key and per output, so *)
(* a transaction has one output.  It starts well formed; on the wire up to    *)
(* MaxEdits of its fields are replaced by anything a decoder can yield.       *)
(* The specification is TxSpec, so that one module can prove about it and     *)
(* about InviteBonds.                                                         *)
(***************************************************************************)
EXTENDS Naturals, FiniteSets

CONSTANT MaxEdits     \* bound on the fields that are not what a client builds

ASSUME EditsAssumption == MaxEdits \in Nat

VARIABLES
  door,      \* how the transaction arrives: over HTTP, by gossip, in a block
  stage,     \* how far it got
  edits,     \* fields replaced on the wire
  env,       \* the envelope: what each of its keys holds
  type,      \* boxType of the output
  output,    \* output: what each of its keys holds
  row        \* the columns of the stored box

txVars == <<door, stage, edits, env, type, output, row>>

-----------------------------------------------------------------------------
(* Data *)

BoxType == {"karma", "credit", "invite", "bond", "post_lock", "vouch"}

(* "u64" is a bigint in range, "u53" a safe integer of more than 32 bits,     *)
(* "dec" a decimal string, "hex64" 64 hex digits, "short" bytes of a length   *)
(* no field has; a key that is not there is "absent".                         *)
Value == {"absent", "undefined", "null", "object", "boolean",
          "u64", "negative", "huge",
          "zero", "uint", "u53", "minus1", "negzero",
          "text", "empty", "dec", "hex64", "canonical", "otherGuard",
          "bytes0", "bytes32", "short"}
Text  == {"text", "empty", "dec", "hex64", "canonical", "otherGuard"}
Bytes == {"bytes0", "bytes32", "short"}
Big   == {"u64", "negative", "huge"}

(* FIELD_TYPE_CHECK, with CANONICAL_GUARD as a type of its own                *)
FieldType == [u64 |-> {"u64"}, bytes32 |-> {"bytes32"}, bytes0or32 |-> {"bytes0", "bytes32"},
              heightOrTransfer |-> {"minus1", "zero", "uint", "u53"},
              uint |-> {"zero", "uint", "u53"}, u32 |-> {"zero", "uint"},
              string |-> Text, boolean |-> {"boolean"}, guard |-> {"canonical"}]

(* OUTPUT_SHAPE                                                               *)
Required == [
  karma     |-> [value |-> "u64", owner |-> "bytes32", guard |-> "guard", proofSource |-> "string"],
  credit    |-> [value |-> "u64", owner |-> "bytes32", guard |-> "guard",
                 proofSource |-> "heightOrTransfer"],
  invite    |-> [value |-> "u64", secretHash |-> "bytes32", inviterId |-> "bytes32",
                 guard |-> "guard"],
  bond      |-> [value |-> "u64", inviterId |-> "bytes32", inviteOutputIndex |-> "u32",
                 inviteePublicKey |-> "bytes0or32", probationStartBlock |-> "uint",
                 probationEndBlock |-> "uint", guard |-> "guard"],
  post_lock |-> [value |-> "u64", originalValue |-> "u64", owner |-> "bytes32",
                 targetPostId |-> "string", guard |-> "guard"],
  vouch     |-> [value |-> "u64", voucherId |-> "bytes32", targetId |-> "bytes32",
                 guard |-> "guard"]]

Optional == [t \in BoxType |-> CASE t = "karma"  -> [decayBurn |-> "boolean"]
                                 [] t = "credit" -> [lockedUntilBlock |-> "uint"]
                                 [] OTHER        -> << >>]

Provenance == {"id", "txId", "index"}
Key == UNION {DOMAIN Required[t] \cup DOMAIN Optional[t] : t \in BoxType}
         \cup Provenance \cup {"stray"}

(* What a key of the envelope may hold; "plain" stands for the prototype.     *)
HeldBy == [body            |-> {"plain", "array", "null", "inherits"},
           inputs          |-> {"ids", "none", "badIds", "number", "null", "undefined", "absent"},
           outputs         |-> {"boxes", "unknownType", "nullEntry", "object", "null", "undefined",
                                "absent"},
           signatures      |-> {"map", "none", "badMap", "null", "undefined", "absent"},
           preimages       |-> {"map", "none", "badMap", "null", "undefined", "absent"},
           protocolVersion |-> {"current", "text", "null", "undefined", "absent"},
           likeTarget      |-> {"hex64", "text", "null", "undefined", "absent"},
           stray           |-> {"text", "undefined", "absent"}]
EnvKey == DOMAIN HeldBy

-----------------------------------------------------------------------------
(* The HTTP edge *)

(* What the client's JSON carries for a runtime value *)
ToJson(v) == CASE v = "bytes32" -> "hex64" [] v = "bytes0" -> "empty" [] v = "u64" -> "dec"
               [] OTHER -> v
JsonValue == Value \ (Bytes \cup Big \cup {"undefined"})

(* Mutant: the vouch keys are not in the list. *)
BinaryFieldsOfOld == {"owner", "secretHash", "inviterId", "inviteePublicKey"}

BinaryFields == {"owner", "secretHash", "inviterId", "inviteePublicKey", "voucherId", "targetId"}
ValueFields  == {"value", "originalValue"}

(* coerceBoxValue and assertValidBoxValue; every box is asked for a value.     *)
Coercible(k, v) ==
  /\ k \in ValueFields => v \in {"absent", "zero", "negzero", "uint", "u53", "dec"}
  /\ k = "value" => v # "absent"

(* convertBox; Buffer.from(v, "hex") stops at the first character it does not  *)
(* know, so most texts are empty bytes.                                        *)
Converted(k, v) ==
  IF k \in BinaryFields /\ v \in Text
  THEN CASE v = "hex64" -> "bytes32" [] v = "dec" -> "short" [] OTHER -> "bytes0"
  ELSE IF k \in ValueFields /\ v # "absent" THEN "u64" ELSE v

(* A missing or null array or map becomes an empty one, empty preimages go, a  *)
(* missing version is the current one, keys nobody knows are not copied.       *)
Normalised(k, h) ==
  CASE k \in {"inputs", "outputs", "signatures"} /\ h \in {"null", "absent"} -> "none"
    [] k = "preimages" /\ h \in {"null", "none"}                            -> "absent"
    [] k = "protocolVersion" /\ h \in {"null", "absent"}                    -> "current"
    [] k = "stray"                                                          -> "absent"
    [] OTHER                                                                -> h

(* What makes jsonToTx throw, which the routes answer with a client error      *)
EdgeRefuses ==
  \/ env["body"] # "plain"
  \/ env["outputs"] \in {"nullEntry", "object"}
  \/ env["outputs"] = "boxes" /\ \E k \in Key : ~Coercible(k, output[k])
  \/ env["signatures"] = "badMap" \/ env["preimages"] = "badMap"
  \/ env["likeTarget"] = "null"

JsonToTx ==
  /\ stage = "wire" /\ door = "http"
  /\ IF EdgeRefuses THEN stage' = "malformed" /\ UNCHANGED <<env, output>>
     ELSE /\ stage'  = "decoded"
          /\ env'    = [k \in EnvKey |-> Normalised(k, env[k])]
          /\ output' = [k \in Key |-> Converted(k, output[k])]
  /\ UNCHANGED <<door, edits, type, row>>

-----------------------------------------------------------------------------
(* The gate *)

(* Clause 2: a key that is present with the value undefined                    *)
NothingUndefined(e) == \A k \in EnvKey : e[k] # "undefined"

(* Mutant: an empty map of preimages is let through. *)
EnvelopeOkEmptyMap(e) ==
  /\ e["body"] = "plain" /\ e["stray"] = "absent" /\ NothingUndefined(e)
  /\ e["inputs"] \in {"ids", "none"}
  /\ e["outputs"] \in {"boxes", "unknownType", "nullEntry", "none"}
  /\ e["signatures"] \in {"map", "none"}
  /\ e["preimages"] \in {"absent", "none", "map"}
  /\ e["protocolVersion"] = "current"
  /\ e["likeTarget"] \in {"absent", "hex64"}

(* checkTxEnvelope *)
EnvelopeOk(e) ==
  /\ e["body"] = "plain" /\ e["stray"] = "absent" /\ NothingUndefined(e)
  /\ e["inputs"] \in {"ids", "none"}
  /\ e["outputs"] \in {"boxes", "unknownType", "nullEntry", "none"}
  /\ e["signatures"] \in {"map", "none"}
  /\ e["preimages"] \in {"absent", "map"}
  /\ e["protocolVersion"] = "current"
  /\ e["likeTarget"] \in {"absent", "hex64"}

(* computeTxId: what of the envelope enters the hash.  Preimages enter if the    *)
(* map is truthy and has entries, a like target unless it is undefined,          *)
(* signatures and other keys never.                                              *)
Hashed(e) == [inputs  |-> e["inputs"], outputs |-> e["outputs"],
              preimages |-> IF e["preimages"] \in {"map", "badMap"} THEN e["preimages"] ELSE "no",
              version |-> e["protocolVersion"],
              like    |-> IF e["likeTarget"] \in {"absent", "undefined"} THEN "no"
                          ELSE e["likeTarget"]]

(* The block funnel skips what fails the gate, then hashes the transaction and *)
(* materializes its outputs before validateTx has seen them: a null entry, which *)
(* the gate lets pass, throws there, and the catch around the block rejects it. *)
Funnel ==
  /\ stage = "wire" /\ door = "block"
  /\ stage' = CASE ~EnvelopeOk(env)                 -> "skipped"
                [] env["outputs"] = "nullEntry"   -> "threw"
                [] OTHER                         -> "decoded"
  /\ UNCHANGED <<door, edits, env, type, output, row>>

(* validateTx, step 0 *)
CheckTxEnvelope ==
  /\ \/ stage = "decoded"
     \/ stage = "wire" /\ door = "gossip"
  /\ stage' = IF EnvelopeOk(env) THEN "gated" ELSE "malformed"
  /\ UNCHANGED <<door, edits, env, type, output, row>>

(* Steps 1 to 3: new Set(tx.inputs), its length, getBox of each.  Whether the  *)
(* boxes are unspent and of one type is the state's business.                  *)
ReadInputs ==
  /\ stage = "gated"
  /\ stage' \in IF env["inputs"] \notin {"ids", "none"} THEN {"threw"}
                ELSE IF env["inputs"] = "none" THEN {"invalid"} ELSE {"invalid", "read"}
  /\ UNCHANGED <<door, edits, env, type, output, row>>

-----------------------------------------------------------------------------
(* Outputs *)

Shape(t) == [k \in DOMAIN Required[t] \cup DOMAIN Optional[t] |->
               IF k \in DOMAIN Required[t] THEN Required[t][k] ELSE Optional[t][k]]

(* Mutant: the guard is checked for being there. *)
OutputShapeOkAnyGuard ==
  /\ \A k \in Key \ Provenance : output[k] # "absent" => k \in DOMAIN Shape(type)
  /\ \A k \in DOMAIN Required[type] : output[k] # "absent"
  /\ \A k \in DOMAIN Shape(type) \ {"guard"} :
       output[k] \in FieldType[Shape(type)[k]] \cup {"absent"}

(* checkOutputShape: no key but those of the type and provenance, which is      *)
(* stripped later; none undefined, every required one, each of its field type.  *)
OutputShapeOk ==
  /\ \A k \in Key \ Provenance : output[k] # "absent" => k \in DOMAIN Shape(type)
  /\ \A k \in DOMAIN Required[type] : output[k] # "absent"
  /\ \A k \in DOMAIN Shape(type) : output[k] \in FieldType[Shape(type)[k]] \cup {"absent"}

(* Mutant: entries are left to the steps that read them. *)
CheckOutputShapeLate ==
  /\ stage = "read"
  /\ stage' = IF env["outputs"] \in {"nullEntry", "unknownType"} THEN "malformed" ELSE "shaped"
  /\ UNCHANGED <<door, edits, env, type, output, row>>

(* Step 4 *)
CheckOutputShape ==
  /\ stage = "read"
  /\ stage' = CASE env["outputs"] \in {"null", "undefined", "absent"}  -> "threw"
                [] env["outputs"] \in {"nullEntry", "unknownType"}       -> "malformed"
                [] env["outputs"] = "boxes" /\ ~OutputShapeOk          -> "malformed"
                [] OTHER                                               -> "shaped"
  /\ UNCHANGED <<door, edits, env, type, output, row>>

(* What the sums of step 5, the hash and the signature lookups of step 6 and    *)
(* the arms of step 7 cannot read                                              *)
Dereferenced == [karma |-> {"owner"}, credit |-> {}, invite |-> {}, post_lock |-> {},
                 bond |-> {"inviteePublicKey", "inviterId"}, vouch |-> {"voucherId", "targetId"}]
Unreadable ==
  \/ env["outputs"] \notin {"boxes", "none"}
  \/ /\ env["outputs"] = "boxes"
     /\ \/ output["value"] \notin Big
        \/ \E k \in Dereferenced[type] : output[k] \notin Bytes \cup Text
  \/ env["likeTarget"] = "null" \/ env["preimages"] = "badMap"
  \/ env["signatures"] \in {"null", "undefined", "absent"}

(* Steps 5 to 7; what conservation, guards and arms say of readable values is   *)
(* left open here.                                                             *)
CheckRules ==
  /\ stage = "shaped"
  /\ stage' \in IF Unreadable THEN {"threw"} ELSE {"invalid", "valid"}
  /\ UNCHANGED <<door, edits, env, type, output, row>>

-----------------------------------------------------------------------------
(* The store *)

(* materializeOutput: the box the id and the AVL leaf are computed from         *)
Box == [k \in Key |-> IF k \in Provenance THEN "provenance" ELSE output[k]]

(* JSON.stringify keeps no undefined key and no sign of zero, and throws on a    *)
(* bigint, for which "null" stands here.                                        *)
Json(v) == CASE v = "undefined" -> "absent" [] v = "negzero" -> "zero" [] v \in Big -> "null"
             [] OTHER -> v

(* insertBox: value and owner are columns, the rest is in the JSON of            *)
(* extra_data; bytes that are none come back as something else or throw.         *)
Column(k, v) ==
  CASE k = "value" -> v
    [] k = "originalValue" -> v
    [] k \in BinaryFields -> CASE k = "inviteePublicKey" /\ v = "bytes0" -> "null"
                               [] v \in Bytes -> v
                               [] OTHER -> "short"
    [] k \in {"probationStartBlock", "probationEndBlock"} -> IF v \in {"uint", "u53"} THEN v
                                                             ELSE "null"
    [] OTHER -> Json(v)

InsertBox ==
  /\ stage = "valid"
  /\ stage' = "stored"
  /\ row' = IF env["outputs"] = "none" THEN row
            ELSE [k \in DOMAIN Shape(type) \ {"guard"} |-> Column(k, output[k])]
  /\ UNCHANGED <<door, edits, env, type, output>>

(* rowToBox: the guard is the type's constant, null is no key or no height.      *)
Restored(k) ==
  CASE k = "inviteePublicKey" /\ row[k] = "null" -> "bytes0"
    [] k \in {"probationStartBlock", "probationEndBlock"} /\ row[k] = "null" -> "zero"
    [] OTHER -> row[k]
RowToBox == [k \in Key |-> CASE k \in Provenance      -> "provenance"
                             [] k = "guard"           -> "canonical"
                             [] k \in DOMAIN row      -> Restored(k)
                             [] OTHER                 -> "absent"]

-----------------------------------------------------------------------------
(* The specification *)

May(t, k) == FieldType[Shape(t)[k]] \cup IF k \in DOMAIN Optional[t] THEN {"absent"} ELSE {}
Free(t)   == {k \in DOMAIN Shape(t) : Cardinality(May(t, k)) > 1}
Typed(t)  == {f \in [Free(t) -> UNION {May(t, k) : k \in Free(t)}] :
                \A k \in Free(t) : f[k] \in May(t, k)}

(* What a client builds: an output of the type and the envelope around it       *)
Candidates(t) == {[k \in Key |-> CASE k \in Free(t)           -> f[k]
                                   [] k \in DOMAIN Required[t] -> CHOOSE v \in May(t, k) : TRUE
                                   [] OTHER                    -> "absent"] : f \in Typed(t)}
Plain == [body |-> "plain", inputs |-> "ids", outputs |-> "boxes", signatures |-> "map",
          preimages |-> "absent", protocolVersion |-> "current", likeTarget |-> "absent",
          stray |-> "absent"]

TxInit ==
  /\ door \in {"http", "gossip", "block"} /\ stage = "client" /\ edits = 0
  /\ env = Plain /\ row = << >>
  /\ type \in BoxType
  /\ output \in Candidates(type)

Send ==
  /\ stage = "client" /\ stage' = "wire"
  /\ output' = IF door = "http" THEN [k \in Key |-> ToJson(output[k])] ELSE output
  /\ UNCHANGED <<door, edits, env, type, row>>

EditEnvelope(k, h) ==
  /\ stage = "wire" /\ edits < MaxEdits /\ env[k] # h
  /\ door = "http" => h # "undefined"
  /\ env' = [env EXCEPT ![k] = h] /\ edits' = edits + 1
  /\ UNCHANGED <<door, stage, type, output, row>>

EditOutput(k, v) ==
  /\ stage = "wire" /\ edits < MaxEdits /\ output[k] # v
  /\ v \in IF door = "http" THEN JsonValue ELSE Value
  /\ output' = [output EXCEPT ![k] = v] /\ edits' = edits + 1
  /\ UNCHANGED <<door, stage, env, type, row>>

TxNext ==
  \/ Send \/ JsonToTx \/ Funnel
  \/ \E k \in EnvKey : \E h \in HeldBy[k] : EditEnvelope(k, h)
  \/ \E k \in Key : \E v \in Value : EditOutput(k, v)
  \/ CheckTxEnvelope \/ ReadInputs \/ CheckOutputShape \/ CheckRules \/ InsertBox

TxSpec == TxInit /\ [][TxNext]_txVars

-----------------------------------------------------------------------------
(* Properties *)

(* Whatever a decoder yields, only one thing throws: an output that is null, in   *)
(* a block, where the funnel reads it before any check of outputs.  validateTx    *)
(* itself is total at every door (NODE_INTERFACE, "Totality").                    *)
OnlyNullOutputsThrow == stage = "threw" => door = "block" /\ env["outputs"] = "nullEntry"

(* No key of the envelope is free: of two transactions that pass the gate and    *)
(* differ in what one key holds, signatures apart, the ids differ too, so a       *)
(* relay cannot re-encode a signed transaction (utxo-engine.ts, ENVELOPE_ALLOWED). *)
NoKeyIsFree ==
  stage = "gated" =>
    \A k \in EnvKey \ {"signatures"} : \A h \in HeldBy[k] \cup {"none"} :
      LET other == [env EXCEPT ![k] = h]
      IN  EnvelopeOk(other) /\ Hashed(other) = Hashed(env) => other = env

(* A stored box is the box its id was computed from, key for key:                *)
(* computeBoxId(rowToBox(row)) === row.id (utxo-engine.ts, CANONICAL_GUARD), and  *)
(* a leaf written from either is the same.                                       *)
RowsKeepTheBox == stage = "stored" /\ row # << >> => RowToBox = Box

(* What a client builds is well formed at every door: neither the JSON edge nor   *)
(* the schemas turn down, or change, a field of a box the types allow.            *)
ClientsGetThrough == edits = 0 => stage \notin {"malformed", "skipped", "threw"}

=============================================================================
