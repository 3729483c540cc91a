-------------------------------- MODULE Session --------------------------------
(***************************************************************************)
(* An R session: a catalog, a table and a scan by their handles, and what    *)
(* the scan is collected by (BatchReader).                                  *)
(*                                                                          *)
(* icebergr_catalog() gathers properties from the environment, its arguments *)
(* and `...`, and decides in R which credentials may travel and in Rust what *)
(* storage they travel to (R/catalog.R, catalog.rs).  What a catalog answers *)
(* with an error reaches R through errors.rs (ErrorText); what breaks a scan *)
(* off while R reads it comes through the C stream, and a panic through      *)
(* extendr.  A handle holds an external pointer, and in a session it was     *)
(* restored in a null one (R/utils.R, lib.rs).                              *)
(***************************************************************************)
EXTENDS BatchReader, ErrorText

VARIABLES
    conn,       \* the connection being made, or NoConn
    catalog, tbl, scanned,  \* the handles: "none", "live", or "dead"
    null,       \* Rust was handed a null pointer
    told        \* the last error: by what way it came, what R says, what it should

handles == <<catalog, tbl, scanned>>
svars == <<vars, conn, handles, null, told>>

NoConn == <<>>
NoError == [by |-> "none", said |-> <<>>, shown |-> <<>>]

\* R has one thread, and a call has it to itself.
Idle == at = "R" /\ conn = NoConn

-----------------------------------------------------------------------------
(* What R gathers.  A property's value is where it comes from or how it     *)
(* travels: "https" is what is encrypted or does not leave the machine.     *)

\* No scheme but S3's is object storage, and /data is any local directory.
Warehouses == {"none", "analytics", "/data", "s3a://bucket", "S3://bucket", "s3://"}

\* Each variable is read for itself.  The secret key and the session token are
\* treated as the access key is, headers that hold secrets as the token is.
credential_vars ==
    [ICEBERGR_REST_TOKEN |-> "token", ICEBERGR_REST_CREDENTIAL |-> "credential",
     ICEBERGR_REST_OAUTH2_SERVER_URI |-> "oauth2-server-uri",
     ICEBERGR_S3_ACCESS_KEY_ID |-> "s3.access-key-id", ICEBERGR_S3_ENDPOINT |-> "s3.endpoint"]

aws_fallbacks == [AWS_ACCESS_KEY_ID |-> "s3.access-key-id"]

secret_props == {"token", "credential", "s3.access-key-id"}

\* As a pattern, s3:// needs nothing after it.
uses_object_storage(type, storage, warehouse) ==
    \/ storage = "s3"
    \/ /\ storage = "auto"
       /\ type = "glue" \/ warehouse \in {"s3a://bucket", "S3://bucket", "s3://"}

\* What is given goes over what there was.
Over(given, props) ==
    [p \in DOMAIN given \cup DOMAIN props |-> IF p \in DOMAIN given THEN given[p] ELSE props[p]]

properties_from_env(set, object_storage) ==
    LET own == [p \in {credential_vars[v] : v \in set \cap DOMAIN credential_vars} |->
                  IF p \in secret_props THEN "own" ELSE "http"]
        aws == [p \in {aws_fallbacks[v] : v \in set \cap DOMAIN aws_fallbacks} |-> "ambient"]
    IN  IF object_storage THEN Over(own, aws) ELSE own

Named(uri, warehouse) ==
    LET given == [uri |-> uri, warehouse |-> warehouse]
    IN  [p \in {q \in DOMAIN given : given[q] # "none"} |-> given[p]]

\* One property through `...`, or none.
Extras ==
    {<<>>, [p \in {"token"} |-> "own"]}
      \cup {[p \in {endpoint} |-> scheme] :
               endpoint \in {"oauth2-server-uri", "s3.endpoint"}, scheme \in {"http", "https"}}

sends_in_cleartext(props) ==
    \E p \in {"uri", "oauth2-server-uri"} \cap DOMAIN props : props[p] = "http"

check_credential_transport(props, insecure) ==
    \/ secret_props \cap DOMAIN props = {}
    \/ insecure
    \/ ~sends_in_cleartext(props)

-----------------------------------------------------------------------------
(* What Rust makes of it.                                                   *)

Spellings == [s3 |-> {"S3://bucket"}, s3a |-> {"s3a://bucket"}]

\* BUG: a scheme in capitals is none.
has_scheme_exact(w, scheme) == w \in Spellings[scheme] /\ w # "S3://bucket"

\* In any case, and with something after it.
has_scheme(w, scheme) == w \in Spellings[scheme]

looks_like_local_path(w) == w = "/data"

resolve_storage(storage, warehouse) ==
    CASE storage # "auto" -> storage
      [] storage = "auto" /\ (has_scheme(warehouse, "s3") \/ has_scheme(warehouse, "s3a")) -> "s3"
      [] storage = "auto" /\ looks_like_local_path(warehouse) -> "local"
      [] OTHER -> "default"

\* What a catalog of each type does when no backend was chosen.
Default == [memory |-> "local", rest |-> "default", glue |-> "s3"]

rs_catalog_connect(type, storage, warehouse) ==
    LET backend == resolve_storage(storage, warehouse)
    IN  IF backend = "default" THEN Default[type] ELSE backend

\* The parts of a build that are optional.
Builds == {{}, {"s3"}, {"s3", "glue"}}

Compiled(features, type, store) ==
    /\ store = "s3" => "s3" \in features
    /\ type = "glue" => "glue" \in features

\* Which credentials go to which endpoints, of those the properties name: to a
\* REST catalog the token, given or got for the credential, and to S3 its keys.
Sent(c) ==
    LET given == DOMAIN c.props
        server == IF "oauth2-server-uri" \in given THEN "oauth2-server-uri" ELSE "uri"
        rest == {<<"token", "uri">>, <<"credential", "uri">>, <<"credential", server>>}
        aws == {<<"s3.access-key-id", "uri">>}
        s3 == {<<"s3.access-key-id", "s3.endpoint">>}
    IN  {sent \in (IF c.type = "rest" THEN rest ELSE {})
                    \cup (IF c.type = "glue" THEN aws ELSE {})
                    \cup (IF c.store = "s3" THEN s3 ELSE {}) :
           sent[1] \in given /\ sent[2] \in given}

-----------------------------------------------------------------------------
(* What R is told of an error.                                              *)

Told(by, said, error) == told' = [by |-> by, said |-> said, shown |-> error.shown]

ctx(error) == Told("ctx", scrub(error.text), error)

config_err(error) == ctx(error)

\* The words of the error as they are.
Verbatim(by, error) == Told(by, error.text, error)

\* Bound: the texts of errors, but for those of ListFails.
Echoes == {Piece(<<"key", "=", "secret">>, <<"key", "=", Redacted>>)}

\* Of a call: an error is put in words by ctx, an abort has its own, and a
\* panic comes with those it was raised with.
Says(what, error) ==
    \/ what \in Errors /\ ctx(error)
    \/ what = "aborted" /\ Verbatim("abort", Same(<<"word">>))
    \/ what = "panicked" /\ Verbatim("panic", error)

-----------------------------------------------------------------------------
(* The calls.  One that is refused changes nothing.                         *)

\* BUG: the transport is checked before `...` is read.
transported_early(extra, known) == known

transported(extra, known) == Over(extra, known)

\* A memory catalog's warehouse is normalised, and has to be there.
icebergr_catalog(type, storage, uri, warehouse, set, extra) ==
    /\ type = "rest" => uri # "none"
    /\ type = "memory" => warehouse \in {"analytics", "/data"}
    /\ LET dir == IF type = "memory" THEN "/data" ELSE warehouse
           known == Over(Named(uri, dir),
                         properties_from_env(set, uses_object_storage(type, storage, dir)))
           store == rs_catalog_connect(type, storage, dir)
       IN  \E insecure \in BOOLEAN, features \in Builds :
             /\ check_credential_transport(transported(extra, known), insecure)
             /\ Compiled(features, type, store)
             /\ conn' = [type |-> type, storage |-> storage, warehouse |-> dir, set |-> set,
                         props |-> Over(extra, known), insecure |-> insecure, store |-> store]

\* Bound: in a session without handles, or with those of a session that had
\* come to a scan.
Connect ==
    /\ Idle /\ catalog # "live" /\ (catalog = "none" \/ scanned = "dead")
    /\ \E type \in DOMAIN Default, storage \in {"auto", "local", "s3"},
          uri \in {"none", "https", "http"}, warehouse \in Warehouses, extra \in Extras,
          set \in SUBSET (DOMAIN credential_vars \cup DOMAIN aws_fallbacks) :
          icebergr_catalog(type, storage, uri, warehouse, set, extra)
    /\ told' = NoError
    /\ UNCHANGED <<vars, handles, null>>

Loaded ==
    /\ conn # NoConn
    /\ conn' = NoConn /\ catalog' = "live"
    /\ UNCHANGED <<vars, tbl, scanned, null, told>>

\* The builder's load() is refused, or panics.
LoadFails(error) ==
    /\ conn # NoConn
    /\ conn' = NoConn
    /\ config_err(error) \/ Verbatim("panic", error)
    /\ UNCHANGED <<vars, handles, null>>

\* A handle of another session points at nothing.
rs_ptr_is_null(handle) == handle # "live"
check_live_ptr(handle) == handle # "none" /\ ~rs_ptr_is_null(handle)
check_catalog == check_live_ptr(catalog)
check_table == check_live_ptr(tbl)

\* BUG: that it is a scan is all that is looked at.
check_scan_class == scanned # "none"

\* A scan goes stale with the table's handle it was made from.
check_scan == check_live_ptr(scanned)

Hands(handle) == null' = (null \/ rs_ptr_is_null(handle))

Lists ==
    /\ Idle /\ check_catalog
    /\ Hands(catalog) /\ told' = NoError
    /\ UNCHANGED <<vars, conn, handles>>

\* Bound: of the calls that ask a catalog, the first one fails.
ListFails ==
    /\ Idle /\ check_catalog
    /\ tbl = "none" /\ told = NoError
    /\ Hands(catalog)
    /\ \/ \E error \in Texts : ctx(error)
       \/ \E error \in Pieces : Verbatim("panic", error)
    /\ UNCHANGED <<vars, conn, handles>>

icebergr_table ==
    /\ Idle /\ check_catalog
    /\ Hands(catalog)
    /\ tbl' = "live" /\ told' = NoError
    /\ UNCHANGED <<vars, conn, catalog, scanned>>

icebergr_scan ==
    /\ Idle /\ check_table
    /\ Hands(tbl)
    /\ scanned' = "live" /\ told' = NoError
    /\ UNCHANGED <<vars, conn, catalog, tbl>>

icebergr_collect(n, k, e) ==
    /\ Idle /\ check_scan
    /\ Hands(scanned)
    /\ Collect(n, k, e)
    /\ told' = NoError
    /\ UNCHANGED <<conn, handles>>

\* The scan that was started goes on.
Goes(step) == step /\ UNCHANGED <<conn, handles, null, told>>

\* It breaks off, and R is told why.
Breaks(step, what, error) == step /\ Says(what, error) /\ UNCHANGED <<conn, handles, null>>

\* The stream hands the error over in its own words.
StreamFails(error) ==
    /\ PullFails /\ Verbatim("stream", error)
    /\ UNCHANGED <<conn, handles, null>>

Lost(handle) == IF handle = "none" THEN "none" ELSE "dead"

\* R ends at any moment; its workspace is restored, by another session or in
\* a worker that was sent the handles.
Restart ==
    /\ batches' = 0 /\ ends' = [k \in 0..MaxBatches |-> 0] /\ served' = 0
    /\ schema' = "none" /\ pending' = NoBatch /\ stream' = FALSE
    /\ at' = "R" /\ limit' = NoLimit /\ out' = <<>>
    /\ result' = "none" /\ message' = "none" /\ banner' = FALSE /\ cause' = "none"
    /\ conn' = NoConn
    /\ catalog' = Lost(catalog) /\ tbl' = Lost(tbl) /\ scanned' = Lost(scanned)
    /\ told' = NoError
    /\ UNCHANGED null

SInit ==
    /\ Init
    /\ conn = NoConn
    /\ catalog = "none" /\ tbl = "none" /\ scanned = "none"
    /\ null = FALSE /\ told = NoError

SNext ==
    \/ Connect
    \/ Loaded
    \/ \E error \in Echoes : LoadFails(error)
    \/ Lists
    \/ ListFails
    \/ icebergr_table \/ icebergr_scan
    \/ \E n \in Limits \cup {NoLimit}, k \in 0..MaxBatches, e \in Cuts : icebergr_collect(n, k, e)
    \/ Goes(ScanStarts)
    \/ \E what \in Errors \cup Panics, error \in Echoes : Breaks(ScanFails(what), what, error)
    \/ Goes(NewWithBatch) \/ Goes(NewWithoutBatch)
    \/ \E what \in {"failed"} \cup Panics, error \in Echoes : Breaks(NewFails(what), what, error)
    \/ Goes(CollectNothing)
    \/ Goes(PullPending) \/ Goes(PullBatch) \/ Goes(PullEnd)
    \/ \E error \in Echoes : StreamFails(error)
    \/ \E what \in Panics, error \in Echoes : Breaks(PullPanics(what), what, error)
    \/ Goes(Bind)
    \/ Restart

SSpec == SInit /\ [][SNext]_svars

-----------------------------------------------------------------------------
\* The keys a machine has for AWS go with a connection exactly when its files
\* are on S3 or it asks AWS for tables, however the location is spelt: R's
\* reading of type, storage and warehouse and Rust's come to the same.  (Of
\* s3:// alone they do not: it is S3 to R, and no location at all to Rust.)
AmbientKeysFollowStorage ==
    conn # NoConn =>
        LET given == "s3.access-key-id" \in DOMAIN conn.props
            ambient == given /\ conn.props["s3.access-key-id"] = "ambient"
        IN  /\ ambient => \/ conn.store = "s3" \/ conn.warehouse = "s3://"
                          \/ conn.type = "glue" /\ conn.storage = "auto"
            /\ conn.store = "s3" /\ "AWS_ACCESS_KEY_ID" \in conn.set => given

\* R/catalog.R:250 says a credential is never sent over an unencrypted
\* connection.  Whatever a credential and an endpoint came in by, none is, unless
\* R was told to; but for S3's keys, which go to the S3 endpoint they were given
\* however it is spelt: check_credential_transport() looks at the other two.
OnlyS3KeysInClear ==
    conn # NoConn /\ ~conn.insecure =>
        \A sent \in Sent(conn) :
            conn.props[sent[2]] = "http" => sent = <<"s3.access-key-id", "s3.endpoint">>

\* A handle that a session was restored with is refused before Rust follows
\* its pointer, in whichever call, and one inside another handle likewise.
NoDeadHandleInRust == ~null

\* errors.rs:153-161 and NEWS.md:131 say that an error shows no credential that
\* an upstream message quotes.  What a catalog answers with, and what a scan is
\* refused or started with, is shown to its last word but for the credentials;
\* what comes through the stream in the middle of a scan (arrow_bridge.rs:91), or
\* of a panic, is not scrubbed.
OnlyStreamsAndPanicsLeak ==
    told.said # told.shown => told.by \in {"stream", "panic"}
=============================================================================
