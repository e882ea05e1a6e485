----------------------------- MODULE MCStoreOpen -----------------------------
(* Instances of StoreOpen for TLC. *)
EXTENDS StoreOpen, TLC

CONSTANTS plugin, sdk, ingest, init, again

MCKind == plugin :> "plugin" @@ sdk :> "sdk" @@ ingest :> "ingest"
            @@ init :> "init" @@ again :> "init"

\* psy init or the plugin makes the store. Rows are appended when the plugin
\* has opened it. psy init is run twice, one after the other or at once.
AfterPlugin == plugin :> {} @@ sdk :> {plugin} @@ ingest :> {plugin}
                 @@ init :> {} @@ again :> {}

\* A host made the store; a plugin starts while it is at work.
SdkKind  == sdk :> "sdk" @@ plugin :> "plugin"
AfterSdk == sdk :> {} @@ plugin :> {sdk}

\* A host made the store; psy init comes later.
AdoptKind  == sdk :> "sdk" @@ init :> "init"
AdoptAfter == sdk :> {} @@ init :> {sdk}
=============================================================================
