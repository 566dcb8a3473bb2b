-------------------------- MODULE MCContentStore --------------------------
(***************************************************************************)
(* Small instances of ContentStore.  Two images: app, of which two releases *)
(* share a layer, and lib, whose release shares the layer too.             *)
(***************************************************************************)
EXTENDS ContentStore, TLC

MCHash == {"hm1", "hm2", "hlayer"}
MCDigest == {"sm1", "sm2", "slayer"}
MCShaOf == "hm1" :> "sm1" @@ "hm2" :> "sm2" @@ "hlayer" :> "slayer"

\* Clients upload the layer, in chunks: with the next one appended it may hold
\* the content of app1's manifest.
MCGrowsTo == "hlayer" :> {"hm1"}

Pair(d, h) == [digest |-> d, hash |-> h]
Layer == Pair("slayer", "hlayer")

MCReference == {"app", "lib"}
MCRelease == {"app1", "app2", "lib1"}
MCRefOf == "app1" :> "app" @@ "app2" :> "app" @@ "lib1" :> "lib"
MCStamp == "app1" :> 1 @@ "app2" :> 2 @@ "lib1" :> 1

\* Honest publishers: every claimed pair is true.
MCBlobsOf ==
  "app1" :> <<Pair("sm1", "hm1"), Layer>> @@
  "app2" :> <<Pair("sm2", "hm2"), Layer>> @@
  "lib1" :> <<Pair("sm2", "hm2")>>

\* With pushes: lib1 is our own, and the publisher of app1 claims that the
\* layer is the content of app1's manifest.
PushRelease == {"app1", "lib1"}
PushRefOf == "app1" :> "app" @@ "lib1" :> "lib"
PushStamp == "app1" :> 1 @@ "lib1" :> 1
PushBlobsOf ==
  "app1" :> <<Pair("sm1", "hm1"), Pair("slayer", "hm1")>> @@
  "lib1" :> <<Pair("sm2", "hm2"), Layer>>

\* For liveness: one image, two releases of one blob each.
OneReference == {"app"}
OneImage == {"app1", "app2"}
SmallHash == {"hm1", "hm2"}
SmallDigest == {"sm1", "sm2"}
SmallShaOf == "hm1" :> "sm1" @@ "hm2" :> "sm2"
SmallGrowsTo == "hm1" :> {"hm2"}
SmallRefOf == "app1" :> "app" @@ "app2" :> "app"
SmallStamp == "app1" :> 1 @@ "app2" :> 2
SmallBlobsOf == "app1" :> <<Pair("sm1", "hm1")>> @@ "app2" :> <<Pair("sm2", "hm2")>>

\* The two releases share a layer.
SharedBlobsOf ==
  "app1" :> <<Pair("sm1", "hm1"), Layer>> @@
  "app2" :> <<Pair("sm2", "hm2"), Layer>>

NoTask == {}
OneFetch == {"f1"}
TwoFetches == {"f1", "f2"}
OneSweep == {"s1"}
OnePush == {"p1"}
NoRelease == {}
OwnLib == {"lib1"}
=============================================================================
