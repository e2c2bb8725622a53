---------------------------- MODULE HttpServer ----------------------------
(***************************************************************************)
(* The artifact store behind the coordinator's HTTP port: an in-memory map *)
(* from "<artifact type>/<artifact id>" to bytes, written by PUT and read  *)
(* by GET (src/server/http_server.rs).                                     *)
(*                                                                         *)
(* A PUT travels on a connection of its own and the server handles it      *)
(* whether or not the client is still there to see the answer, so a        *)
(* connection outlives the call that opened it.  The storage mutex is held *)
(* for one insert or one lookup and never across an await, so each of the  *)
(* two handlers is one step.                                               *)
(***************************************************************************)
CONSTANTS
  Conn,     \* PUT connections, one per request sent
  Key,      \* storage keys
  Body,     \* payloads
  NoBody    \* what a lookup finds under a key never stored

VARIABLES storage, conn

ConnState == {"closed", "sent", "stored", "rejected"}

TypeOK ==
  /\ storage \in [Key -> Body \cup {NoBody}]
  /\ conn \in [Conn -> [state: ConnState,
                        key: Key \cup {NoBody},
                        body: Body \cup {NoBody}]]

Init ==
  /\ storage = [k \in Key |-> NoBody]
  /\ conn = [n \in Conn |-> [state |-> "closed", key |-> NoBody, body |-> NoBody]]

(* A client sends PUT k with body b on the unused connection n. *)
Send(n, k, b) ==
  /\ conn[n].state = "closed"
  /\ conn' = [conn EXCEPT ![n] = [state |-> "sent", key |-> k, body |-> b]]
  /\ UNCHANGED storage

(* upload_artifact: the bytes are stored, then 200 is answered. *)
UploadArtifact(n) ==
  /\ conn[n].state = "sent"
  /\ storage' = [storage EXCEPT ![conn[n].key] = conn[n].body]
  /\ conn' = [conn EXCEPT ![n].state = "stored"]

(* The router refuses the request before the handler runs, e.g. with 413   *)
(* for a body over its default limit: nothing is stored.                   *)
RejectUpload(n) ==
  /\ conn[n].state = "sent"
  /\ conn' = [conn EXCEPT ![n].state = "rejected"]
  /\ UNCHANGED storage

(* A whole PUT of a client whose connection is not followed: the route is  *)
(* open to every client, and an insert replaces what the key held.         *)
Put(k, b) ==
  /\ storage' = [storage EXCEPT ![k] = b]
  /\ UNCHANGED conn

(* download_artifact: 200 with the bytes, or 404 for NoBody. *)
Download(k) == storage[k]

===========================================================================
