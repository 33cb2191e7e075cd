------------------------------ MODULE Listeners ------------------------------
(***************************************************************************)
(* What the documents that share a listen address make of it: the virtual  *)
(* hosts of pkg/handler/server.go and the certificates of pkg/net/tls.go.  *)
(* A group is the sequence of their configurations, in the order of the    *)
(* documents.                                                              *)
(*                                                                         *)
(* A host name is the sequence of what its colons separate: <<"a">>, or    *)
(* with a port <<"a", "8080">>.                                            *)
(***************************************************************************)
EXTENDS Integers, Sequences, SequencesExt

CONSTANTS
  NoFile,      \* a path that is not given
  Covers,      \* certificate file -> the host names it is valid for
  BadCert,     \* files that LoadX509KeyPair does not accept
  Wildcard     \* host names with an asterisk

\* Variant: the host as it is sent.
HostAsSent(header) == header

\* What is compared: the header up to its first colon.
HostOf(header) == <<Head(header)>>

\* virtualHandler.handler: the configuration that answers; a single document
\* is served without one (NewServerHandler).
Answering(group, header) ==
  LET named == SelectInSeq(group, LAMBDA cfg : cfg.host = HostOf(header))
  IN  IF Len(group) > 1 /\ named # 0 THEN named ELSE 1

------------------------------------------------------------------------------
IsStatic(ssl) == ~ssl.autoCert /\ ssl.certFile # NoFile /\ ssl.keyFile

\* MultiTLSConfig returns an error.
CannotSecure(group) ==
  \E i \in DOMAIN group :
    \/ group[i].ssl.autoCert /\ group[i].host \in Wildcard
    \/ IsStatic(group[i].ssl) /\ group[i].ssl.certFile \in BadCert

\* The elements of s whose positions are in keep, as a loop that appends them
\* leaves them.
Selected(s, keep) ==
  LET kept[n \in 0 .. Len(s)] ==
        IF n = 0 THEN <<>>
        ELSE IF n \in keep THEN Append(kept[n - 1], s[n])
        ELSE kept[n - 1]
  IN  kept[Len(s)]

\* cfg.Certificates.
Certificates(group) ==
  LET static == Selected(group, {i \in DOMAIN group : IsStatic(group[i].ssl)})
  IN  [i \in DOMAIN static |-> static[i].ssl.certFile]

\* One autocert.Manager for each cache directory, by the hosts on its list.
Managers(group) ==
  LET auto == {i \in DOMAIN group : group[i].ssl.autoCert}
  IN  {{group[i].host : i \in {k \in auto : group[k].ssl.autoCertCacheDir = dir}} :
         dir \in {group[i].ssl.autoCertCacheDir : i \in auto}}

IsTLS(group) == Certificates(group) # <<>> \/ Managers(group) # {}

Issued(host) == [issued |-> host]
Own(file) == [file |-> file]
NoCertificate == [none |-> TRUE]

\* Variant: the first certificate also where a manager has a better one.
GetCertificateFirst(group, host, issuing) ==
  LET certs == Certificates(group)
      covering == SelectInSeq(certs, LAMBDA file : host \in Covers[file])
  IN  IF covering # 0 THEN Own(certs[covering])
      ELSE IF certs # <<>> THEN Own(certs[1])
      ELSE IF \E hosts \in Managers(group) : host \in hosts \cap issuing THEN Issued(host)
      ELSE NoCertificate

\* GetCertificate, or without managers what crypto/tls does of its own; issuing
\* are the hosts for which the authority issues certificates.
GetCertificate(group, host, issuing) ==
  LET certs == Certificates(group)
      covering == SelectInSeq(certs, LAMBDA file : host \in Covers[file])
  IN  IF covering # 0 THEN Own(certs[covering])
      ELSE IF \E hosts \in Managers(group) : host \in hosts \cap issuing THEN Issued(host)
      ELSE IF certs # <<>> THEN Own(certs[1])
      ELSE NoCertificate
==============================================================================
