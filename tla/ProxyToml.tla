------------------------------ MODULE ProxyToml ------------------------------
(***************************************************************************)
(* The TOML helpers of the Console's forms (lib/proxyToml.ts): an instance *)
(* configuration is split at its first [[proxies]] line, the proxy blocks  *)
(* are parsed into drafts, and drafts are written back.                    *)
(*                                                                         *)
(* A document is a sequence of lines <<kind, value>>; blank lines, quoting *)
(* and the order of characters inside a line are left out.  Kinds:         *)
(*   addr, port, token, notoken   what the create form recognises          *)
(*   log                          the default [log] block                  *)
(*   head                         a [[proxies]] line                       *)
(*   name, type, remotePort       fields of a proxy the forms know         *)
(*   comment, meta, table         a comment, a field the forms do not know *)
(*                                and another table header                 *)
(***************************************************************************)
EXTENDS Naturals, Sequences, FiniteSets, SequencesExt

CONSTANTS
    PortNumbers,   \* the texts that are numbers
    BadPorts       \* the numbers that are no port: 0, 65536, ...

Line(k, v) == <<k, v>>
KnownFields == {"name", "type", "remotePort"}

\* createEmptyProxy: what a block means where it says nothing
EmptyProxy == [name |-> "", type |-> "tcp", remotePort |-> ""]

HeadAt(doc)  == {i \in DOMAIN doc : doc[i][1] = "head"}
FirstHead(doc) == IF HeadAt(doc) = {} THEN Len(doc) + 1
                  ELSE CHOOSE i \in HeadAt(doc) : \A j \in HeadAt(doc) : i <= j

Preface(doc)     == SubSeq(doc, 1, FirstHead(doc) - 1)
ProxiesBody(doc) == SubSeq(doc, FirstHead(doc), Len(doc))

(* One line of parseProxies: a head opens a draft, another table closes it, *)
(* a known field goes to the open draft, the rest is ignored.               *)
ParseLine(acc, line) ==
    CASE line[1] = "head"  -> [drafts |-> Append(acc.drafts, EmptyProxy), open |-> TRUE]
      [] line[1] = "table" -> [acc EXCEPT !.open = FALSE]
      [] acc.open /\ line[1] \in KnownFields ->
            LET value == IF line[1] = "remotePort" /\ line[2] \notin PortNumbers
                         THEN "" ELSE line[2]
            IN  [acc EXCEPT !.drafts[Len(acc.drafts)][line[1]] = value]
      [] OTHER -> acc

ParseProxies(body) == FoldLeft(ParseLine, [drafts |-> <<>>, open |-> FALSE], body).drafts

SerializeProxy(d) ==
    <<Line("head", ""), Line("name", d.name)>>
    \o (IF d.type # "" THEN <<Line("type", d.type)>> ELSE <<>>)
    \o (IF d.remotePort \in PortNumbers THEN <<Line("remotePort", d.remotePort)>> ELSE <<>>)

SerializeProxies(drafts) == FlattenSeq([i \in DOMAIN drafts |-> SerializeProxy(drafts[i])])

RewriteProxies(doc, drafts) == Preface(doc) \o SerializeProxies(drafts)

\* Sensitivity check of ForeignLinesKept: only the names of the fields are looked at.
CanEditAnyKnownField(doc) ==
    \A i \in DOMAIN ProxiesBody(doc) :
        ProxiesBody(doc)[i][1] \in KnownFields \cup {"head", "comment", "table"}

(* A structured edit rewrites the blocks, so it is offered only where       *)
(* rewriting what was parsed gives the same text back.                      *)
CanEditProxies(doc) ==
    LET body == ProxiesBody(doc)
    IN  /\ \A i \in DOMAIN body : body[i][1] \in KnownFields \cup {"head"}
        /\ body = SerializeProxies(ParseProxies(body))

IsPort(text) == text \in PortNumbers \ BadPorts

ProxyErrors(d, drafts) ==
       (IF d.name = "" THEN {"no name"}
        ELSE IF Cardinality({i \in DOMAIN drafts : drafts[i].name = d.name}) > 1
             THEN {"name taken"} ELSE {})
    \cup (IF d.type = "" THEN {"no type"} ELSE {})
    \cup (IF d.remotePort # "" /\ ~IsPort(d.remotePort) THEN {"bad port"} ELSE {})
    \cup (IF d.type = "tcp" /\ d.remotePort = "" THEN {"no port"} ELSE {})

----------------------------------------------------------------------------
(* The whole document of the create form *)

EmptyConfig == [addr |-> "", port |-> "", token |-> "", proxies |-> <<>>]

LastValue(lines, kind, default) ==
    LET at == {i \in DOMAIN lines : lines[i][1] = kind}
    IN  IF at = {} THEN default ELSE lines[CHOOSE i \in at : \A j \in at : j <= i][2]

ParseConfig(doc) ==
    LET top  == Preface(doc)
        port == LastValue(top, "port", "")
    IN  [addr    |-> LastValue(top, "addr", ""),
         port    |-> IF port \in PortNumbers THEN port ELSE "",
         token   |-> LastValue(top, "token", ""),
         proxies |-> ParseProxies(ProxiesBody(doc))]

SerializeConfig(draft) ==
    <<Line("addr", draft.addr),
      Line("port", IF IsPort(draft.port) THEN draft.port ELSE "7000"),
      IF draft.token # "" THEN Line("token", draft.token) ELSE Line("notoken", ""),
      Line("log", "")>> \o SerializeProxies(draft.proxies)

\* The create form may rewrite the whole document only where that changes nothing.
CanEditFull(doc) == doc = SerializeConfig(ParseConfig(doc))

DraftErrors(draft) ==
       (IF draft.addr = "" THEN {"no address"} ELSE {})
    \cup (IF draft.port # "" /\ ~IsPort(draft.port) THEN {"bad port"} ELSE {})
    \cup UNION {ProxyErrors(draft.proxies[i], draft.proxies) : i \in DOMAIN draft.proxies}
=============================================================================
