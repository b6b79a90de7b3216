------------------------------- MODULE Sessions -------------------------------
(***************************************************************************)
(* The account of one user and its sessions: AuthService                   *)
(* (src/src/modules/auth/auth.service.ts) and the check every request goes *)
(* through, JwtStrategy.validate.                                          *)
(*                                                                         *)
(* The account has a version, every token carries the one it was issued    *)
(* with, and only tokens of the current version are good.  Some handlers   *)
(* increment the version; login, refresh and createCompany read it and     *)
(* write what they read plus one in a later statement, and every handler   *)
(* stores its new refresh token in a statement after that.                 *)
(***************************************************************************)
EXTENDS PlanLimits, Sequences

CONSTANTS
  Titular,     \* the row of the user whose account this is
  MaxVersion,  \* bound: how often the version changes
  MaxTokens,   \* bound: refresh tokens issued
  MaxEnlaces   \* bound: password reset links sent

VARIABLES
  registro,    \* registro_pendiente: how many times it was filled in, wrong codes, verified
  cuenta,      \* the password (0: no account), the version, the companies, the epoch
  tokens,      \* the refresh tokens issued, each with the access token issued with it
  enlaces,     \* the reset links: used or not
  viejas       \* history: handlers that wrote by what was no longer so

authRows == <<registro, cuenta, tokens, enlaces>>
authVars == <<authRows, viejas>>

\* The account is that of a user, which the smallest plan has room for.
ASSUME SessionsAssumption ==
  /\ Titular \in Objetos /\ {MaxVersion, MaxTokens, MaxEnlaces} \subseteq Nat
  /\ MaxLimite > 0
  /\ \A d \in Dias : d.que \in {"alta", "sesiones"} => d.clases[Titular] = "users"

RegistroPendienteRows == [veces : Nat, intentos : Nat, verificado : BOOLEAN]
CuentaRows == [clave : 0..2, version : Nat, empresas : Nat, epoca : Nat]
RefreshTokenRows == [ver : Nat, epoca : Nat, revocado : BOOLEAN]
PasswordResetRows == [usado : BOOLEAN, veces : Nat]
SessionsTypeOK ==
  /\ registro \in RegistroPendienteRows /\ cuenta \in CuentaRows
  /\ tokens \in Seq(RefreshTokenRows) /\ enlaces \in Seq(PasswordResetRows)

MaxIntentos == 2    \* bound: the wrong codes that close a registration

Activo == filas[Titular].estado = "activo"
DuenaActiva == cuenta.empresas > 0
Writes(t, next, old) ==
  /\ hilo' = [hilo EXCEPT ![t] = next]
  /\ viejas' = IF old THEN viejas \cup {hilo[t].op} ELSE viejas
Next1(t, pc, ver, otro) == [hilo[t] EXCEPT !.pc = pc, !.ver = ver, !.otro = otro]
Starts(t) == hilo[t].pc = "idle" /\ cuenta.version < MaxVersion

----------------------------------------
(* The account: register, verifyEmail.                                     *)

\* Whoever has no account may fill the form in again: the code, the password and the count of
\* wrong codes are replaced.
Register ==
  /\ cuenta.clave = 0 /\ registro.veces < 2
  /\ registro' = [veces |-> registro.veces + 1, intentos |-> 0, verificado |-> FALSE]
  /\ UNCHANGED <<dia, limitRows, hilo, cuenta, tokens, enlaces, viejas>>

VerifyEmail(t) ==
  /\ Starts(t) /\ registro.veces > 0 /\ ~registro.verificado
  /\ registro.intentos < MaxIntentos
  /\ Reads(t, "codigo", "verifyEmail", NoFila, 0, registro.veces, registro.intentos)
  /\ UNCHANGED <<dia, limitRows, authRows, viejas>>

WrongCode(t) ==
  /\ hilo[t].pc = "codigo"
  /\ registro' = [registro EXCEPT !.intentos = @ + 1]
  /\ Writes(t, Idle, registro.intentos # hilo[t].otro)
  /\ UNCHANGED <<dia, limitRows, cuenta, tokens, enlaces>>

\* The account is made with the password of the registration that was read; a second one is
\* refused by the unique email.
RightCode(t) ==
  /\ hilo[t].pc = "codigo"
  /\ IF cuenta.clave = 0
       THEN /\ cuenta' = [cuenta EXCEPT !.clave = 1]
            /\ registro' = [registro EXCEPT !.verificado = TRUE]
            /\ filas' = [filas EXCEPT ![Titular].estado = "activo"]
            /\ Writes(t, Idle, registro.veces # hilo[t].ver)
       ELSE Ends(t) /\ UNCHANGED <<filas, cuenta, registro, viejas>>
  /\ UNCHANGED <<dia, limite, vigente, servicio, mes, tokens, enlaces>>

----------------------------------------
(* The tokens.                                                             *)

\* The version and the state of the user are compared on every request.
Validates(k) == tokens[k].ver = cuenta.version /\ Activo
Usable(k) == ~tokens[k].revocado /\ tokens[k].ver = cuenta.version

RevokeAll == [k \in DOMAIN tokens |-> [tokens[k] EXCEPT !.revocado = TRUE]]

\* createRefreshToken: the last statement of every handler that opens a session.
CreateRefreshToken(t) ==
  /\ hilo[t].pc = "token" /\ Len(tokens) < MaxTokens
  /\ tokens' = Append(tokens, [ver |-> hilo[t].ver, epoca |-> hilo[t].otro, revocado |-> FALSE])
  /\ Ends(t)
  /\ UNCHANGED <<dia, limitRows, registro, cuenta, enlaces, viejas>>

\* The version read, plus one, written whatever it is by now.
WriteVersionAs(t, v, rest) ==
  /\ cuenta' = [cuenta EXCEPT !.version = v]
  /\ tokens' = rest
  /\ Writes(t, Next1(t, "token", v, hilo[t].otro), cuenta.version # hilo[t].ver)
  /\ UNCHANGED <<dia, limitRows, registro, enlaces>>

----------------------------------------
(* login and createCompany.                                                *)

Login(t) ==
  /\ Starts(t) /\ cuenta.clave > 0 /\ Activo /\ DuenaActiva
  /\ Reads(t, "version", "login", NoFila, 0, cuenta.version, cuenta.epoca)
  /\ UNCHANGED <<dia, limitRows, authRows, viejas>>

WriteVersion(t) ==
  /\ hilo[t].pc = "version" /\ hilo[t].op = "login"
  /\ WriteVersionAs(t, hilo[t].ver + 1, tokens)

\* The onboarding token of an account without company: what is checked and what is written
\* are statements of a transaction that does not see a concurrent one.
CreateCompany(t) ==
  /\ Starts(t) /\ cuenta.clave > 0 /\ Activo
  /\ cuenta.empresas = 0
  /\ Reads(t, "empresa", "createCompany", [NoFila EXCEPT !.n = cuenta.empresas], 0,
           cuenta.version, cuenta.epoca)
  /\ UNCHANGED <<dia, limitRows, authRows, viejas>>

CommitCompany(t) ==
  /\ hilo[t].pc = "empresa" /\ cuenta.empresas < 2
  /\ cuenta' = [cuenta EXCEPT !.empresas = @ + 1]
  /\ Writes(t, Next1(t, "inicio", hilo[t].ver, hilo[t].otro),
            cuenta.empresas # hilo[t].fila.n)
  /\ UNCHANGED <<dia, limitRows, registro, tokens, enlaces>>

StartCompany(t) ==
  /\ hilo[t].pc = "inicio"
  /\ WriteVersionAs(t, hilo[t].ver + 1, tokens)

----------------------------------------
(* refresh and logout.                                                     *)

\* A token of another version is revoked and refused.
RefreshOld(k) ==
  /\ k \in DOMAIN tokens /\ ~tokens[k].revocado /\ Activo
  /\ tokens[k].ver # cuenta.version
  /\ tokens' = [tokens EXCEPT ![k].revocado = TRUE]
  /\ UNCHANGED <<dia, limitRows, hilo, registro, cuenta, enlaces, viejas>>

Refresh(t, k) ==
  /\ Starts(t) /\ k \in DOMAIN tokens /\ Activo /\ Usable(k)
  /\ Reads(t, "rotar", "refresh", NoFila, k, cuenta.version, cuenta.epoca)
  /\ UNCHANGED <<dia, limitRows, authRows, viejas>>

\* Only the token is revoked, by its id, revoked or not; the version is written as in login.
Rotate(t) ==
  /\ hilo[t].pc = "rotar"
  /\ WriteVersionAs(t, hilo[t].ver + 1, [tokens EXCEPT ![hilo[t].obj].revocado = TRUE])

\* The client's token is one not revoked, of whatever version; every token of the user is
\* revoked with it.
Logout(k) ==
  /\ k \in DOMAIN tokens /\ ~tokens[k].revocado /\ cuenta.version < MaxVersion
  /\ tokens' = RevokeAll
  /\ cuenta' = [cuenta EXCEPT !.version = @ + 1, !.epoca = @ + 1]
  /\ UNCHANGED <<dia, limitRows, hilo, registro, enlaces, viejas>>

----------------------------------------
(* The user's own data and password.                                       *)

UpdateMe(t, k) ==
  /\ Starts(t) /\ k \in DOMAIN tokens /\ Validates(k)
  /\ Reads(t, "editar", "updateMe", NoFila, k, cuenta.version, cuenta.epoca)
  /\ UNCHANGED <<dia, limitRows, authRows, viejas>>

WriteMe(t) ==
  /\ hilo[t].pc = "editar"
  /\ cuenta' = [cuenta EXCEPT !.version = @ + 1]
  /\ Writes(t, Next1(t, "token", cuenta.version + 1, hilo[t].otro),
            cuenta.version # hilo[t].ver)
  /\ UNCHANGED <<dia, limitRows, registro, tokens, enlaces>>

ChangeMyPassword(t, k) ==
  /\ Starts(t) /\ k \in DOMAIN tokens /\ Validates(k)
  /\ Reads(t, "clave", "changeMyPassword", NoFila, k, cuenta.version, cuenta.epoca)
  /\ UNCHANGED <<dia, limitRows, authRows, viejas>>

\* The password and the version first, the tokens in another statement, a session at the end.
WritePasswordAs(t, v) ==
  /\ hilo[t].pc = "clave"
  /\ cuenta' = [cuenta EXCEPT !.clave = 2, !.version = v, !.epoca = @ + 1]
  /\ Writes(t, Next1(t, "revocar", v, cuenta.epoca + 1), cuenta.version # hilo[t].ver)
  /\ UNCHANGED <<dia, limitRows, registro, tokens, enlaces>>

WritePasswordOnly(t) == WritePasswordAs(t, cuenta.version)
WritePassword(t) == WritePasswordAs(t, cuenta.version + 1)

RevokeTokens(t) ==
  /\ hilo[t].pc = "revocar"
  /\ tokens' = RevokeAll
  /\ Writes(t, Next1(t, "token", hilo[t].ver, hilo[t].otro), FALSE)
  /\ UNCHANGED <<dia, limitRows, registro, cuenta, enlaces>>

----------------------------------------
(* forgotPassword and resetPassword.                                       *)

ForgotPassword ==
  /\ cuenta.clave > 0 /\ Activo /\ Len(enlaces) < MaxEnlaces
  /\ enlaces' = Append(enlaces, [usado |-> FALSE, veces |-> 0])
  /\ UNCHANGED <<dia, limitRows, hilo, registro, cuenta, tokens, viejas>>

ResetPassword(t, i) ==
  /\ Starts(t) /\ i \in DOMAIN enlaces /\ Activo
  /\ ~enlaces[i].usado
  /\ Reads(t, "restablecer", "resetPassword", NoFila, i, 0, 0)
  /\ UNCHANGED <<dia, limitRows, authRows, viejas>>

\* One transaction; whether the link was marked by it is not looked at.
WriteReset(t) ==
  /\ hilo[t].pc = "restablecer"
  /\ enlaces' = [enlaces EXCEPT ![hilo[t].obj].usado = TRUE, ![hilo[t].obj].veces = @ + 1]
  /\ cuenta' = [cuenta EXCEPT !.clave = 2, !.version = @ + 1, !.epoca = @ + 1]
  /\ tokens' = RevokeAll
  /\ Writes(t, Idle, enlaces[hilo[t].obj].usado)
  /\ UNCHANGED <<dia, limitRows, registro>>

\* The owner suspends the user, or lets it in again where there is room: the tokens stay as
\* they are.
UpdateStatus ==
  /\ cuenta.clave > 0 /\ (~Activo => AssertResourceLimits("users", 1))
  /\ filas' = [filas EXCEPT ![Titular].estado = IF Activo THEN "inactivo" ELSE "activo"]
  /\ UNCHANGED <<dia, limite, vigente, servicio, mes, hilo, authRows, viejas>>

----------------------------------------

SessionsInit ==
  /\ registro = [veces |-> 0, intentos |-> 0, verificado |-> FALSE]
  /\ cuenta = [clave |-> IF dia.que = "alta" THEN 0 ELSE 1, version |-> 0,
               empresas |-> IF dia.que = "alta" THEN 0 ELSE 1, epoca |-> 0]
  /\ tokens = <<>> /\ enlaces = <<>> /\ viejas = {}

SessionsNext ==
  \/ /\ dia.que = "alta"
     /\ \/ Register
        \/ \E t \in Hilos : \/ VerifyEmail(t) \/ WrongCode(t) \/ RightCode(t)
                            \/ CreateCompany(t) \/ CommitCompany(t) \/ StartCompany(t)
  \/ /\ dia.que = "sesiones"
     /\ \/ ForgotPassword \/ UpdateStatus
        \/ \E k \in 1..MaxTokens : RefreshOld(k) \/ Logout(k)
        \/ \E t \in Hilos :
             \/ Rotate(t) \/ WriteMe(t) \/ WritePassword(t) \/ RevokeTokens(t) \/ WriteReset(t)
             \/ \E k \in 1..MaxTokens : Refresh(t, k) \/ UpdateMe(t, k) \/ ChangeMyPassword(t, k)
             \/ \E i \in 1..MaxEnlaces : ResetPassword(t, i)
  \/ /\ dia.que \in {"alta", "sesiones"}
     /\ \E t \in Hilos : Login(t) \/ WriteVersion(t) \/ CreateRefreshToken(t)

----------------------------------------

\* A change of password, a reset or a logout ends what was opened before it: a token good now
\* was asked for after the last of them, unless a handler had written the version it read
\* over a newer one.
SessionsFollowPassword ==
  (\A k \in DOMAIN tokens : Validates(k) => tokens[k].epoca = cuenta.epoca)
  \/ viejas \cap {"login", "refresh", "createCompany", "updateMe", "changeMyPassword"} # {}

\* An account has one session at a time, and a refresh token is traded for one other: at most
\* one refresh token is good, unless the version went back or stood still.
OneLiveSession ==
  Cardinality({k \in DOMAIN tokens : Usable(k)}) <= 1
  \/ viejas \cap {"login", "refresh", "createCompany"} # {}

\* A reset link changes the password once, and an account registers one company, unless two
\* requests with the same link, or of the same account, overlapped.
SpentOnce ==
  /\ (\A i \in DOMAIN enlaces : enlaces[i].veces <= 1) \/ "resetPassword" \in viejas
  /\ cuenta.empresas <= 1 \/ "createCompany" \in viejas

\* What was opened, or may be spent once, is worth no more than that, however requests of one
\* account overlap.
AccountHolds == SessionsFollowPassword /\ OneLiveSession /\ SpentOnce
=============================================================================
