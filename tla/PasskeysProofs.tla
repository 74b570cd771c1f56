--------------------------- MODULE PasskeysProofs ---------------------------
(***************************************************************************)
(* What Passkeys promises, for every number of users, keys, challenges and *)
(* requests.                                                               *)
(***************************************************************************)
EXTENDS Passkeys, TLAPS

\* Places of a request that has consumed its challenge and not spent it.
Holding == {"consumed", "found", "judged", "counted"}

\* No response and no judgement counts more signatures than were made.
Counts ==
    /\ \A r \in Requests :
          at[r] # "idle" => asked[r].count <= signs[asked[r].key]
    /\ \A r \in Logins : at[r] = "judged" => seen[r] <= signs[asked[r].key]

\* A challenge that one request holds is gone, unspent, and no other's; a
\* challenge that is spent is gone.
Once ==
    /\ \A r \in Requests : at[r] \in Holding =>
          /\ challenge[asked[r].id] = "gone"
          /\ spent[asked[r].id] = 0
    /\ \A r, s \in Requests :
          at[r] \in Holding /\ at[s] \in Holding /\ asked[r].id = asked[s].id
             => r = s
    /\ \A c \in Challenges : challenge[c] # "gone" => spent[c] = 0

\* The counter of a row falls under a login that saw a lower one.
Falling ==
    \A k \in Keys :
       holder[k] # Nobody /\ holder'[k] = holder[k] /\ counter'[k] < counter[k]
          => \E r \in Logins : /\ at[r] = "judged" /\ asked[r].key = k
                               /\ seen[r] < counter[k]

\* A login that was judged works for the user whose key it presents, or the
\* key was deleted since; a registration works for a user.
Judged ==
    /\ \A r \in Logins :
          /\ at[r] \in {"found"} \cup Past => account[r] # Nobody
          /\ at[r] \in Past =>
                holder[asked[r].key] = account[r] \/ r \in overtaken
    /\ \A r \in Registrations : at[r] # "idle" => account[r] # Nobody

\* Every step keeps the types.
LEMMA NextKeepsTypes ==
    ASSUME TypeOK, Counts, Judged, [Next]_vars
    PROVE  TypeOK'
<1> USE PasskeysAssumption DEF rows, login, Requests
<1>1. ASSUME NEW c \in Challenges, NEW u \in Users \cup {Nobody}, Begin(c, u)
      PROVE  TypeOK'
    BY <1>1, TypeOK, Counts, Judged DEF Begin, Unexpired,
       CreatePasskeyChallenge, TypeOK, Counts, Judged, Places, Responses,
       NoResponse
<1>2. ASSUME NEW c \in Challenges, Expire(c)
      PROVE  TypeOK'
    BY <1>2, TypeOK, Counts, Judged DEF Expire, TypeOK, Counts, Judged, Places,
       Responses, NoResponse
<1>3. ASSUME NEW r \in Requests, Consume(r)
      PROVE  TypeOK'
    BY <1>3, TypeOK, Counts, Judged DEF Consume, ConsumePasskeyChallenge,
       Goes, TypeOK, Counts, Judged, Places, Responses, NoResponse
<1>4. ASSUME NEW r \in Requests, ConsumeLate(r)
      PROVE  TypeOK'
    BY <1>4, TypeOK, Counts, Judged DEF ConsumeLate, ConsumePasskeyChallenge,
       Goes, TypeOK, Counts, Judged, Places, Responses, NoResponse
<1>5. ASSUME NEW r \in Requests, Fail(r)
      PROVE  TypeOK'
    BY <1>5, TypeOK, Counts, Judged DEF Fail, Goes, TypeOK, Counts, Judged,
       Places, Responses, NoResponse
<1>6. ASSUME NEW r \in Logins, PostLogin(r)
      PROVE  TypeOK'
    BY <1>6, TypeOK, Counts, Judged DEF PostLogin, Begun, Goes, TypeOK, Counts,
       Judged, Places, Responses, NoResponse
<1>7. ASSUME NEW r \in Logins, PostAgain(r)
      PROVE  TypeOK'
    BY <1>7, TypeOK, Counts, Judged DEF PostAgain, Begun, Goes, TypeOK, Counts,
       Judged, Places, Responses, NoResponse
<1>8. ASSUME NEW r \in Logins, FindAccount(r)
      PROVE  TypeOK'
    BY <1>8, TypeOK, Counts, Judged DEF FindAccount, Goes, TypeOK, Counts,
       Judged, Places, Responses, NoResponse
<1>9. ASSUME NEW r \in Logins, Judge(r)
      PROVE  TypeOK'
    BY <1>9, TypeOK, Counts, Judged DEF Judge, CredentialsOf, Goes, TypeOK,
       Counts, Judged, Places, Responses, NoResponse
<1>10. ASSUME NEW r \in Logins, WriteCounter(r)
      PROVE  TypeOK'
    BY <1>10, TypeOK, Counts, Judged DEF WriteCounter,
       UpdatePasskeyCredentialCounter, SignCount, Goes, TypeOK, Counts,
       Judged, Places, Responses, NoResponse
<1>11. ASSUME NEW r \in Logins, CreateSession(r)
      PROVE  TypeOK'
    BY <1>11, TypeOK, Counts, Judged DEF CreateSession, Goes, TypeOK, Counts,
       Judged, Places, Responses, NoResponse
<1>12. ASSUME NEW r \in Logins, Finish(r)
      PROVE  TypeOK'
    BY <1>12, TypeOK, Counts, Judged DEF Finish, Goes, TypeOK, Counts, Judged,
       Places, Responses, NoResponse
<1>13. ASSUME NEW r \in Registrations, NEW u \in Users, PostRegistration(r, u)
      PROVE  TypeOK'
    BY <1>13, TypeOK, Counts, Judged DEF PostRegistration, Begun, Goes, TypeOK,
       Counts, Judged, Places, Responses, NoResponse
<1>14. ASSUME NEW r \in Registrations, Accept(r)
      PROVE  TypeOK'
    BY <1>14, TypeOK, Counts, Judged DEF Accept, Goes, TypeOK, Counts, Judged,
       Places, Responses, NoResponse
<1>15. ASSUME NEW r \in Registrations, Store(r)
      PROVE  TypeOK'
    BY <1>15, TypeOK, Counts, Judged DEF Store, CreatePasskeyCredential, Goes,
       TypeOK, Counts, Judged, Places, Responses, NoResponse
<1>16. ASSUME NEW k \in Keys, DeleteCredential(k)
      PROVE  TypeOK'
    BY <1>16, TypeOK, Counts, Judged DEF DeleteCredential,
       DeletePasskeyCredential, Past, TypeOK, Counts, Judged, Places,
       Responses, NoResponse
<1>17. CASE UNCHANGED vars
    BY <1>17, TypeOK, Counts, Judged DEF vars, TypeOK, Counts, Judged, Places,
       Responses, NoResponse
<1>q. QED
    BY <1>1, <1>2, <1>3, <1>4, <1>5, <1>6, <1>7, <1>8, <1>9, <1>10, <1>11,
       <1>12, <1>13, <1>14, <1>15, <1>16, <1>17 DEF Next, LoginStep,
       BeginLogin, BeginRegistration, RegistrationStep

\* Every step keeps the counts.
LEMMA NextKeepsCounts ==
    ASSUME TypeOK, Counts, [Next]_vars
    PROVE  Counts'
<1> USE PasskeysAssumption DEF rows, login, Requests
<1>1. ASSUME NEW c \in Challenges, NEW u \in Users \cup {Nobody}, Begin(c, u)
      PROVE  Counts'
    BY <1>1, TypeOK, Counts DEF Begin, Unexpired, CreatePasskeyChallenge,
       TypeOK, Counts, Places, Responses, NoResponse
<1>2. ASSUME NEW c \in Challenges, Expire(c)
      PROVE  Counts'
    BY <1>2, TypeOK, Counts DEF Expire, TypeOK, Counts, Places, Responses,
       NoResponse
<1>3. ASSUME NEW r \in Requests, Consume(r)
      PROVE  Counts'
    BY <1>3, TypeOK, Counts DEF Consume, ConsumePasskeyChallenge, Goes,
       TypeOK, Counts, Places, Responses, NoResponse
<1>4. ASSUME NEW r \in Requests, ConsumeLate(r)
      PROVE  Counts'
    BY <1>4, TypeOK, Counts DEF ConsumeLate, ConsumePasskeyChallenge, Goes,
       TypeOK, Counts, Places, Responses, NoResponse
<1>5. ASSUME NEW r \in Requests, Fail(r)
      PROVE  Counts'
    BY <1>5, TypeOK, Counts DEF Fail, Goes, TypeOK, Counts, Places, Responses,
       NoResponse
<1>6. ASSUME NEW r \in Logins, PostLogin(r)
      PROVE  Counts'
    BY <1>6, TypeOK, Counts DEF PostLogin, Begun, Goes, TypeOK, Counts, Places,
       Responses, NoResponse
<1>7. ASSUME NEW r \in Logins, PostAgain(r)
      PROVE  Counts'
    BY <1>7, TypeOK, Counts DEF PostAgain, Begun, Goes, TypeOK, Counts, Places,
       Responses, NoResponse
<1>8. ASSUME NEW r \in Logins, FindAccount(r)
      PROVE  Counts'
    BY <1>8, TypeOK, Counts DEF FindAccount, Goes, TypeOK, Counts, Places,
       Responses, NoResponse
<1>9. ASSUME NEW r \in Logins, Judge(r)
      PROVE  Counts'
    BY <1>9, TypeOK, Counts DEF Judge, CredentialsOf, Goes, TypeOK, Counts,
       Places, Responses, NoResponse
<1>10. ASSUME NEW r \in Logins, WriteCounter(r)
      PROVE  Counts'
    BY <1>10, TypeOK, Counts DEF WriteCounter, UpdatePasskeyCredentialCounter,
       SignCount, Goes, TypeOK, Counts, Places, Responses, NoResponse
<1>11. ASSUME NEW r \in Logins, CreateSession(r)
      PROVE  Counts'
    BY <1>11, TypeOK, Counts DEF CreateSession, Goes, TypeOK, Counts, Places,
       Responses, NoResponse
<1>12. ASSUME NEW r \in Logins, Finish(r)
      PROVE  Counts'
    BY <1>12, TypeOK, Counts DEF Finish, Goes, TypeOK, Counts, Places,
       Responses, NoResponse
<1>13. ASSUME NEW r \in Registrations, NEW u \in Users, PostRegistration(r, u)
      PROVE  Counts'
    BY <1>13, TypeOK, Counts DEF PostRegistration, Begun, Goes, TypeOK, Counts,
       Places, Responses, NoResponse
<1>14. ASSUME NEW r \in Registrations, Accept(r)
      PROVE  Counts'
    BY <1>14, TypeOK, Counts DEF Accept, Goes, TypeOK, Counts, Places,
       Responses, NoResponse
<1>15. ASSUME NEW r \in Registrations, Store(r)
      PROVE  Counts'
    BY <1>15, TypeOK, Counts DEF Store, CreatePasskeyCredential, Goes, TypeOK,
       Counts, Places, Responses, NoResponse
<1>16. ASSUME NEW k \in Keys, DeleteCredential(k)
      PROVE  Counts'
    BY <1>16, TypeOK, Counts DEF DeleteCredential, DeletePasskeyCredential,
       Past, TypeOK, Counts, Places, Responses, NoResponse
<1>17. CASE UNCHANGED vars
    BY <1>17, TypeOK, Counts DEF vars, TypeOK, Counts, Places, Responses,
       NoResponse
<1>q. QED
    BY <1>1, <1>2, <1>3, <1>4, <1>5, <1>6, <1>7, <1>8, <1>9, <1>10, <1>11,
       <1>12, <1>13, <1>14, <1>15, <1>16, <1>17 DEF Next, LoginStep,
       BeginLogin, BeginRegistration, RegistrationStep

\* ConsumeChallenge hands a challenge to one request.
LEMMA NextKeepsOnce ==
    ASSUME TypeOK, Once, [Next]_vars
    PROVE  Once'
<1> USE PasskeysAssumption DEF rows, login, Requests
<1>1. ASSUME NEW c \in Challenges, NEW u \in Users \cup {Nobody}, Begin(c, u)
      PROVE  Once'
    BY <1>1, TypeOK, Once DEF Begin, Unexpired, CreatePasskeyChallenge,
       TypeOK, Once, Holding, Places, Responses, NoResponse
<1>2. ASSUME NEW c \in Challenges, Expire(c)
      PROVE  Once'
    BY <1>2, TypeOK, Once DEF Expire, TypeOK, Once, Holding, Places, Responses,
       NoResponse
<1>3. ASSUME NEW r \in Requests, Consume(r)
      PROVE  Once'
    BY <1>3, TypeOK, Once DEF Consume, ConsumePasskeyChallenge, Goes, TypeOK,
       Once, Holding, Places, Responses, NoResponse
<1>4. ASSUME NEW r \in Requests, ConsumeLate(r)
      PROVE  Once'
    BY <1>4, TypeOK, Once DEF ConsumeLate, ConsumePasskeyChallenge, Goes,
       TypeOK, Once, Holding, Places, Responses, NoResponse
<1>5. ASSUME NEW r \in Requests, Fail(r)
      PROVE  Once'
    BY <1>5, TypeOK, Once DEF Fail, Goes, TypeOK, Once, Holding, Places,
       Responses, NoResponse
<1>6. ASSUME NEW r \in Logins, PostLogin(r)
      PROVE  Once'
    BY <1>6, TypeOK, Once DEF PostLogin, Begun, Goes, TypeOK, Once, Holding,
       Places, Responses, NoResponse
<1>7. ASSUME NEW r \in Logins, PostAgain(r)
      PROVE  Once'
    BY <1>7, TypeOK, Once DEF PostAgain, Begun, Goes, TypeOK, Once, Holding,
       Places, Responses, NoResponse
<1>8. ASSUME NEW r \in Logins, FindAccount(r)
      PROVE  Once'
    BY <1>8, TypeOK, Once DEF FindAccount, Goes, TypeOK, Once, Holding, Places,
       Responses, NoResponse
<1>9. ASSUME NEW r \in Logins, Judge(r)
      PROVE  Once'
    BY <1>9, TypeOK, Once DEF Judge, CredentialsOf, Goes, TypeOK, Once,
       Holding, Places, Responses, NoResponse
<1>10. ASSUME NEW r \in Logins, WriteCounter(r)
      PROVE  Once'
    BY <1>10, TypeOK, Once DEF WriteCounter, UpdatePasskeyCredentialCounter,
       SignCount, Goes, TypeOK, Once, Holding, Places, Responses, NoResponse
<1>11. ASSUME NEW r \in Logins, CreateSession(r)
      PROVE  Once'
    BY <1>11, TypeOK, Once DEF CreateSession, Goes, TypeOK, Once, Holding,
       Places, Responses, NoResponse
<1>12. ASSUME NEW r \in Logins, Finish(r)
      PROVE  Once'
    BY <1>12, TypeOK, Once DEF Finish, Goes, TypeOK, Once, Holding, Places,
       Responses, NoResponse
<1>13. ASSUME NEW r \in Registrations, NEW u \in Users, PostRegistration(r, u)
      PROVE  Once'
    BY <1>13, TypeOK, Once DEF PostRegistration, Begun, Goes, TypeOK, Once,
       Holding, Places, Responses, NoResponse
<1>14. ASSUME NEW r \in Registrations, Accept(r)
      PROVE  Once'
    BY <1>14, TypeOK, Once DEF Accept, Goes, TypeOK, Once, Holding, Places,
       Responses, NoResponse
<1>15. ASSUME NEW r \in Registrations, Store(r)
      PROVE  Once'
    BY <1>15, TypeOK, Once DEF Store, CreatePasskeyCredential, Goes, TypeOK,
       Once, Holding, Places, Responses, NoResponse
<1>16. ASSUME NEW k \in Keys, DeleteCredential(k)
      PROVE  Once'
    BY <1>16, TypeOK, Once DEF DeleteCredential, DeletePasskeyCredential,
       Past, TypeOK, Once, Holding, Places, Responses, NoResponse
<1>17. CASE UNCHANGED vars
    BY <1>17, TypeOK, Once DEF vars, TypeOK, Once, Holding, Places, Responses,
       NoResponse
<1>q. QED
    BY <1>1, <1>2, <1>3, <1>4, <1>5, <1>6, <1>7, <1>8, <1>9, <1>10, <1>11,
       <1>12, <1>13, <1>14, <1>15, <1>16, <1>17 DEF Next, LoginStep,
       BeginLogin, BeginRegistration, RegistrationStep

\* A challenge that is held is not spent yet.
LEMMA NextSpendsOnce ==
    ASSUME TypeOK, Once, ChallengeUsedOnce, [Next]_vars
    PROVE  ChallengeUsedOnce'
<1> USE PasskeysAssumption DEF rows, login, Requests
<1>1. ASSUME NEW c \in Challenges, NEW u \in Users \cup {Nobody}, Begin(c, u)
      PROVE  ChallengeUsedOnce'
    BY <1>1, TypeOK, Once, ChallengeUsedOnce DEF Begin, Unexpired,
       CreatePasskeyChallenge, TypeOK, Once, ChallengeUsedOnce, Holding,
       Places, Responses, NoResponse
<1>2. ASSUME NEW c \in Challenges, Expire(c)
      PROVE  ChallengeUsedOnce'
    BY <1>2, TypeOK, Once, ChallengeUsedOnce DEF Expire, TypeOK, Once,
       ChallengeUsedOnce, Holding, Places, Responses, NoResponse
<1>3. ASSUME NEW r \in Requests, Consume(r)
      PROVE  ChallengeUsedOnce'
    BY <1>3, TypeOK, Once, ChallengeUsedOnce DEF Consume,
       ConsumePasskeyChallenge, Goes, TypeOK, Once, ChallengeUsedOnce,
       Holding, Places, Responses, NoResponse
<1>4. ASSUME NEW r \in Requests, ConsumeLate(r)
      PROVE  ChallengeUsedOnce'
    BY <1>4, TypeOK, Once, ChallengeUsedOnce DEF ConsumeLate,
       ConsumePasskeyChallenge, Goes, TypeOK, Once, ChallengeUsedOnce,
       Holding, Places, Responses, NoResponse
<1>5. ASSUME NEW r \in Requests, Fail(r)
      PROVE  ChallengeUsedOnce'
    BY <1>5, TypeOK, Once, ChallengeUsedOnce DEF Fail, Goes, TypeOK, Once,
       ChallengeUsedOnce, Holding, Places, Responses, NoResponse
<1>6. ASSUME NEW r \in Logins, PostLogin(r)
      PROVE  ChallengeUsedOnce'
    BY <1>6, TypeOK, Once, ChallengeUsedOnce DEF PostLogin, Begun, Goes,
       TypeOK, Once, ChallengeUsedOnce, Holding, Places, Responses, NoResponse
<1>7. ASSUME NEW r \in Logins, PostAgain(r)
      PROVE  ChallengeUsedOnce'
    BY <1>7, TypeOK, Once, ChallengeUsedOnce DEF PostAgain, Begun, Goes,
       TypeOK, Once, ChallengeUsedOnce, Holding, Places, Responses, NoResponse
<1>8. ASSUME NEW r \in Logins, FindAccount(r)
      PROVE  ChallengeUsedOnce'
    BY <1>8, TypeOK, Once, ChallengeUsedOnce DEF FindAccount, Goes, TypeOK,
       Once, ChallengeUsedOnce, Holding, Places, Responses, NoResponse
<1>9. ASSUME NEW r \in Logins, Judge(r)
      PROVE  ChallengeUsedOnce'
    BY <1>9, TypeOK, Once, ChallengeUsedOnce DEF Judge, CredentialsOf, Goes,
       TypeOK, Once, ChallengeUsedOnce, Holding, Places, Responses, NoResponse
<1>10. ASSUME NEW r \in Logins, WriteCounter(r)
      PROVE  ChallengeUsedOnce'
    BY <1>10, TypeOK, Once, ChallengeUsedOnce DEF WriteCounter,
       UpdatePasskeyCredentialCounter, SignCount, Goes, TypeOK, Once,
       ChallengeUsedOnce, Holding, Places, Responses, NoResponse
<1>11. ASSUME NEW r \in Logins, CreateSession(r)
      PROVE  ChallengeUsedOnce'
    BY <1>11, TypeOK, Once, ChallengeUsedOnce DEF CreateSession, Goes, TypeOK,
       Once, ChallengeUsedOnce, Holding, Places, Responses, NoResponse
<1>12. ASSUME NEW r \in Logins, Finish(r)
      PROVE  ChallengeUsedOnce'
    BY <1>12, TypeOK, Once, ChallengeUsedOnce DEF Finish, Goes, TypeOK, Once,
       ChallengeUsedOnce, Holding, Places, Responses, NoResponse
<1>13. ASSUME NEW r \in Registrations, NEW u \in Users, PostRegistration(r, u)
      PROVE  ChallengeUsedOnce'
    BY <1>13, TypeOK, Once, ChallengeUsedOnce DEF PostRegistration, Begun,
       Goes, TypeOK, Once, ChallengeUsedOnce, Holding, Places, Responses,
       NoResponse
<1>14. ASSUME NEW r \in Registrations, Accept(r)
      PROVE  ChallengeUsedOnce'
    BY <1>14, TypeOK, Once, ChallengeUsedOnce DEF Accept, Goes, TypeOK, Once,
       ChallengeUsedOnce, Holding, Places, Responses, NoResponse
<1>15. ASSUME NEW r \in Registrations, Store(r)
      PROVE  ChallengeUsedOnce'
    BY <1>15, TypeOK, Once, ChallengeUsedOnce DEF Store,
       CreatePasskeyCredential, Goes, TypeOK, Once, ChallengeUsedOnce,
       Holding, Places, Responses, NoResponse
<1>16. ASSUME NEW k \in Keys, DeleteCredential(k)
      PROVE  ChallengeUsedOnce'
    BY <1>16, TypeOK, Once, ChallengeUsedOnce DEF DeleteCredential,
       DeletePasskeyCredential, Past, TypeOK, Once, ChallengeUsedOnce,
       Holding, Places, Responses, NoResponse
<1>17. CASE UNCHANGED vars
    BY <1>17, TypeOK, Once, ChallengeUsedOnce DEF vars, TypeOK, Once,
       ChallengeUsedOnce, Holding, Places, Responses, NoResponse
<1>q. QED
    BY <1>1, <1>2, <1>3, <1>4, <1>5, <1>6, <1>7, <1>8, <1>9, <1>10, <1>11,
       <1>12, <1>13, <1>14, <1>15, <1>16, <1>17 DEF Next, LoginStep,
       BeginLogin, BeginRegistration, RegistrationStep

\* A judgement stands until the key goes.
LEMMA NextKeepsJudged ==
    ASSUME TypeOK, Judged, [Next]_vars
    PROVE  Judged'
<1> USE PasskeysAssumption DEF rows, login, Requests
<1>1. ASSUME NEW c \in Challenges, NEW u \in Users \cup {Nobody}, Begin(c, u)
      PROVE  Judged'
    BY <1>1, TypeOK, Judged DEF Begin, Unexpired, CreatePasskeyChallenge,
       TypeOK, Judged, Past, Places, Responses, NoResponse
<1>2. ASSUME NEW c \in Challenges, Expire(c)
      PROVE  Judged'
    BY <1>2, TypeOK, Judged DEF Expire, TypeOK, Judged, Past, Places,
       Responses, NoResponse
<1>3. ASSUME NEW r \in Requests, Consume(r)
      PROVE  Judged'
    BY <1>3, TypeOK, Judged DEF Consume, ConsumePasskeyChallenge, Goes,
       TypeOK, Judged, Past, Places, Responses, NoResponse
<1>4. ASSUME NEW r \in Requests, ConsumeLate(r)
      PROVE  Judged'
    BY <1>4, TypeOK, Judged DEF ConsumeLate, ConsumePasskeyChallenge, Goes,
       TypeOK, Judged, Past, Places, Responses, NoResponse
<1>5. ASSUME NEW r \in Requests, Fail(r)
      PROVE  Judged'
    BY <1>5, TypeOK, Judged DEF Fail, Goes, TypeOK, Judged, Past, Places,
       Responses, NoResponse
<1>6. ASSUME NEW r \in Logins, PostLogin(r)
      PROVE  Judged'
    BY <1>6, TypeOK, Judged DEF PostLogin, Begun, Goes, TypeOK, Judged, Past,
       Places, Responses, NoResponse
<1>7. ASSUME NEW r \in Logins, PostAgain(r)
      PROVE  Judged'
    BY <1>7, TypeOK, Judged DEF PostAgain, Begun, Goes, TypeOK, Judged, Past,
       Places, Responses, NoResponse
<1>8. ASSUME NEW r \in Logins, FindAccount(r)
      PROVE  Judged'
    BY <1>8, TypeOK, Judged DEF FindAccount, Goes, TypeOK, Judged, Past,
       Places, Responses, NoResponse
<1>9. ASSUME NEW r \in Logins, Judge(r)
      PROVE  Judged'
    BY <1>9, TypeOK, Judged DEF Judge, CredentialsOf, Goes, TypeOK, Judged,
       Past, Places, Responses, NoResponse
<1>10. ASSUME NEW r \in Logins, WriteCounter(r)
      PROVE  Judged'
    BY <1>10, TypeOK, Judged DEF WriteCounter, UpdatePasskeyCredentialCounter,
       SignCount, Goes, TypeOK, Judged, Past, Places, Responses, NoResponse
<1>11. ASSUME NEW r \in Logins, CreateSession(r)
      PROVE  Judged'
    BY <1>11, TypeOK, Judged DEF CreateSession, Goes, TypeOK, Judged, Past,
       Places, Responses, NoResponse
<1>12. ASSUME NEW r \in Logins, Finish(r)
      PROVE  Judged'
    BY <1>12, TypeOK, Judged DEF Finish, Goes, TypeOK, Judged, Past, Places,
       Responses, NoResponse
<1>13. ASSUME NEW r \in Registrations, NEW u \in Users, PostRegistration(r, u)
      PROVE  Judged'
    BY <1>13, TypeOK, Judged DEF PostRegistration, Begun, Goes, TypeOK, Judged,
       Past, Places, Responses, NoResponse
<1>14. ASSUME NEW r \in Registrations, Accept(r)
      PROVE  Judged'
    BY <1>14, TypeOK, Judged DEF Accept, Goes, TypeOK, Judged, Past, Places,
       Responses, NoResponse
<1>15. ASSUME NEW r \in Registrations, Store(r)
      PROVE  Judged'
    BY <1>15, TypeOK, Judged DEF Store, CreatePasskeyCredential, Goes, TypeOK,
       Judged, Past, Places, Responses, NoResponse
<1>16. ASSUME NEW k \in Keys, DeleteCredential(k)
      PROVE  Judged'
    BY <1>16, TypeOK, Judged DEF DeleteCredential, DeletePasskeyCredential,
       Past, TypeOK, Judged, Past, Places, Responses, NoResponse
<1>17. CASE UNCHANGED vars
    BY <1>17, TypeOK, Judged DEF vars, TypeOK, Judged, Past, Places, Responses,
       NoResponse
<1>q. QED
    BY <1>1, <1>2, <1>3, <1>4, <1>5, <1>6, <1>7, <1>8, <1>9, <1>10, <1>11,
       <1>12, <1>13, <1>14, <1>15, <1>16, <1>17 DEF Next, LoginStep,
       BeginLogin, BeginRegistration, RegistrationStep

\* CreateSession follows a judgement that stands.
LEMMA NextStopsDeleted ==
    ASSUME TypeOK, Judged, [Next]_vars
    PROVE  \A q \in session' \ session :
                holder[asked[q].key] = account[q] \/ q \in overtaken
<1> USE PasskeysAssumption DEF rows, login, Requests
<1>1. ASSUME NEW c \in Challenges, NEW u \in Users \cup {Nobody}, Begin(c, u)
      PROVE  \A q \in session' \ session :
                holder[asked[q].key] = account[q] \/ q \in overtaken
    BY <1>1, TypeOK, Judged DEF Begin, Unexpired, CreatePasskeyChallenge,
       TypeOK, Judged, Past, Places, Responses, NoResponse
<1>2. ASSUME NEW c \in Challenges, Expire(c)
      PROVE  \A q \in session' \ session :
                holder[asked[q].key] = account[q] \/ q \in overtaken
    BY <1>2, TypeOK, Judged DEF Expire, TypeOK, Judged, Past, Places,
       Responses, NoResponse
<1>3. ASSUME NEW r \in Requests, Consume(r)
      PROVE  \A q \in session' \ session :
                holder[asked[q].key] = account[q] \/ q \in overtaken
    BY <1>3, TypeOK, Judged DEF Consume, ConsumePasskeyChallenge, Goes,
       TypeOK, Judged, Past, Places, Responses, NoResponse
<1>4. ASSUME NEW r \in Requests, ConsumeLate(r)
      PROVE  \A q \in session' \ session :
                holder[asked[q].key] = account[q] \/ q \in overtaken
    BY <1>4, TypeOK, Judged DEF ConsumeLate, ConsumePasskeyChallenge, Goes,
       TypeOK, Judged, Past, Places, Responses, NoResponse
<1>5. ASSUME NEW r \in Requests, Fail(r)
      PROVE  \A q \in session' \ session :
                holder[asked[q].key] = account[q] \/ q \in overtaken
    BY <1>5, TypeOK, Judged DEF Fail, Goes, TypeOK, Judged, Past, Places,
       Responses, NoResponse
<1>6. ASSUME NEW r \in Logins, PostLogin(r)
      PROVE  \A q \in session' \ session :
                holder[asked[q].key] = account[q] \/ q \in overtaken
    BY <1>6, TypeOK, Judged DEF PostLogin, Begun, Goes, TypeOK, Judged, Past,
       Places, Responses, NoResponse
<1>7. ASSUME NEW r \in Logins, PostAgain(r)
      PROVE  \A q \in session' \ session :
                holder[asked[q].key] = account[q] \/ q \in overtaken
    BY <1>7, TypeOK, Judged DEF PostAgain, Begun, Goes, TypeOK, Judged, Past,
       Places, Responses, NoResponse
<1>8. ASSUME NEW r \in Logins, FindAccount(r)
      PROVE  \A q \in session' \ session :
                holder[asked[q].key] = account[q] \/ q \in overtaken
    BY <1>8, TypeOK, Judged DEF FindAccount, Goes, TypeOK, Judged, Past,
       Places, Responses, NoResponse
<1>9. ASSUME NEW r \in Logins, Judge(r)
      PROVE  \A q \in session' \ session :
                holder[asked[q].key] = account[q] \/ q \in overtaken
    BY <1>9, TypeOK, Judged DEF Judge, CredentialsOf, Goes, TypeOK, Judged,
       Past, Places, Responses, NoResponse
<1>10. ASSUME NEW r \in Logins, WriteCounter(r)
      PROVE  \A q \in session' \ session :
                holder[asked[q].key] = account[q] \/ q \in overtaken
    BY <1>10, TypeOK, Judged DEF WriteCounter, UpdatePasskeyCredentialCounter,
       SignCount, Goes, TypeOK, Judged, Past, Places, Responses, NoResponse
<1>11. ASSUME NEW r \in Logins, CreateSession(r)
      PROVE  \A q \in session' \ session :
                holder[asked[q].key] = account[q] \/ q \in overtaken
    BY <1>11, TypeOK, Judged DEF CreateSession, Goes, TypeOK, Judged, Past,
       Places, Responses, NoResponse
<1>12. ASSUME NEW r \in Logins, Finish(r)
      PROVE  \A q \in session' \ session :
                holder[asked[q].key] = account[q] \/ q \in overtaken
    BY <1>12, TypeOK, Judged DEF Finish, Goes, TypeOK, Judged, Past, Places,
       Responses, NoResponse
<1>13. ASSUME NEW r \in Registrations, NEW u \in Users, PostRegistration(r, u)
      PROVE  \A q \in session' \ session :
                holder[asked[q].key] = account[q] \/ q \in overtaken
    BY <1>13, TypeOK, Judged DEF PostRegistration, Begun, Goes, TypeOK, Judged,
       Past, Places, Responses, NoResponse
<1>14. ASSUME NEW r \in Registrations, Accept(r)
      PROVE  \A q \in session' \ session :
                holder[asked[q].key] = account[q] \/ q \in overtaken
    BY <1>14, TypeOK, Judged DEF Accept, Goes, TypeOK, Judged, Past, Places,
       Responses, NoResponse
<1>15. ASSUME NEW r \in Registrations, Store(r)
      PROVE  \A q \in session' \ session :
                holder[asked[q].key] = account[q] \/ q \in overtaken
    BY <1>15, TypeOK, Judged DEF Store, CreatePasskeyCredential, Goes, TypeOK,
       Judged, Past, Places, Responses, NoResponse
<1>16. ASSUME NEW k \in Keys, DeleteCredential(k)
      PROVE  \A q \in session' \ session :
                holder[asked[q].key] = account[q] \/ q \in overtaken
    BY <1>16, TypeOK, Judged DEF DeleteCredential, DeletePasskeyCredential,
       Past, TypeOK, Judged, Past, Places, Responses, NoResponse
<1>17. CASE UNCHANGED vars
    BY <1>17, TypeOK, Judged DEF vars, TypeOK, Judged, Past, Places, Responses,
       NoResponse
<1>q. QED
    BY <1>1, <1>2, <1>3, <1>4, <1>5, <1>6, <1>7, <1>8, <1>9, <1>10, <1>11,
       <1>12, <1>13, <1>14, <1>15, <1>16, <1>17 DEF Next, LoginStep,
       BeginLogin, BeginRegistration, RegistrationStep

\* UpdateCounter never stores less than the login has seen.
LEMMA NextFallsBehind ==
    ASSUME TypeOK, [Next]_vars
    PROVE  Falling
<1> USE PasskeysAssumption DEF rows, login, Requests
<1>1. ASSUME NEW c \in Challenges, NEW u \in Users \cup {Nobody}, Begin(c, u)
      PROVE  Falling
    BY <1>1, TypeOK DEF Begin, Unexpired, CreatePasskeyChallenge, Falling,
       TypeOK, Places, Responses, NoResponse
<1>2. ASSUME NEW c \in Challenges, Expire(c)
      PROVE  Falling
    BY <1>2, TypeOK DEF Expire, Falling, TypeOK, Places, Responses, NoResponse
<1>3. ASSUME NEW r \in Requests, Consume(r)
      PROVE  Falling
    BY <1>3, TypeOK DEF Consume, ConsumePasskeyChallenge, Goes, Falling,
       TypeOK, Places, Responses, NoResponse
<1>4. ASSUME NEW r \in Requests, ConsumeLate(r)
      PROVE  Falling
    BY <1>4, TypeOK DEF ConsumeLate, ConsumePasskeyChallenge, Goes, Falling,
       TypeOK, Places, Responses, NoResponse
<1>5. ASSUME NEW r \in Requests, Fail(r)
      PROVE  Falling
    BY <1>5, TypeOK DEF Fail, Goes, Falling, TypeOK, Places, Responses,
       NoResponse
<1>6. ASSUME NEW r \in Logins, PostLogin(r)
      PROVE  Falling
    BY <1>6, TypeOK DEF PostLogin, Begun, Goes, Falling, TypeOK, Places,
       Responses, NoResponse
<1>7. ASSUME NEW r \in Logins, PostAgain(r)
      PROVE  Falling
    BY <1>7, TypeOK DEF PostAgain, Begun, Goes, Falling, TypeOK, Places,
       Responses, NoResponse
<1>8. ASSUME NEW r \in Logins, FindAccount(r)
      PROVE  Falling
    BY <1>8, TypeOK DEF FindAccount, Goes, Falling, TypeOK, Places, Responses,
       NoResponse
<1>9. ASSUME NEW r \in Logins, Judge(r)
      PROVE  Falling
    BY <1>9, TypeOK DEF Judge, CredentialsOf, Goes, Falling, TypeOK, Places,
       Responses, NoResponse
<1>10. ASSUME NEW r \in Logins, WriteCounter(r)
      PROVE  Falling
    BY <1>10, TypeOK DEF WriteCounter, UpdatePasskeyCredentialCounter,
       SignCount, Goes, Falling, TypeOK, Places, Responses, NoResponse
<1>11. ASSUME NEW r \in Logins, CreateSession(r)
      PROVE  Falling
    BY <1>11, TypeOK DEF CreateSession, Goes, Falling, TypeOK, Places,
       Responses, NoResponse
<1>12. ASSUME NEW r \in Logins, Finish(r)
      PROVE  Falling
    BY <1>12, TypeOK DEF Finish, Goes, Falling, TypeOK, Places, Responses,
       NoResponse
<1>13. ASSUME NEW r \in Registrations, NEW u \in Users, PostRegistration(r, u)
      PROVE  Falling
    BY <1>13, TypeOK DEF PostRegistration, Begun, Goes, Falling, TypeOK,
       Places, Responses, NoResponse
<1>14. ASSUME NEW r \in Registrations, Accept(r)
      PROVE  Falling
    BY <1>14, TypeOK DEF Accept, Goes, Falling, TypeOK, Places, Responses,
       NoResponse
<1>15. ASSUME NEW r \in Registrations, Store(r)
      PROVE  Falling
    BY <1>15, TypeOK DEF Store, CreatePasskeyCredential, Goes, Falling,
       TypeOK, Places, Responses, NoResponse
<1>16. ASSUME NEW k \in Keys, DeleteCredential(k)
      PROVE  Falling
    BY <1>16, TypeOK DEF DeleteCredential, DeletePasskeyCredential, Past,
       Falling, TypeOK, Places, Responses, NoResponse
<1>17. CASE UNCHANGED vars
    BY <1>17, TypeOK DEF vars, Falling, TypeOK, Places, Responses, NoResponse
<1>q. QED
    BY <1>1, <1>2, <1>3, <1>4, <1>5, <1>6, <1>7, <1>8, <1>9, <1>10, <1>11,
       <1>12, <1>13, <1>14, <1>15, <1>16, <1>17 DEF Next, LoginStep,
       BeginLogin, BeginRegistration, RegistrationStep

\* The types, the counts, the challenges and the judgements stand together.
Standing == TypeOK /\ Counts /\ Once /\ ChallengeUsedOnce /\ Judged

\* They hold while the program runs, from any table of passkeys.
THEOREM Invariance == Spec => []Standing
<1>1. Init => Standing
    BY PasskeysAssumption
       DEF Init, Standing, TypeOK, Counts, Once, ChallengeUsedOnce, Judged,
           Holding, Past, Places, Responses, NoResponse, Requests
<1>2. Standing /\ [Next]_vars => Standing'
    BY NextKeepsTypes, NextKeepsCounts, NextKeepsOnce, NextSpendsOnce,
       NextKeepsJudged
       DEF Standing
<1>q. QED
    BY <1>1, <1>2, PTL DEF Spec

\* TypeOK: UpdateCounter leaves no counter where the row is gone, nor one ahead
\* of its authenticator, whatever the order of logins and deletions.
THEOREM TypeCorrect == Spec => []TypeOK
<1>1. Standing => TypeOK
    BY DEF Standing
<1>q. QED
    BY <1>1, Invariance, PTL

\* ChallengeUsedOnce: ConsumeChallenge lets a challenge lead to one session or
\* credential at most, for any number of requests that race for it.
THEOREM OneUseOfAChallenge == Spec => []ChallengeUsedOnce
<1>1. Standing => ChallengeUsedOnce
    BY DEF Standing
<1>q. QED
    BY <1>1, Invariance, PTL

\* DeletionStopsLogins: CompleteLogin opens no session with a deleted passkey
\* but for a login that was judged before.
THEOREM DeletedKeysOpenNothing == Spec => DeletionStopsLogins
<1>1. Standing /\ [Next]_vars =>
         [\A r \in session' \ session :
             holder[asked[r].key] = account[r] \/ r \in overtaken]_vars
    BY NextStopsDeleted DEF Standing
<1>q. QED
    BY <1>1, Invariance, PTL DEF Spec, DeletionStopsLogins

\* CountersFallOnlyBehind: UpdateCounter lowers the counter of a row only for a
\* login that was judged by an older one.
THEOREM OnlyLateWritesLower == Spec => CountersFallOnlyBehind
<1>1. Standing /\ [Next]_vars => [Falling]_vars
    BY NextFallsBehind DEF Standing
<1>q. QED
    BY <1>1, Invariance, PTL DEF Spec, CountersFallOnlyBehind, Falling

-----------------------------------------------------------------------------
(* Challenges are vouchers *)

\* A session was created near the end of its login.
SessionsAreLate == \A r \in session : at[r] \in {"created", "done", "failed"}

\* Nothing but CreateSession makes a session, and no login that has one goes
\* back.
LEMMA NextKeepsSessions ==
    ASSUME TypeOK, SessionsAreLate, [Next]_vars
    PROVE  SessionsAreLate'
<1> USE DEF SessionsAreLate, TypeOK, rows, login, Requests
<1>1. ASSUME NEW r \in Logins, CreateSession(r)
      PROVE  SessionsAreLate'
    BY <1>1 DEF CreateSession, Goes
<1>2. ASSUME NEW r \in Requests, NEW place, r \notin session,
             Goes(r, place), session' = session
      PROVE  SessionsAreLate'
    BY <1>2 DEF Goes
<1>3. ASSUME NEW r \in Requests, NEW place \in {"done", "failed"},
             Goes(r, place), session' = session
      PROVE  SessionsAreLate'
    BY <1>3 DEF Goes
<1>4. ASSUME UNCHANGED <<at, session>>
      PROVE  SessionsAreLate'
    BY <1>4
<1>5. ASSUME NEW r \in Requests, Consume(r) \/ ConsumeLate(r) \/ Fail(r)
      PROVE  SessionsAreLate'
    BY <1>5, <1>2, <1>3 DEF Consume, ConsumeLate, Fail
<1>6. ASSUME NEW r \in Logins, LoginStep(r)
      PROVE  SessionsAreLate'
    BY <1>6, <1>1, <1>2, <1>3 DEF LoginStep, PostLogin, PostAgain,
       FindAccount, Judge, WriteCounter, Finish
<1>7. ASSUME NEW r \in Registrations, RegistrationStep(r)
      PROVE  SessionsAreLate'
    BY <1>7, <1>2, PasskeysAssumption DEF RegistrationStep, PostRegistration,
       Accept, Store
<1>q. QED
    BY <1>4, <1>5, <1>6, <1>7 DEF Next, vars, Begin, BeginLogin,
       BeginRegistration, Expire, DeleteCredential

\* It holds in every state.
LEMMA SessionInvariance == Spec => []SessionsAreLate
<1>1. Init => SessionsAreLate
    BY DEF Init, SessionsAreLate
<1>q. QED
    BY <1>1, NextKeepsSessions, Invariance, PTL DEF Spec, Standing

\* A step that consumes no challenge and opens nothing only circulates them.
LEMMA Circulates ==
    ASSUME TypeOK,
           \A c \in Challenges :
              /\ challenge'[c] = "live" => challenge[c] \in {"live", "new"}
              /\ challenge'[c] = "new" => challenge[c] = "new",
           Claimants' \subseteq Claimants,
           Winners' = Winners,
           \A r \in Claimants \cup Winners : asked'[r] = asked[r]
    PROVE  Voucher!Circulate
<1>1. {<<asked'[r].id, r>> : r \in Claimants'}
        \subseteq {<<asked[r].id, r>> : r \in Claimants}
    OBVIOUS
<1>2. {<<asked'[r].id, r>> : r \in Winners'} = {<<asked[r].id, r>> : r \in Winners}
    OBVIOUS
<1>q. QED
    BY <1>1, <1>2 DEF Voucher!Circulate, Begun

\* Every step of the handlers is a step of the vouchers.
LEMMA VoucherStep ==
    ASSUME TypeOK, SessionsAreLate, [Next]_vars
    PROVE  [Voucher!Next]_(Voucher!voucherVars)
<1> DEFINE Same(s) == asked'[s] = asked[s]
           Kept == \A c \in Challenges :
              /\ challenge'[c] = "live" => challenge[c] \in {"live", "new"}
              /\ challenge'[c] = "new" => challenge[c] = "new"
<1> SUFFICES Voucher!Next \/ UNCHANGED Voucher!voucherVars
    OBVIOUS
<1>a. /\ at \in [Requests -> Places] /\ challenge \in [Challenges -> {"new", "live", "expired", "gone"}]
      /\ session \subseteq Logins /\ Logins \subseteq Requests
      /\ Registrations \subseteq Requests
      /\ \A r \in Registrations : r \notin Logins /\ r \notin session
    BY PasskeysAssumption DEF TypeOK, Requests
<1>1. ASSUME NEW c \in Challenges, NEW u,
             Begin(c, u) \/ Expire(c)
      PROVE  Voucher!Circulate
  <2>1. Kept
      BY <1>1, <1>a DEF Begin, CreatePasskeyChallenge, Unexpired, Expire
  <2>2. UNCHANGED <<at, asked, session>>
      BY <1>1 DEF Begin, Expire, login
  <2>q. QED
      BY <2>1, <2>2, Circulates DEF Claimants, Winners
<1>2. ASSUME NEW r \in Requests, NEW place \in Places \ {"consumed", "done"},
             at[r] \notin {"done"},
             place \in {"found", "judged", "counted"} => at[r] \in Holding,
             Goes(r, place), Kept, UNCHANGED <<asked, session>>
      PROVE  Voucher!Circulate
  <2>1. Claimants' \subseteq Claimants /\ Winners' = Winners
      BY <1>2, <1>a DEF Goes, Claimants, Winners, Holding
  <2>q. QED
      BY <1>2, <2>1, Circulates
<1>3. ASSUME NEW r \in Requests, ConsumeLate(r) \/ Fail(r)
      PROVE  Voucher!Circulate
    BY <1>2, <1>3, <1>a DEF ConsumeLate, ConsumePasskeyChallenge, Fail, Places,
       rows, login
<1>4. ASSUME NEW r \in Requests, at[r] = "idle", Goes(r, "posted"),
             UNCHANGED <<challenge, session>>, \A s \in Requests \ {r} : Same(s)
      PROVE  Voucher!Circulate
  <2>1. Claimants' \subseteq Claimants /\ Winners' = Winners
      BY <1>4, <1>a DEF Goes, Claimants, Winners
  <2>2. r \notin Claimants \cup Winners
      BY <1>4 DEF Claimants, Winners, SessionsAreLate
  <2>q. QED
      BY <1>4, <2>1, <2>2, Circulates DEF Claimants, Winners, Requests, TypeOK
<1>5. ASSUME NEW r \in Requests,
             PostLogin(r) \/ PostAgain(r) \/ \E u \in Users : PostRegistration(r, u)
      PROVE  Voucher!Circulate
  <2>1. \A s \in Requests \ {r} : Same(s)
      BY <1>5 DEF PostLogin, PostAgain, PostRegistration, TypeOK
  <2>q. QED
      BY <1>4, <1>5, <2>1 DEF PostLogin, PostAgain, PostRegistration, rows, login
<1>6. ASSUME NEW r \in Requests,
             FindAccount(r) \/ Judge(r) \/ WriteCounter(r) \/ Accept(r)
      PROVE  Voucher!Circulate
    BY <1>2, <1>6, <1>a DEF FindAccount, Judge, WriteCounter, Accept, Places,
       Holding, rows, login
<1>7. ASSUME NEW r \in Logins, Finish(r)
      PROVE  Voucher!Circulate
  <2>1. Claimants' \subseteq Claimants /\ Winners' = Winners
      BY <1>7, <1>a DEF Finish, Goes, Claimants, Winners, login
  <2>q. QED
      BY <1>7, <2>1, Circulates DEF Finish, rows
<1>8. ASSUME NEW k \in Keys, DeleteCredential(k)
      PROVE  Voucher!Circulate
  <2>1. UNCHANGED <<challenge, at, asked, session>>
      BY <1>8 DEF DeleteCredential, login
  <2>q. QED
      BY <2>1, Circulates DEF Claimants, Winners
<1>9. ASSUME NEW r \in Requests, Consume(r)
      PROVE  Voucher!Next
  <2>1. /\ at[r] = "posted" /\ challenge[asked[r].id] = "live"
        /\ challenge' = [challenge EXCEPT ![asked[r].id] = "gone"]
        /\ at' = [at EXCEPT ![r] = "consumed"]
        /\ UNCHANGED <<asked, session>>
      BY <1>9 DEF Consume, ConsumePasskeyChallenge, Goes, login
  <2>2. asked[r].id \in Challenges
      BY <2>1 DEF TypeOK, Responses
  <2>3. Claimants' = Claimants \cup {r} /\ Winners' = Winners
      BY <2>1, <1>a DEF Claimants, Winners
  <2>4. {<<asked'[s].id, s>> : s \in Claimants'}
          = {<<asked[s].id, s>> : s \in Claimants} \cup {<<asked[r].id, r>>}
      BY <2>1, <2>3
  <2>5. {<<asked'[s].id, s>> : s \in Winners'} = {<<asked[s].id, s>> : s \in Winners}
      BY <2>1, <2>3
  <2>6. /\ {c \in Challenges : challenge'[c] = "live"}
             \subseteq {c \in Challenges : challenge[c] = "live"} \ {asked[r].id}
        /\ Begun' = Begun
      BY <2>1, <2>2, <1>a DEF Begun
  <2>q. QED
    <3>1. PICK v \in {c \in Challenges : challenge[c] = "live"} : v = asked[r].id
        BY <2>1, <2>2
    <3>2. Voucher!Claim(v, r)
        BY <3>1, <2>4, <2>5, <2>6 DEF Voucher!Claim, Voucher!Withdraw
    <3>q. QED
        BY <3>2 DEF Voucher!Next
<1>10. ASSUME NEW r \in Requests,
              \/ r \in Logins /\ CreateSession(r)
              \/ r \in Registrations /\ Store(r)
       PROVE  Voucher!Next
  <2>1. /\ at[r] \in {"judged", "counted"}
        /\ at'[r] \in {"created", "done"}
        /\ \A s \in Requests \ {r} : at'[s] = at[s]
        /\ UNCHANGED <<challenge, asked>>
      BY <1>10, <1>a DEF CreateSession, Store, Goes, rows
  <2>2. r \in Claimants /\ Claimants' = Claimants \ {r}
      BY <2>1 DEF Claimants
  <2>3. Winners' = Winners \cup {r}
    <3>1. CASE r \in Logins /\ CreateSession(r)
        BY <2>1, <3>1, <1>a DEF CreateSession, Winners
    <3>2. CASE r \in Registrations /\ Store(r)
      <4>1. at'[r] = "done" /\ session' = session
          BY <3>2, <1>a DEF Store, Goes, login
      <4>q. QED
          BY <2>1, <3>2, <4>1, <1>a DEF Winners
    <3>q. QED
        BY <3>1, <3>2, <1>10
  <2>4. {<<asked'[s].id, s>> : s \in Claimants'}
          = {<<asked[s].id, s>> : s \in Claimants} \ {<<asked[r].id, r>>}
      BY <2>1, <2>2
  <2>5. {<<asked'[s].id, s>> : s \in Winners'}
          = {<<asked[s].id, s>> : s \in Winners} \cup {<<asked[r].id, r>>}
      BY <2>1, <2>3
  <2>q. QED
    <3>1. PICK claim \in {<<asked[s].id, s>> : s \in Claimants} :
             claim = <<asked[r].id, r>>
        BY <2>2
    <3>2. Voucher!Redeem(claim)
        BY <3>1, <2>1, <2>4, <2>5 DEF Voucher!Redeem, Begun
    <3>q. QED
        BY <3>2 DEF Voucher!Next
<1>11. CASE UNCHANGED vars
    BY <1>11 DEF vars, rows, login, Voucher!voucherVars, Begun, Claimants, Winners
<1>c. Voucher!Circulate => Voucher!Next
    BY DEF Voucher!Next
<1> HIDE DEF Kept
<1>12. ASSUME NEW r \in Logins, LoginStep(r)
       PROVE  Voucher!Next
    BY <1>5, <1>6, <1>7, <1>10, <1>12, <1>a, <1>c DEF LoginStep
<1>13. ASSUME NEW r \in Registrations, RegistrationStep(r)
       PROVE  Voucher!Next
    BY <1>5, <1>6, <1>10, <1>13, <1>a, <1>c DEF RegistrationStep
<1>q. QED
    BY <1>1, <1>3, <1>8, <1>9, <1>11, <1>12, <1>13, <1>c
       DEF Next, BeginLogin, BeginRegistration

\* ConsumeChallenge, with everything that races and fails around it, implements
\* things that are used once.
THEOREM Refinement == Spec => ImplementsVouchers
<1>1. ASSUME Init PROVE Voucher!Init
  <2>1. Claimants = {} /\ Winners = {}
      BY <1>1, PasskeysAssumption DEF Init, Claimants, Winners, Requests
  <2>2. {c \in Challenges : challenge[c] = "live"} \subseteq Begun
      BY DEF Begun
  <2>q. QED
      BY <2>1, <2>2 DEF Voucher!Init
<1>2. Standing /\ SessionsAreLate /\ [Next]_vars
        => [Voucher!Next]_(Voucher!voucherVars)
    BY VoucherStep DEF Standing
<1>q. QED
    BY <1>1, <1>2, Invariance, SessionInvariance, PTL
       DEF Spec, ImplementsVouchers, Voucher!Spec

Claims == INSTANCE VouchersProofs WITH
    Holders <- Requests,
    issued <- Begun,
    live <- {c \in Challenges : challenge[c] = "live"},
    held <- {<<asked[r].id, r>> : r \in Claimants},
    redeemed <- {<<asked[r].id, r>> : r \in Winners}

\* What is proved of vouchers holds of challenges: no two sessions, and no
\* session and credential, come from the same challenge.
THEOREM ChallengesRedeemOnce == Spec => []Claims!RedeemedOnce
<1>1. Voucher!Init => Claims!Init
    BY DEF Voucher!Init, Claims!Init
<1>2. [Voucher!Next]_(Voucher!voucherVars) => [Claims!Next]_(Claims!voucherVars)
    BY DEF Voucher!Next, Claims!Next, Voucher!voucherVars, Claims!voucherVars,
       Voucher!Circulate, Claims!Circulate, Voucher!Claim, Claims!Claim,
       Voucher!Redeem, Claims!Redeem, Voucher!RedeemAtOnce, Claims!RedeemAtOnce,
       Voucher!Withdraw, Claims!Withdraw
<1>q. QED
    BY <1>1, <1>2, Refinement, Claims!OneRedemption, PTL
       DEF ImplementsVouchers, Voucher!Spec, Claims!Spec
=============================================================================
