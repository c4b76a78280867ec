\* Two tenants and one slug; two users of a provider that reports the same email
\* for both, none; one API key, one invite.
CONSTANTS
    p1 = p1
    Tenant = {t1, t2}
    Slug = {s1}
    Identity = {u1, u2}
    Provider = {p1}
    ProviderOf <- MCProviderOf
    Email = {hidden}
    KeyId = {k1}
    InviteId = {i1}
    None = none
    MaxTime = 2
    MaxStateAge = 0
SYMMETRY Symmetry
SPECIFICATION Spec
INVARIANTS OnlyRefusalsLock InviteOnce
PROPERTIES SettledRows
