SPECIFICATION MemberSpec
CONSTANTS
    Organizations = {acme}
    Users = {u1, u2, u3}
    Roles = {"owner", "admin", "viewer"}
    Slugs = {s1, s2}
    Changes = {c1, c2}
    Nobody = Nobody
CHECK_DEADLOCK FALSE
PROPERTIES
    AdminsSpareOwners
