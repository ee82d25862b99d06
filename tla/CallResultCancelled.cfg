SPECIFICATION Spec
CONSTANTS
  HttpCodes = {200, 400, 401, 403, 404, 408, 409, 422, 500}
  NoHttpCode = NoHttpCode
  Elements = {a, b}
INVARIANT
  GrpcStatusPrevails
